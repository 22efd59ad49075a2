------------------------------ MODULE LoopReplay ------------------------------
(***************************************************************************)
(* The while loops of a function's text: which ones the recorder           *)
(* recognises (parse_while_loops), and how it replays them line by line    *)
(* with an environment of its own (simulate_while_loop), next to what the  *)
(* function really executes (src/src/tracer.rs).                           *)
(*                                                                         *)
(* A line of the text is one of                                            *)
(*   fn               the header                                           *)
(*   let x = n        get: let x = f(), whose value n the text hides       *)
(*   set x = y + n    add: x += n, which is no assignment to the parser    *)
(*   while x < n {    wild: a while whose condition it cannot parse        *)
(*   if x < n {       close: a lone closing brace        blank             *)
(***************************************************************************)
EXTENDS BundleWriter, SequencesExt

CONSTANT MaxIters  \* the safety cap on replayed iterations (1000 in the code)

ASSUME MaxItersAssumption == MaxIters \in Nat \ {0}

VARIABLES
  body,    \* the lines of the function
  line,    \* the line the walk is at, 1-based (line_offset + 1)
  env,     \* what the simulator knows of variables (sim_env)
  loop,    \* the header of the loop being replayed, 0 outside
  iters,   \* its iterations so far
  capped   \* was some loop cut off?

loopVars == <<body, line, env, loop, iters, capped>>

LoopInit(lines) ==
  body = lines /\ line = 1 /\ env = <<>> /\ loop = 0 /\ iters = 0 /\ capped = FALSE

Opens(l) == l.do \in {"fn", "while", "wild", "if"}
Closes(l) == l.do = "close"

-----------------------------------------------------------------------------
(***************************************************************************)
(* Recognising.  The scan counts braces from the function's header and     *)
(* looks at while headers at depth 1 only.  That it skips a loop it        *)
(* recognised changes nothing: in one the depth is at least 2, and past it *)
(* what it was before.                                                     *)
(***************************************************************************)

(* The first line after the header k by which every brace opened from k on *)
(* is closed; 0 if there is none.                                          *)
Opened(lines, k, j) == Cardinality({i \in k..j : Opens(lines[i])})
Closed(lines, k, j) == Cardinality({i \in k..j : Closes(lines[i])})

ClosingLine(lines, k) ==
  LET closed == {j \in (k + 1)..Len(lines) : Opened(lines, k, j) = Closed(lines, k, j)}
  IN  IF closed = {} THEN 0 ELSE CHOOSE j \in closed : \A i \in closed : j <= i

(* The lines whose condition, or right-hand side, the parser understands.  *)
parse_expr(l) == l.do \in {"while", "set"}

IsLoop(lines, k) ==
  /\ Opened(lines, 1, k - 1) = Closed(lines, 1, k - 1) + 1
  /\ lines[k].do \in {"while", "wild"} /\ parse_expr(lines[k])
  /\ ClosingLine(lines, k) # 0

parse_while_loops(lines) ==
  {[header |-> k, closing |-> ClosingLine(lines, k)] : k \in {h \in DOMAIN lines : IsLoop(lines, h)}}

(* A loop without a body: `body_end - body_start + 1` is computed on       *)
(* unsigned integers, and a build with overflow checks stops there.        *)
CapacityUnderflows(lines) ==
  \E l \in parse_while_loops(lines) : l.closing - 1 < l.header + 1

-----------------------------------------------------------------------------
(***************************************************************************)
(* Replaying.                                                              *)
(***************************************************************************)
Known(x) == x \in DOMAIN env
With(f, x, v) == [y \in DOMAIN f \cup {x} |-> IF y = x THEN v ELSE f[y]]

(* A condition: unknown, or whether it holds.                              *)
eval_expr(l) == Known(l.x)
Holds(l) == env[l.x] < l.n

(* The walk outside loops: a step per line that is not blank or a brace;   *)
(* literal initialisers are remembered, other assignments are not looked   *)
(* at, and a recognised loop whose condition has a value is replayed.      *)
AtLoop == \E l \in parse_while_loops(body) : l.header = line /\ eval_expr(body[line])

parse_let_int_init(l) == IF l.do = "let" THEN With(env, l.x, l.n) ELSE env

WalkLine ==
  /\ loop = 0 /\ line <= Len(body) /\ ~AtLoop
  /\ Write(IF body[line].do \in {"blank", "close"} THEN <<>> ELSE <<StepEv(line)>>)
  /\ env' = parse_let_int_init(body[line])
  /\ line' = line + 1
  /\ UNCHANGED <<body, loop, iters, capped>>

(* Mutant: the count of the last loop is kept.                             *)
EnterLoopCounting ==
  /\ loop = 0 /\ line <= Len(body) /\ AtLoop
  /\ loop' = line
  /\ UNCHANGED <<disk, table, out, body, line, env, iters, capped>>

EnterLoop ==
  /\ loop = 0 /\ line <= Len(body) /\ AtLoop
  /\ loop' = line /\ iters' = 0
  /\ UNCHANGED <<disk, table, out, body, line, env, capped>>

Closing == ClosingLine(body, loop)

(* Mutant: the header is not stepped on when its condition turns false.    *)
HeaderStepIfHolds == IF Holds(body[loop]) THEN <<StepEv(loop)>> ELSE <<>>

(* The header is stepped on at every turn, the last one included.          *)
HeaderStep == <<StepEv(loop)>>

LoopTurn ==
  /\ loop # 0 /\ line = loop
  /\ Write(HeaderStep)
  /\ IF Holds(body[loop]) THEN line' = line + 1 /\ UNCHANGED loop
     ELSE line' = Closing + 1 /\ loop' = 0
  /\ UNCHANGED <<body, env, iters, capped>>

(* Each line of the body is a step, each assignment of a value that is     *)
(* known an update, told as a value.                                       *)
parse_assignment_statement(l) == l.do \in {"set", "add"} /\ parse_expr(l)

LoopLine ==
  /\ loop # 0 /\ line > loop /\ line < Closing
  /\ LET l == body[line] IN
     IF parse_assignment_statement(l) /\ Known(l.y)
     THEN /\ env' = With(env, l.x, env[l.y] + l.n)
          /\ Write(<<StepEv(line), ValueEv(line, l.x, env[l.y] + l.n)>>)
     ELSE Write(<<StepEv(line)>>) /\ UNCHANGED env
  /\ line' = line + 1
  /\ UNCHANGED <<body, loop, iters, capped>>

(* Past the last line the turn is counted, and the cap looked at.          *)
LoopTurned ==
  /\ loop # 0 /\ line = Closing
  /\ iters' = iters + 1
  /\ IF iters + 1 >= MaxIters
     THEN loop' = 0 /\ line' = line + 1 /\ capped' = TRUE
     ELSE line' = loop /\ UNCHANGED <<loop, capped>>
  /\ UNCHANGED <<disk, table, out, body, env>>

-----------------------------------------------------------------------------
(***************************************************************************)
(* What the function executes.                                             *)
(***************************************************************************)
Matching(lines, k) ==  \* the brace that closes the one opened on line k
  CHOOSE j \in (k + 1)..Len(lines) :
    /\ lines[j].do = "close" /\ Opened(lines, k, j) = Closed(lines, k, j)
    /\ \A m \in (k + 1)..(j - 1) : Opened(lines, k, m) > Closed(lines, k, m)

(* The line executed after k, with the variables e.                        *)
After(lines, k, e) ==
  LET l == lines[k]
      opener == {h \in 1..(k - 1) : lines[h].do = "while" /\ Matching(lines, h) = k}
  IN  CASE l.do = "wild" -> Matching(lines, k) + 1
        [] l.do \in {"while", "if"} /\ ~(e[l.x] < l.n) -> Matching(lines, k) + 1
        [] l.do = "close" /\ opener # {} -> CHOOSE h \in opener : TRUE
        [] OTHER -> k + 1

Assigned(l, e) ==
  CASE l.do \in {"let", "get"} -> With(e, l.x, l.n)
    [] l.do = "set" -> With(e, l.x, e[l.y] + l.n)
    [] l.do = "add" -> With(e, l.x, e[l.x] + l.n)
    [] OTHER -> e

Stepping(k) == body[k].do \notin {"blank", "close"}
InLoop(k) == \E l \in parse_while_loops(body) : k \in (l.header + 1)..(l.closing - 1)

(* The most lines that are executed when no loop is cut off.              *)
MostLines == Len(body) * MaxIters

(* Executing a line: the next one, the variables, and what a recording     *)
(* tells of it, its step and the value it assigns in a loop; a wild loop   *)
(* ends at once.                                                           *)
ExecuteLine(before) ==
  LET k == before.at
      vars == Assigned(body[k], before.vars)
  IN  [at |-> After(body, k, before.vars), vars |-> vars,
       told |-> before.told
         \o (IF Stepping(k) THEN <<StepEv(k)>> ELSE <<>>)
         \o (IF InLoop(k) /\ body[k].do = "set" THEN <<ValueEv(k, body[k].x, vars[body[k].x])>> ELSE <<>>)]

(* The first n lines executed.                                             *)
execution[n \in 0..MostLines] ==
  IF n = 0 THEN [at |-> 1, vars |-> <<>>, told |-> <<>>]
  ELSE LET before == execution[n - 1]
       IN  IF before.at > Len(body) THEN before ELSE ExecuteLine(before)

Executed == execution[MostLines].told

(* What the walk wrote after the call of the function.                     *)
Recorded == Tail(out)

(* A loop is within the simulator's means: its body is only assignments    *)
(* that parse, and the variables it needs are bound by literals the walk   *)
(* saw and by nothing else outside loops.                                  *)
Reads(k) == {body[k].x} \cup IF body[k].do = "set" THEN {body[k].y} ELSE {}
WithinMeans(l) ==
  /\ \A k \in (l.header + 1)..(l.closing - 1) : body[k].do = "set"
  /\ \A x \in UNION {Reads(k) : k \in l.header..(l.closing - 1)} :
       /\ \E k \in 1..(l.header - 1) : body[k].do = "let" /\ body[k].x = x
       /\ \A k \in 1..(l.header - 1) :
            ~InLoop(k) /\ body[k].do \in {"set", "add", "get"} => body[k].x # x

Branches == {k \in DOMAIN body : body[k].do \in {"if", "wild", "while"}}
Header(k) == \E l \in parse_while_loops(body) : k = l.header

(* Where every loop is within the simulator's means, the steps recorded    *)
(* are the lines executed, iteration by iteration, with the values the     *)
(* loops assign, until a loop is cut off (tracer.rs:1012-1091).            *)
LoopsRunAsExecuted ==
  (/\ at = "walk" /\ line > 1 /\ ~capped
   /\ \A k \in Branches : \E l \in parse_while_loops(body) : k = l.header /\ WithinMeans(l))
    => IsPrefix(Recorded, Executed)

(* The claim of tracer.rs:993-1012: replaying a loop gives the steps of    *)
(* the iterations executed; loops that are not replayed are left aside.    *)
LoopsCountIterations ==
  (/\ at = "walk" /\ line > 1 /\ ~capped
   /\ \A k \in Branches : Header(k) /\ \E j \in 1..(k - 1) : body[j].do = "let" /\ body[j].x = body[k].x)
    => IsPrefix(SelectSeq(Recorded, LAMBDA e : e.ev = "step"), SelectSeq(Executed, LAMBDA e : e.ev = "step"))
===============================================================================
