----------------------------- MODULE SourceWalk ------------------------------
(***************************************************************************)
(* The walk that turns a Cairo source file into a recording:               *)
(* emit_source_trace and emit_function_dfs of src/src/tracer.rs.           *)
(*                                                                         *)
(* The recorder has no execution trace of its own.  It parses a static     *)
(* call graph out of the source text (build_function_table) and walks it   *)
(* depth first from main: each function is entered on first mention, each  *)
(* of its non-blank lines becomes a step, a recognised while loop is       *)
(* replayed iteration by iteration, and the callees named on a line are    *)
(* entered right after the line's steps.  The value the program returned   *)
(* rides along as a passenger (pending_synthetic_return): a frame either   *)
(* keeps it, and attaches it to its own last step, or hands it to its tail *)
(* call, so that it ends up on the last step of the recording.             *)
(*                                                                         *)
(* The recursion of emit_function_dfs is an explicit stack of frames here, *)
(* and one action is one turn of the while loop over a function's lines,   *)
(* one callee, or one return.                                              *)
(***************************************************************************)
EXTENDS Naturals, Sequences, FiniteSets

CONSTANTS
  Name,      \* identifiers a line can be parsed to call
  NoName,    \* no identifier at all
  Programs,  \* the function tables explored, see IsProgram
  MaxIters   \* iterations after which a simulated loop is cut off

(***************************************************************************)
(* A line of a function.                                                   *)
(*   blank  empty, or a lone brace: no step                                *)
(*   stmts  number of steps the line gives (statement_columns_on_line)     *)
(*   calls  the callees parsed from it, in source order                    *)
(*   close  for the header of a recognised while loop, the line of its     *)
(*          closing brace; 0 on every other line                           *)
(*   sim    for a header: can the loop's condition be evaluated?           *)
(***************************************************************************)
Line == [blank : BOOLEAN, stmts : Nat \ {0}, calls : Seq(Name),
         close : Nat, sim : BOOLEAN]

(***************************************************************************)
(* A function table: the lines of every function it lists and the root of  *)
(* the walk.  Sierra knows functions the table lacks (pub fn, methods      *)
(* called on a value): a line can call a name that is not in the domain.   *)
(* A blank line names nobody, and the recognised loops of a function do    *)
(* not overlap: parse_while_loops resumes past the closing brace.          *)
(***************************************************************************)
IsProgram(p) ==
  /\ DOMAIN p.lines \subseteq Name
  /\ p.root \in DOMAIN p.lines
  /\ \A f \in DOMAIN p.lines :
       /\ p.lines[f] \in Seq(Line)
       /\ p.lines[f] # <<>>
       /\ ~p.lines[f][1].blank
       /\ p.lines[f][1].close = 0
       /\ \A l \in 1..Len(p.lines[f]) :
            /\ p.lines[f][l].blank => p.lines[f][l].calls = <<>>
            /\ p.lines[f][l].close # 0 =>
                 /\ ~p.lines[f][l].blank
                 /\ p.lines[f][l].calls = <<>>
                 /\ p.lines[f][l].close > l
                 /\ p.lines[f][l].close <= Len(p.lines[f])
                 /\ \A k \in l + 1..p.lines[f][l].close : p.lines[f][k].close = 0

ASSUME MaxItersAssumption == MaxIters \in Nat \ {0}
ASSUME NoNameAssumption == NoName \notin Name
ASSUME ProgramsAssumption == \A p \in Programs : IsProgram(p)

VARIABLES
  prog,      \* the function table, fixed for a recording
  seed,      \* was a return value derived for the root?
  stack,     \* frames of emit_function_dfs, outermost first
  visited,   \* names the walk has entered or looked up
  pending,   \* frame whose step the trace writer still buffers
  surfaced,  \* was the return_value variable registered?
  out,       \* the events handed to the trace writer
  started    \* has the root been entered?

vars == <<prog, seed, stack, visited, pending, surfaced, out, started>>

Listed == DOMAIN prog.lines
LinesOf(f) == prog.lines[f]

(***************************************************************************)
(* Events.  A step carries its line; "var" is the return_value variable.   *)
(***************************************************************************)
CallOf(f) == [kind |-> "call", fn |-> f, line |-> 0]
StepOf(f, l) == [kind |-> "step", fn |-> f, line |-> l]
ReturnOf(f) == [kind |-> "return", fn |-> f, line |-> 0]
ValueOf(f) == [kind |-> "var", fn |-> f, line |-> 0]

Repeat(e, n) == [i \in 1..n |-> e]

-----------------------------------------------------------------------------
(***************************************************************************)
(* The scan a frame makes of its own body before walking it.               *)
(***************************************************************************)

(* Positions, line and callee, of the calls the walk could still enter. *)
Recursable(fn, vis) ==
  UNION {{<<l, i>> : i \in {k \in 1..Len(LinesOf(fn)[l].calls) :
                              LinesOf(fn)[l].calls[k] \notin vis \cup {fn}}} :
         l \in 1..Len(LinesOf(fn))}

(* Mutant: a step on the line of the last call counts as one after it. *)
HasPostRecursionStepSameLine(fn, recursable) ==
  \E l \in 1..Len(LinesOf(fn)) :
    ~LinesOf(fn)[l].blank /\ \A p \in recursable : p[1] <= l

(* Is some line after all of these calls not blank? *)
HasPostRecursionStep(fn, recursable) ==
  \E l \in 1..Len(LinesOf(fn)) :
    ~LinesOf(fn)[l].blank /\ \A p \in recursable : p[1] < l

(* Mutants: the walk starts at the wrong line. *)
NewFrameZeroBased(fn, vis, passenger) ==
  [fn |-> fn, line |-> 0, idx |-> 0, recursable |-> Recursable(fn, vis),
   post |-> HasPostRecursionStep(fn, Recursable(fn, vis)), passenger |-> passenger]

NewFrameAfterHeader(fn, vis, passenger) ==
  [NewFrameZeroBased(fn, vis, passenger) EXCEPT !.line = 2]

(***************************************************************************)
(* A frame: the line it is on, the callee of that line to look at next (0  *)
(* before the line's steps are written), what the scan found, and whether  *)
(* it was handed the passenger.                                            *)
(***************************************************************************)
NewFrame(fn, vis, passenger) ==
  LET recursable == Recursable(fn, vis)
  IN  [fn |-> fn, line |-> 1, idx |-> 0, recursable |-> recursable,
       post |-> HasPostRecursionStep(fn, recursable), passenger |-> passenger]

(* The tail call is the last of the calls the scan found. *)
BeforeOrAt(frame, p) ==
  frame.line < p[1] \/ (frame.line = p[1] /\ frame.idx <= p[2])
BeforeTail(frame) == \E p \in frame.recursable : BeforeOrAt(frame, p)
AtTail(frame) ==
  /\ <<frame.line, frame.idx>> \in frame.recursable
  /\ \A p \in frame.recursable :
       BeforeOrAt(frame, p) => p = <<frame.line, frame.idx>>

Top == stack[Len(stack)]
Below == SubSeq(stack, 1, Len(stack) - 1)
WithTop(frame) == [stack EXCEPT ![Len(stack)] = frame]

CurrentLine == LinesOf(Top.fn)[Top.line]
InBody == stack # <<>> /\ Top.line <= Len(LinesOf(Top.fn))
AtNewLine == InBody /\ Top.idx = 0
AtLoop == AtNewLine /\ CurrentLine.close # 0 /\ CurrentLine.sim
AtCalls == InBody /\ Top.idx # 0

-----------------------------------------------------------------------------
(***************************************************************************)
(* emit_source_trace seeds the passenger with the root's return value and  *)
(* enters the root.                                                        *)
(***************************************************************************)
EnterRoot ==
  /\ ~started
  /\ started' = TRUE
  /\ visited' = {prog.root}
  /\ stack' = <<NewFrame(prog.root, {prog.root}, seed)>>
  /\ out' = <<CallOf(prog.root)>>
  /\ UNCHANGED <<prog, seed, pending, surfaced>>

(***************************************************************************)
(* A recognised loop whose condition evaluates is replayed, header and     *)
(* body lines once per iteration and the header once more when the         *)
(* condition turns false, and the walk resumes past its closing line.      *)
(* The callees named in the loop are not looked at.                        *)
(***************************************************************************)
LoopEvents(f, header, close, n) ==
  LET span == close - header  \* the header and the body lines
      count == IF n = MaxIters THEN n * span ELSE n * span + 1
  IN  [i \in 1..count |-> StepOf(f, header + ((i - 1) % span))]

SimulateLoop ==
  /\ AtLoop
  /\ \E n \in 0..MaxIters :
       out' = out \o LoopEvents(Top.fn, Top.line, CurrentLine.close, n)
  /\ stack' = WithTop([Top EXCEPT !.line = CurrentLine.close + 1])
  /\ pending' = Top.fn
  /\ UNCHANGED <<prog, seed, visited, surfaced, started>>

(* Mutant: the loop goes on without advancing the line. *)
SkipBlankLineStuck ==
  AtNewLine /\ ~AtLoop /\ CurrentLine.blank /\ UNCHANGED vars

SkipBlankLine ==
  /\ AtNewLine
  /\ ~AtLoop
  /\ CurrentLine.blank
  /\ stack' = WithTop([Top EXCEPT !.line = @ + 1])
  /\ UNCHANGED <<prog, seed, visited, pending, surfaced, out, started>>

StepLine ==
  /\ AtNewLine
  /\ ~AtLoop
  /\ ~CurrentLine.blank
  /\ out' = out \o Repeat(StepOf(Top.fn, Top.line), CurrentLine.stmts)
  /\ stack' = WithTop([Top EXCEPT !.idx = 1])
  /\ pending' = Top.fn
  /\ UNCHANGED <<prog, seed, visited, surfaced, started>>

(***************************************************************************)
(* One callee of the line.  A visited one is skipped; a name the table     *)
(* does not list is marked visited and skipped; any other is entered, with *)
(* the passenger if it is the frame's tail call and the frame has no later *)
(* step of its own.                                                        *)
(***************************************************************************)
HandsOverAnyCall(frame) == ~frame.post /\ frame.passenger  \* mutant: not the tail call
HandsOver(frame) == AtTail(frame) /\ ~frame.post /\ frame.passenger
PastCallee(frame) == [frame EXCEPT !.idx = @ + 1]

Callee == CurrentLine.calls[Top.idx]
HasCalleeFirstOnly == AtCalls /\ Top.idx = 1 /\ CurrentLine.calls # <<>>  \* mutant
HasCallee == AtCalls /\ Top.idx <= Len(CurrentLine.calls)

SkipCallee ==
  /\ HasCallee
  /\ Callee \in visited \/ Callee \notin Listed
  /\ visited' = visited \cup {Callee}
  /\ stack' = WithTop(PastCallee(Top))
  /\ UNCHANGED <<prog, seed, pending, surfaced, out, started>>

EnterCallee ==
  /\ HasCallee
  /\ Callee \notin visited
  /\ Callee \in Listed
  /\ visited' = visited \cup {Callee}
  /\ stack' = Append(WithTop(PastCallee(Top)),
                     NewFrame(Callee, visited', HandsOver(Top)))
  /\ out' = Append(out, CallOf(Callee))
  /\ UNCHANGED <<prog, seed, pending, surfaced, started>>

EndLine ==
  /\ AtCalls
  /\ ~HasCallee
  /\ stack' = WithTop([Top EXCEPT !.line = @ + 1, !.idx = 0])
  /\ UNCHANGED <<prog, seed, visited, pending, surfaced, out, started>>

(***************************************************************************)
(* The end of a body.  The return_value variable goes to the step the      *)
(* writer buffers, which register_return then flushes.  A variable that    *)
(* finds no buffered step is lost.                                         *)
(***************************************************************************)
Surfaces(frame) == frame.post /\ frame.passenger

LeaveFunction ==
  /\ stack # <<>>
  /\ ~InBody
  /\ out' = IF Surfaces(Top) /\ pending # NoName
            THEN out \o <<ValueOf(pending), ReturnOf(Top.fn)>>
            ELSE Append(out, ReturnOf(Top.fn))
  /\ surfaced' = (surfaced \/ Surfaces(Top))
  /\ pending' = NoName
  /\ stack' = Below
  /\ UNCHANGED <<prog, seed, visited, started>>

Init ==
  /\ prog \in Programs
  /\ seed \in BOOLEAN
  /\ stack = <<>>
  /\ visited = {}
  /\ pending = NoName
  /\ surfaced = FALSE
  /\ out = <<>>
  /\ started = FALSE

Next ==
  \/ EnterRoot
  \/ SimulateLoop
  \/ SkipBlankLine
  \/ StepLine
  \/ SkipCallee
  \/ EnterCallee
  \/ EndLine
  \/ LeaveFunction

Spec == Init /\ [][Next]_vars

(* The walk runs on one thread and nothing in it waits. *)
FairSpec == Spec /\ WF_vars(Next)

Finished == started /\ stack = <<>>

-----------------------------------------------------------------------------
(***************************************************************************)
(* Every variable stays in its domain; a frame points at one of the lines  *)
(* of a listed function and at one of that line's callees.                 *)
(***************************************************************************)
Frame == [fn : Listed, line : Nat \ {0}, idx : Nat,
          recursable : SUBSET (Nat \X Nat),
          post : BOOLEAN, passenger : BOOLEAN]

Event == [kind : {"call", "step", "return", "var"}, fn : Name, line : Nat]

TypeOK ==
  /\ prog \in Programs
  /\ seed \in BOOLEAN
  /\ stack \in Seq(Frame)
  /\ visited \in SUBSET Name
  /\ pending \in Listed \cup {NoName}
  /\ surfaced \in BOOLEAN
  /\ out \in Seq(Event)
  /\ started \in BOOLEAN

(***************************************************************************)
(* "Non-tail recursions receive None so the variable is emitted exactly    *)
(* once" (tracer.rs:546-547), the half of it that the code keeps: the      *)
(* passenger is never duplicated.  At any time at most one open frame can  *)
(* still surface it or hand it on, and none once it has been surfaced.     *)
(***************************************************************************)
Carries(frame) == frame.passenger /\ (frame.post \/ BeforeTail(frame))

PassengerUnique ==
  \A i \in 1..Len(stack) :
    Carries(stack[i]) => /\ ~surfaced
                         /\ \A j \in 1..Len(stack) : Carries(stack[j]) => i = j

(***************************************************************************)
(* The promise of the event stream: see SourceRecording.  It holds that    *)
(* the return value lands on the recording's last step and on a step of    *)
(* the frame that surfaces it ("the chronological-last-step contract",     *)
(* tracer.rs:970-973), that calls nest, and that no function is entered    *)
(* twice.                                                                  *)
(***************************************************************************)
Recording ==
  INSTANCE SourceRecording WITH
    Function <- Name,
    NoFunction <- NoName,
    open <- [i \in 1..Len(stack) |-> stack[i].fn],
    called <- visited \cap Listed,
    buffered <- pending,
    surfaced <- surfaced

ImplementsRecording == Recording!Spec

(***************************************************************************)
(* "one step per non-skip line in each visited body" (tracer.rs:356-357):  *)
(* whatever is entered in between, the steps a returned function leaves in *)
(* the recording are its non-blank lines in source order, each as often as *)
(* it has statements, once the replayed loops are set aside.               *)
(***************************************************************************)
InReplayedLoop(f, l) ==
  \E h \in 1..l : /\ LinesOf(f)[h].close >= l
                  /\ LinesOf(f)[h].sim

IsBodyStep(f, e) == e.kind = "step" /\ e.fn = f /\ ~InReplayedLoop(f, e.line)

StepsAt(f, l) == {i \in 1..Len(out) : out[i] = StepOf(f, l)}

StepsOnItsLines(f) ==
  \A i \in 1..Len(out) :
    out[i].kind = "step" /\ out[i].fn = f => out[i].line \in 1..Len(LinesOf(f))

StepsInOrder(f) ==
  \A i, j \in 1..Len(out) :
    i < j /\ IsBodyStep(f, out[i]) /\ IsBodyStep(f, out[j]) => out[i].line <= out[j].line

StepsAreAll(f) ==
  \A l \in 1..Len(LinesOf(f)) :
    ~InReplayedLoop(f, l) =>
      Cardinality(StepsAt(f, l)) =
        IF LinesOf(f)[l].blank THEN 0 ELSE LinesOf(f)[l].stmts

BodyComplete(f) == StepsOnItsLines(f) /\ StepsInOrder(f) /\ StepsAreAll(f)

BodiesComplete ==
  \A f \in Listed :
    (\E i \in 1..Len(out) : out[i] = ReturnOf(f)) => BodyComplete(f)

(***************************************************************************)
(* The first-touch walk reaches what a reader of the call graph expects:   *)
(* when it ends, the functions with a call event are those reachable from  *)
(* the root through lines outside replayed loops.                          *)
(***************************************************************************)
CallsOf(f) ==
  UNION {{LinesOf(f)[l].calls[i] : i \in 1..Len(LinesOf(f)[l].calls)} :
         l \in {k \in 1..Len(LinesOf(f)) : ~InReplayedLoop(f, k)}}

ReachableFrom(root) ==
  {f \in Listed :
     \A S \in SUBSET Listed :
       (root \in S /\ \A g \in S : CallsOf(g) \cap Listed \subseteq S) => f \in S}

Called == {f \in Listed : \E i \in 1..Len(out) : out[i] = CallOf(f)}

ReachesCallGraph == Finished => Called = ReachableFrom(prog.root)

(***************************************************************************)
(* "the variable is emitted exactly once per recording" (tracer.rs:        *)
(* 546-547), the other half: a recording of a program whose return value   *)
(* is known ends with that value surfaced.                                 *)
(***************************************************************************)
ReturnValueSurfaces == Finished /\ seed => surfaced

(***************************************************************************)
(* Whatever the call graph, cycles included, the walk ends.                *)
(***************************************************************************)
WalkEnds == <>Finished
==============================================================================
