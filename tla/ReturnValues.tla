----------------------------- MODULE ReturnValues -----------------------------
(***************************************************************************)
(* Which return value each function of a recording is said to have         *)
(* (src/src/tracer.rs).  The VM gives the values the program returned; the *)
(* names in the widest tuple some function returns turn them into values   *)
(* of variables, and from these, the functions `let` bindings call, and    *)
(* the last line of each function, compute_function_return_values derives  *)
(* a value per function.  On a panic the variables are the ones bound to   *)
(* literals.                                                               *)
(*                                                                         *)
(* A function here is its name, its bindings, its parameters among them,   *)
(* and its last line: a tuple of names, one name, a call, or none of       *)
(* these.  A binding is to a literal (n), to something read as a call      *)
(* (calls), or to neither.  What the functions return is the run's matter: *)
(* each call in it returns what it returns, from its last line or not.     *)
(***************************************************************************)
EXTENDS Naturals, Sequences, SequencesExt

CONSTANT
  NoFn,     \* a binding that calls nothing
  Unknown   \* no value is known

VARIABLES
  passes,      \* how many passes over the functions are done
  fns,         \* the functions, in the order of the text
  run,         \* the calls of the VM's run, see IsRun
  panicked,    \* did the program panic?
  var_values,  \* what the variables are taken to hold
  fn_returns   \* what the functions are taken to return

returnVars == <<passes, fns, run, panicked, var_values, fn_returns>>

ReturnsInit(table, calls) ==
  /\ passes = 0 /\ fns = table /\ run = calls /\ panicked \in BOOLEAN
  /\ var_values = <<>> /\ fn_returns = <<>>

Put(f, x, v) == [y \in DOMAIN f \cup {x} |-> IF y = x THEN v ELSE f[y]]
PutNew(f, x, v) == IF x \in DOMAIN f THEN f ELSE Put(f, x, v)
Has(f, x) == x \in DOMAIN f /\ f[x] # Unknown

-----------------------------------------------------------------------------
Names == {fns[i].name : i \in DOMAIN fns}

IsTable(functions) ==
  /\ functions \in Seq(ToSet(functions))
  /\ \A i \in DOMAIN functions : LET f == functions[i] IN
       /\ f.lets \in Seq(ToSet(f.lets)) /\ f.tail.of \in Seq(ToSet(f.tail.of))
       /\ f.tail.is \in {"tuple", "name", "call"} => f.tail.of # <<>>

(***************************************************************************)
(* The calls of a run, each before those it makes; the first is that of    *)
(* the function the VM was started at.  Of each,                           *)
(*   fn      which function of the text it runs, 0 if it is none of them   *)
(*   made    for each binding, the last call it made, 0 for none           *)
(*   held    what each name of its last line held, if it returned that,    *)
(*           and else nothing                                              *)
(*   tail    the call whose result its last line returned, 0 for none      *)
(*   result  the felts it returned                                         *)
(* Two calls of one function may differ in everything, as their arguments  *)
(* may.                                                                    *)
(***************************************************************************)
IsRun(functions, calls) ==
  LET Later(k) == {0} \cup (k + 1)..Len(calls) IN
  /\ calls \in Seq(ToSet(calls))
  /\ \A k \in DOMAIN calls : LET call == calls[k] IN
       /\ call.result \in Seq(ToSet(call.result)) /\ Unknown \notin ToSet(call.result)
       /\ call.tail \in Later(k) /\ call.fn \in {0} \cup DOMAIN functions
       /\ call.fn = 0 => call.held = <<>> /\ call.tail = 0
       /\ call.fn # 0 => LET f == functions[call.fn] IN
            /\ call.name = f.name
            /\ call.made \in [DOMAIN f.lets -> Later(k)]
            /\ \A m \in DOMAIN f.lets : call.made[m] # 0 => calls[call.made[m]].name = f.lets[m].calls
            /\ call.held # <<>> =>
                 /\ f.tail.is \in {"tuple", "name"}
                 /\ call.held \in Seq(ToSet(call.held)) /\ Len(call.held) = Len(f.tail.of)
                 /\ \A felts \in ToSet(call.held) : felts \in Seq(ToSet(felts))
                 /\ call.result = FlattenSeq(call.held)
            /\ call.tail # 0 => /\ f.tail.is = "call" /\ calls[call.tail].name = f.tail.of[1]
                                /\ call.result = calls[call.tail].result

(* What the VM gives to the recorder.                                      *)
VMValues == IF run = <<>> THEN <<>> ELSE run[1].result

-----------------------------------------------------------------------------
(***************************************************************************)
(* What the recorder makes of it.                                          *)
(***************************************************************************)

(* The names the widest last line returns; the first of the widest.        *)
parse_return_expression ==
  LET Wider(best, f) == IF f.tail.is \in {"tuple", "name"} /\ Len(f.tail.of) > Len(best)
                        THEN f.tail.of ELSE best
  IN  FoldLeft(Wider, <<>>, fns)

parse_let_binding_literals ==
  LET Literal(known, b) == IF b.calls = NoFn /\ b.n # Unknown THEN PutNew(known, b.x, b.n) ELSE known
  IN  FoldLeft(Literal, <<>>, FlattenSeq([i \in DOMAIN fns |-> fns[i].lets]))

(* Slot by slot; a name that is there twice has its last slot's value.     *)
VariablesOf(values) ==
  LET names == parse_return_expression
      slots == DOMAIN values \cap DOMAIN names
  IN  [x \in {names[i] : i \in slots} |-> values[Max({i \in slots : names[i] = x})]]

SeedVariables ==
  /\ passes = 0
  /\ var_values' = IF panicked THEN parse_let_binding_literals ELSE VariablesOf(VMValues)
  /\ UNCHANGED fn_returns

(* First, the function a binding calls returns the binding's value; the    *)
(* first such binding counts.                                              *)
FromBindings ==
  LET lets == FlattenSeq([i \in DOMAIN fns |-> fns[i].lets])
      telling == {k \in DOMAIN lets : lets[k].calls # NoFn /\ Has(var_values, lets[k].x)}
      Tells(f) == {k \in telling : lets[k].calls = f}
  IN  /\ passes = 1
      /\ fn_returns' = [f \in {lets[k].calls : k \in telling} |-> var_values[lets[Min(Tells(f))].x]]
      /\ UNCHANGED var_values

(* Then, twice: a function returns what its last line names (the last name *)
(* of a tuple), or what the function called there returns.                 *)
FromTail(known, f) ==
  LET of == f.tail.of IN
  CASE Has(known, f.name) -> known
    [] ~Has(known, f.name) /\ f.tail.is \in {"tuple", "name"} /\ Has(var_values, Last(of)) ->
         Put(known, f.name, var_values[Last(of)])
    [] ~Has(known, f.name) /\ f.tail.is = "call" /\ Has(known, of[1]) ->
         Put(known, f.name, known[of[1]])
    [] OTHER -> PutNew(known, f.name, Unknown)

(* Mutant: the functions are gone through once.                            *)
TailPassesOnce == 1

TailPasses == 2

(* A pass, after the first n functions.                                    *)
Passed[n \in 0..Len(fns)] ==
  IF n = 0 THEN fn_returns ELSE FromTail(Passed[n - 1], fns[n])

FromTails ==
  /\ passes \in 2..(TailPasses + 1)
  /\ fn_returns' = Passed[Len(fns)]
  /\ UNCHANGED var_values

compute_function_return_values ==
  /\ SeedVariables \/ FromBindings \/ FromTails
  /\ passes' = passes + 1
  /\ UNCHANGED <<fns, run, panicked>>

Derived == passes = TailPasses + 2

-----------------------------------------------------------------------------
(* A variable is bound once, in one function; a last line names variables  *)
(* its function binds; functions have names of their own.                  *)
NamesDistinct ==
  /\ \A i, j \in DOMAIN fns : \A m \in DOMAIN fns[i].lets, n \in DOMAIN fns[j].lets :
       fns[i].lets[m].x = fns[j].lets[n].x => i = j /\ m = n
  /\ \A i \in DOMAIN fns : fns[i].tail.is \in {"tuple", "name"} =>
       ToSet(fns[i].tail.of) \subseteq {b.x : b \in ToSet(fns[i].lets)}
  /\ \A i, j \in DOMAIN fns : fns[i].name = fns[j].name => i = j
  /\ \A k \in DOMAIN run : run[k].fn = 0 => run[k].name \notin Names

(* The calls that return the run's own result: the first, and the one that *)
(* is the last line of such a call.                                        *)
Delegates == {k \in DOMAIN run : \A S \in SUBSET DOMAIN run :
                1 \in S /\ (\A l \in S : run[l].tail # 0 => run[l].tail \in S) => k \in S}

(* One of these returned what the widest last line names; each name is one *)
(* felt there, and one bound to a call holds what that returned.           *)
MainReturnsWidest ==
  \E k \in Delegates : LET call == run[k] IN
    /\ call.held # <<>> /\ fns[call.fn].tail.of = parse_return_expression
    /\ \A j \in DOMAIN call.held : Len(call.held[j]) = 1
    /\ \A m \in DOMAIN fns[call.fn].lets, j \in DOMAIN call.held : LET b == fns[call.fn].lets[m] IN
         b.calls # NoFn /\ b.x = fns[call.fn].tail.of[j]
           => call.made[m] # 0 /\ call.held[j] = run[call.made[m]].result

LastFelt(k) == IF run[k].result = <<>> THEN Unknown ELSE Last(run[k].result)

(* Every call of a function with a call for a last line returned what that *)
(* returned, and a function so called returned the same in all its calls.  *)
Steady ==
  /\ \A k \in DOMAIN run : run[k].fn # 0 /\ fns[run[k].fn].tail.is = "call" => run[k].tail # 0
  /\ \A k, l \in DOMAIN run :
       run[k].name = run[l].name /\ (\E i \in DOMAIN fns : fns[i].tail.is = "call" /\ fns[i].tail.of[1] = run[k].name)
         => LastFelt(k) = LastFelt(l)

(* Where names are distinct, and the run's result is what the widest last  *)
(* line names, the value a function is said to return is one that a call   *)
(* of it returned (the last felt of it), if any was made; for a function   *)
(* whose last line is a call, only if the run is steady: it is given the   *)
(* value of another call, with other arguments, where that is not so.  And *)
(* main has a value, unless it is two calls away (tracer.rs:3164-3280,     *)
(* 3404-3480).                                                             *)
ReturnsAreTheirs ==
  Derived /\ ~panicked /\ NamesDistinct /\ run # <<>> /\ run[1].name = "main" /\ MainReturnsWidest =>
    /\ \A i \in DOMAIN fns : LET f == fns[i].name
                               called == {k \in DOMAIN run : run[k].name = f} IN
         Has(fn_returns, f) /\ (fns[i].tail.is # "call" \/ Steady) /\ called # {}
           => \E k \in called : fn_returns[f] = LastFelt(k)
    /\ \A i, j \in DOMAIN fns :
         fns[i].name = "main" /\ (fns[i].tail.is = "call" => fns[j].name = fns[i].tail.of[1] /\ fns[j].tail.is # "call")
           => Has(fn_returns, "main")
===============================================================================
