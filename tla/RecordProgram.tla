----------------------------- MODULE RecordProgram -----------------------------
(***************************************************************************)
(* record: a Cairo source file compiled, run, and written as a bundle      *)
(* (src/src/main.rs record, recorder.rs, tracer.rs trace_program and       *)
(* emit_source_trace).  The walk of the source is SourceWalk's; here it is *)
(* the walk of the root function alone, with its loops replayed.           *)
(***************************************************************************)
EXTENDS LoopReplay, LocalsProbe, ReturnValues, SourceMap

CONSTANT NoFunction  \* no function has been picked yet

VARIABLES
  program,  \* the source file and what the compiler makes of it, see Nothing
  ran,      \* the function the VM ran
  seen,     \* the function the probe's run starts at
  shown     \* the function the walk starts at

recordVars == <<program, ran, seen, shown, loopVars, probeVars, returnVars>>

(***************************************************************************)
(* text     its bytes                                                      *)
(* corelib  for each place a corelib is looked for in, is there one?       *)
(* ids      Sierra's functions in order: the function, and whether its id  *)
(*          contains "::main" and whether it ends in it                    *)
(* body     the root function's lines                                      *)
(* fns      the functions, and calls those of the VM's run: ReturnValues   *)
(* probe    the bindings of the text and of the probe's run: LocalsProbe   *)
(* checks   is the recorder built with overflow checks?                    *)
(***************************************************************************)
Nothing == [text |-> <<>>, corelib |-> <<>>, ids |-> <<>>, body |-> <<>>, fns |-> <<>>,
            calls |-> <<>>, probe |-> [decls |-> <<>>, sites |-> <<>>, events |-> <<>>], checks |-> FALSE]

RecordInit(p) ==
  /\ program = p /\ ran = NoFunction /\ seen = NoFunction /\ shown = NoFunction
  /\ LoopInit(p.body) /\ ReturnsInit(p.fns, p.calls) /\ ProbeStart(p.probe)

read_to_string ==
  /\ at = "read"
  /\ \/ Goto("compile") /\ Aside
     \/ Fail("source_file")
  /\ UNCHANGED recordVars

(* The first place that has one, of CAIRO_CORELIB_DIR, the crate, the      *)
(* executable's ancestors and the working directory; 0 if none has.        *)
find_corelib_path == SelectInSeq(program.corelib, LAMBDA there : there)

Compile ==
  /\ at = "compile"
  /\ \/ find_corelib_path = 0 /\ Fail("corelib")
     \/ find_corelib_path # 0 /\ ((Goto("observe") /\ Aside) \/ Fail("compiler"))
  /\ UNCHANGED recordVars

(***************************************************************************)
(* The probe's run; whatever fails in it only loses the values.            *)
(***************************************************************************)
ContainsMain == SelectInSeq(program.ids, LAMBDA id : id.contains)
EndsInMain == SelectInSeq(program.ids, LAMBDA id : id.ends)

StartProbe ==
  LET i == IF EndsInMain # 0 THEN EndsInMain ELSE ContainsMain IN
  /\ at = "observe" /\ Aside
  /\ \/ i # 0 /\ Goto("consume") /\ seen' = program.ids[i].fn
     \/ Goto("run") /\ UNCHANGED seen
  /\ UNCHANGED <<program, ran, shown, loopVars, probeVars, returnVars>>

ProbeStep ==
  /\ Aside
  /\ \/ at = "consume" /\ Stay /\ \E v \in Values, d \in Decls : Consume(v, d)
     \/ at = "consume" /\ Goto("copies") /\ StartCopies
     \/ at = "copies" /\ Stay /\ (VisitAlias \/ VisitAgain)
     \/ at = "copies" /\ Goto("run") /\ CollectValues
  /\ UNCHANGED <<program, ran, seen, shown, loopVars, returnVars>>

(***************************************************************************)
(* The run, of the first function whose id contains "::main".              *)
(***************************************************************************)
Run ==
  /\ at = "run"
  /\ IF ContainsMain = 0 THEN Fail("no_main") /\ UNCHANGED ran
     ELSE \/ Goto("open") /\ Aside /\ ran' = program.ids[ContainsMain].fn
          \/ Fail("execution") /\ UNCHANGED ran
  /\ UNCHANGED <<program, seen, shown, loopVars, probeVars, returnVars>>

(* The table goes in before `start` interns the path without one.          *)
OpenRecording ==
  /\ at = "open"
  /\ \/ OpenBundle(line_lengths(program.text)) /\ Goto("derive")
     \/ Fail("writer")
  /\ UNCHANGED recordVars

(* The walk starts at `main`, or else at the first function.               *)
Root == LET i == SelectInSeq(fns, LAMBDA f : f.name = "main")
        IN  fns[IF i = 0 THEN 1 ELSE i].name

(* emit_source_trace: the function table with its loops, the return        *)
(* values, and the root's call.                                            *)
Derive ==
  /\ at = "derive"
  /\ \/ passes = 0 /\ program.checks /\ CapacityUnderflows(body) /\ Fail("overflow")
        /\ UNCHANGED returnVars
     \/ ~(program.checks /\ CapacityUnderflows(body)) /\ compute_function_return_values
        /\ Stay /\ Aside
  /\ UNCHANGED <<program, ran, seen, shown, loopVars, probeVars>>

CallRoot ==
  /\ at = "derive" /\ Derived
  /\ IF fns = <<>> THEN Goto("panic") /\ Aside /\ UNCHANGED shown
     ELSE Goto("walk") /\ shown' = Root /\ Write(<<CallEv(0, Root, <<>>)>>)
  /\ UNCHANGED <<program, ran, seen, loopVars, probeVars, returnVars>>

WalkRoot ==
  /\ at = "walk" /\ Stay
  /\ WalkLine \/ EnterLoop \/ LoopTurn \/ LoopLine \/ LoopTurned
  /\ UNCHANGED <<program, ran, seen, shown, probeVars, returnVars>>

LeaveRoot ==
  /\ at = "walk" /\ loop = 0 /\ line > Len(body)
  /\ Write(<<ReturnEv(line, IF Has(fn_returns, shown) THEN fn_returns[shown] ELSE Unknown)>>)
  /\ Goto("panic")
  /\ UNCHANGED recordVars

(* A panic is told as an event of its own.                                 *)
TellPanic ==
  /\ at = "panic" /\ Goto("close")
  /\ Write(IF panicked THEN <<SpecialEv(line, "Error", "CairoPanic")>> ELSE <<>>)
  /\ UNCHANGED recordVars
===============================================================================
