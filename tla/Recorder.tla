------------------------------- MODULE Recorder -------------------------------
(***************************************************************************)
(* The recorder's command line (src/src/main.rs): one command, record,     *)
(* trace-starknet or replay, from its arguments to its exit.               *)
(***************************************************************************)
EXTENDS RecordProgram, SnforgeTrace, TransactionReplay

CONSTANT Programs  \* the source files a recording is made of

ASSUME ProgramsAssumption ==
  \A p \in Programs : /\ p.text \in Seq(ToSet(p.text)) /\ p.text # Unreadable
                      /\ p.body \in Seq(ToSet(p.body))
                      /\ IsTable(p.fns) /\ IsRun(p.fns, p.calls)
                      /\ p.ids \in Seq(ToSet(p.ids))
                      /\ \A id \in ToSet(p.ids) : id.ends => id.contains
                      /\ IsProbe(p.probe)

VARIABLE command  \* the command, and whether a replay asks a node

recorderVars == <<command, bundleVars, recordVars, snforgeVars, replayVars>>

Commands == {"record", "trace_starknet", "replay", "replay_live"}

Init ==
  /\ command \in Commands /\ BundleInit /\ ReplayInit
  /\ IF command = "record" THEN \E p \in Programs : RecordInit(p) ELSE RecordInit(Nothing)
  /\ SnforgeInit(IF command = "trace_starknet" THEN Files \cup {Unreadable} ELSE {Unreadable})

(***************************************************************************)
(* record and trace-starknet find their file, and do nothing more when     *)
(* recording is disabled; a replay has fetched and run its transaction by  *)
(* the time it looks.                                                      *)
(***************************************************************************)
Locate ==
  /\ at = "locate" /\ command \in {"record", "trace_starknet"}
  /\ \/ Goto("disabled") /\ Aside
     \/ Fail("not_found")
  /\ UNCHANGED <<command, recordVars, snforgeVars, replayVars>>

(* Mutant: the variable is not looked at.                                  *)
recording_disabledNever == FALSE
recording_disabled == disabled

CheckDisabled ==
  /\ at = "disabled" /\ Aside
  /\ IF recording_disabled THEN Finish("ok") ELSE Goto("folder")
  /\ UNCHANGED <<command, recordVars, snforgeVars, replayVars>>

MakeFolder ==
  /\ at = "folder"
  /\ \/ create_dir_all
        /\ Goto(CASE command = "record" -> "read" [] command = "trace_starknet" -> "parse" [] OTHER -> "open")
     \/ Fail("folder")
  /\ UNCHANGED <<command, recordVars, snforgeVars, replayVars>>

CloseBundleFiles == Close /\ UNCHANGED <<command, recordVars, snforgeVars, replayVars>>

record ==
  /\ command = "record"
  /\ \/ read_to_string \/ Compile \/ StartProbe \/ ProbeStep \/ Run
     \/ OpenRecording \/ Derive \/ CallRoot \/ WalkRoot \/ LeaveRoot \/ TellPanic
  /\ UNCHANGED <<command, snforgeVars, replayVars>>

trace_starknet ==
  /\ command = "trace_starknet"
  /\ \/ parse_snforge_trace \/ OpenSnforge \/ entry_contract \/ WriteEntry \/ EntriesWritten
  /\ UNCHANGED <<command, recordVars, replayVars>>

replay ==
  /\ command \in {"replay", "replay_live"}
  /\ \/ SourceTrace(command = "replay_live") \/ Reexecute \/ OpenReplay
     \/ write_invocation \/ ReturnInvocation \/ WriteDiff \/ DiffsWritten
  /\ UNCHANGED <<command, recordVars, snforgeVars>>

(* Every step of the command itself.                                       *)
main == Locate \/ CheckDisabled \/ MakeFolder \/ record \/ trace_starknet \/ replay \/ CloseBundleFiles

Environment ==
  /\ command = "trace_starknet" /\ FileChanges
  /\ UNCHANGED <<command, recordVars, replayVars>>

Next == main \/ Environment

(* The command waits for a node, whose answers have no time limit          *)
(* (starknet.rs:787, 838), or for a run of the VM, which has no gas limit  *)
(* (tracer.rs:151, value_probe.rs:304, starknet.rs:1469).                  *)
AwaitsAnother ==
  \/ at = "locate" /\ command = "replay_live"
  \/ at \in {"class", "consume"}
  \/ at = "run" /\ ContainsMain # 0

Spec == Init /\ [][Next]_recorderVars
FairSpec == Spec /\ WF_recorderVars(main /\ ~AwaitsAnother)

-----------------------------------------------------------------------------
TypeOK ==
  /\ BundleTypeOK
  /\ command \in Commands
  /\ rerun \in {"none", "ran", "skipped"}
  /\ iters \in 0..MaxIters /\ loop \in 0..Len(body) /\ capped \in BOOLEAN
  /\ written \in 0..Len(entries) /\ lines \in Nat \ {0}

CallsReturned ==
  Cardinality({i \in DOMAIN out : out[i].ev = "call"}) = Cardinality({i \in DOMAIN out : out[i].ev = "return"})

(* The exit code tells what is on disk.  A command that ends well without  *)
(* being disabled leaves a closed bundle, with every call in it returned,  *)
(* the panic of a program that panicked, and the program's path interned   *)
(* with no line lengths but those of its text; one that is disabled leaves *)
(* nothing; one that fails leaves no closed bundle, and fails only because *)
(* something it called failed, or, built with overflow checks, on a loop   *)
(* without a body (tracer.rs:2769).  A local run of a replayed transaction *)
(* never decides the outcome (main.rs:293-330).  If one function alone has *)
(* "::main" in its id, and the text has a main, it is what is run, probed  *)
(* and shown (tracer.rs:138-145, value_probe.rs:289-300, tracer.rs:484-490).*)
OutcomeIsTheDisks ==
  /\ outcome = "ok" /\ ~disabled =>
       /\ disk = "closed" /\ CallsReturned
       /\ command = "record" => table \in {line_lengths(program.text), <<>>}
       /\ command = "record" =>
            (panicked <=> \E i \in DOMAIN out : out[i].ev = "special" /\ out[i].kind = "Error")
  /\ disabled => disk = "nothing"
  /\ disk = "closed" => outcome \in {"running", "ok"}
  /\ outcome = "overflow" => program.checks /\ \E k \in 2..Len(body) :
                               body[k - 1].do = "while" /\ body[k].do = "close"
  /\ (command = "record" /\ "main" \in Names /\ \E i \in DOMAIN program.ids : \A j \in DOMAIN program.ids :
        (program.ids[j].contains <=> i = j) /\ (i = j => program.ids[j].fn = "main" /\ program.ids[j].ends))
     => {ran, seen} \subseteq {"main", NoFunction} /\ (shown = NoFunction \/ shown = ran)

(* The claim of tracer.rs:137 and 484: the function run is main, the one    *)
(* the walk of the recording starts at, in every program that has a main.  *)
ShowsWhatRan == "main" \in Names /\ shown # NoFunction => shown = ran

(* Positions in a recorded program (source_map.rs).                        *)
PositionsRoundTrip == PositionsRoundTripIn(program.text)

(* Every command ends, however long its program's loops are replayed and   *)
(* its copies followed, or it waits for ever for a node that does not      *)
(* answer or a program that does not end; it never runs in circles of its  *)
(* own (value_probe.rs:129-147, tracer.rs:1035-1091).                      *)
CommandEnds == <>(at = "end") \/ <>[]AwaitsAnother
===============================================================================
