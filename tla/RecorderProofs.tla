---------------------------- MODULE RecorderProofs ----------------------------
(***************************************************************************)
(* Proofs about Recorder, for every set of programs, trace files and       *)
(* answers: what the exit code tells of the disk, what the entries of a    *)
(* trace, the locals, loops and return values of a program and the tree of *)
(* a transaction are told as, and that positions in a text round-trip.     *)
(*                                                                         *)
(* The first invariant has one part for each thing the exit code speaks    *)
(* of.  All rest on the first, which says how far the bundle is in each    *)
(* phase.                                                                  *)
(***************************************************************************)
EXTENDS Recorder, TransactionReplayProofs, FiniteSetTheorems

-----------------------------------------------------------------------------
(***************************************************************************)
(* How far the bundle is.                                                  *)
(***************************************************************************)
Early == {"locate", "class", "disabled", "folder"}
Preparing == {"parse", "read", "compile", "observe", "consume", "copies", "run", "open"}
Writing == {"derive", "walk", "panic", "name", "entries"}

BundleByPhase ==
  /\ disk \in {"nothing", "folder", "begun", "ended", "described", "closed"}
  /\ at \in Early => disk = "nothing"
  /\ at \in Preparing => disk = "folder"
  /\ at \in Writing => disk = "begun"
  /\ at = "close" => disk \in {"begun", "ended", "described", "closed"}
  /\ at \in Early \cup Preparing => table = NoTable /\ out = <<>>

OutcomeByPhase ==
  /\ at # "end" => outcome = "running"
  /\ outcome = "ok" => disabled \/ disk = "closed"
  /\ disk = "closed" => at = "close" \/ outcome = "ok"

DisabledByPhase ==
  /\ disabled \in BOOLEAN
  /\ at \notin {"locate", "class", "disabled", "end"} => ~disabled
  /\ disabled => disk = "nothing"

PhaseByCommand ==
  /\ at \in Early \cup Preparing \cup Writing \cup {"close", "end"}
  /\ at \in {"parse", "name", "entries"} => command = "trace_starknet"
  /\ at \in Preparing \ {"parse", "open"} => command = "record"
  /\ at \in {"derive", "panic"} => command = "record"
  /\ at = "walk" => command # "trace_starknet"
  /\ at = "class" => command = "replay_live"

PhasesInv ==
  /\ command \in Commands
  /\ PhaseByCommand
  /\ BundleByPhase
  /\ OutcomeByPhase
  /\ DisabledByPhase

LEMMA InitPhases == Init => PhasesInv
BY DEF Init, BundleInit, Commands, PhasesInv, PhaseByCommand, BundleByPhase, OutcomeByPhase, DisabledByPhase,
       Early, Preparing, Writing

LEMMA NextPhases == PhasesInv /\ [Next]_recorderVars => PhasesInv'
<1> USE DEF PhasesInv, PhaseByCommand, BundleByPhase, OutcomeByPhase, DisabledByPhase, Early, Preparing, Writing,
            Commands, Goto, Stay, Finish, Aside, Fail, Write
<1> SUFFICES ASSUME PhasesInv, [Next]_recorderVars
             PROVE  PhasesInv'
  OBVIOUS
<1>1. CASE Locate
  BY <1>1 DEF Locate
<1>2. CASE CheckDisabled
  BY <1>2 DEF CheckDisabled, recording_disabled
<1>3. CASE MakeFolder
  BY <1>3 DEF MakeFolder, create_dir_all
<1>4. CASE record
  <2>0. command = "record" /\ command' = "record"
    BY <1>4 DEF record
  <2>1. CASE read_to_string
    BY <2>0, <2>1 DEF read_to_string
  <2>2. CASE Compile
    BY <2>0, <2>2 DEF Compile
  <2>3. CASE StartProbe
    BY <2>0, <2>3 DEF StartProbe
  <2>4. CASE ProbeStep
    BY <2>0, <2>4 DEF ProbeStep
  <2>5. CASE Run
    BY <2>0, <2>5 DEF Run
  <2>6. CASE OpenRecording
    BY <2>0, <2>6 DEF OpenRecording, OpenBundle
  <2>7. CASE Derive
    BY <2>0, <2>7 DEF Derive
  <2>8. CASE CallRoot
    BY <2>0, <2>8 DEF CallRoot
  <2>9. CASE WalkRoot
    BY <2>0, <2>9 DEF WalkRoot, WalkLine, EnterLoop, LoopTurn, LoopLine, LoopTurned
  <2>10. CASE LeaveRoot
    BY <2>0, <2>10 DEF LeaveRoot
  <2>11. CASE TellPanic
    BY <2>0, <2>11 DEF TellPanic
  <2> QED
    BY <1>4, <2>1, <2>2, <2>3, <2>4, <2>5, <2>6, <2>7, <2>8, <2>9, <2>10, <2>11 DEF record
<1>5. CASE trace_starknet
  <2>0. command = "trace_starknet" /\ command' = "trace_starknet"
    BY <1>5 DEF trace_starknet
  <2>1. CASE parse_snforge_trace
    BY <2>0, <2>1 DEF parse_snforge_trace
  <2>2. CASE OpenSnforge
    BY <2>0, <2>2 DEF OpenSnforge, OpenBundle
  <2>3. CASE entry_contract
    BY <2>0, <2>3 DEF entry_contract
  <2>4. CASE WriteEntry
    BY <2>0, <2>4 DEF WriteEntry
  <2>5. CASE EntriesWritten
    BY <2>0, <2>5 DEF EntriesWritten
  <2> QED
    BY <1>5, <2>1, <2>2, <2>3, <2>4, <2>5 DEF trace_starknet
<1>6. CASE replay
  <2>0. command \in {"replay", "replay_live"} /\ command' = command
    BY <1>6 DEF replay
  <2>1. CASE SourceTrace(command = "replay_live")
    BY <2>0, <2>1 DEF SourceTrace
  <2>2. CASE Reexecute
    BY <2>0, <2>2 DEF Reexecute
  <2>3. CASE OpenReplay
    BY <2>0, <2>3 DEF OpenReplay, OpenBundle
  <2>4. CASE write_invocation
    BY <2>0, <2>4 DEF write_invocation, Visit
  <2>5. CASE ReturnInvocation
    BY <2>0, <2>5 DEF ReturnInvocation
  <2>6. CASE WriteDiff
    BY <2>0, <2>6 DEF WriteDiff, Walked
  <2>7. CASE DiffsWritten
    BY <2>0, <2>7 DEF DiffsWritten, Walked
  <2> QED
    BY <1>6, <2>1, <2>2, <2>3, <2>4, <2>5, <2>6, <2>7 DEF replay
<1>7. CASE CloseBundleFiles
  BY <1>7 DEF CloseBundleFiles, Close, CloseBundle
<1>8. CASE Environment
  BY <1>8 DEF Environment, FileChanges, bundleVars
<1>9. CASE UNCHANGED recorderVars
  BY <1>9 DEF recorderVars, bundleVars
<1> QED
  BY <1>1, <1>2, <1>3, <1>4, <1>5, <1>6, <1>7, <1>8, <1>9 DEF Next, main

-----------------------------------------------------------------------------
(***************************************************************************)
(* What does not change, or only in one place: the function the walk       *)
(* starts at, the loop the recording stops at, the table of lines.         *)
(***************************************************************************)

(* What the program is made of.                                            *)
ProgramKept ==
  /\ program.ids \in Seq(ToSet(program.ids))
  /\ \A id \in ToSet(program.ids) : id.ends => id.contains
  /\ body \in Seq(ToSet(body))
  /\ IsTable(fns) /\ IsRun(fns, run)
  /\ panicked \in BOOLEAN

LEMMA InitProgram == Init => ProgramKept
<1> SUFFICES ASSUME Init PROVE ProgramKept
  OBVIOUS
<1>1. PICK p \in Programs \cup {Nothing} : RecordInit(p)
  BY DEF Init
<1>2. /\ p.ids \in Seq(ToSet(p.ids))
      /\ \A id \in ToSet(p.ids) : id.ends => id.contains
      /\ p.body \in Seq(ToSet(p.body))
      /\ IsTable(p.fns) /\ IsRun(p.fns, p.calls)
  <2>1. CASE p \in Programs
    BY <2>1, ProgramsAssumption
  <2>2. CASE p = Nothing
    <3>1. <<>> \in Seq(ToSet(<<>>)) /\ ToSet(<<>>) = {}
      BY DEF ToSet
    <3>2. IsTable(<<>>) /\ IsRun(<<>>, <<>>)
      BY <3>1 DEF IsTable, IsRun
    <3> QED BY <2>2, <3>1, <3>2 DEF Nothing
  <2> QED BY <1>1, <2>1, <2>2
<1> QED
  BY <1>1, <1>2 DEF RecordInit, LoopInit, ReturnsInit, ProgramKept

(* Only the derivation and the walk have variables of their own to change. *)
LEMMA ProgramStays ==
  [Next]_recorderVars => /\ UNCHANGED <<command, program, body, fns, run, panicked>>
                         /\ ran' # ran => Run /\ command = "record"
                         /\ seen' # seen => StartProbe
                         /\ shown' # shown => CallRoot /\ command = "record"
<1> SUFFICES ASSUME [Next]_recorderVars
             PROVE  /\ UNCHANGED <<command, program, body, fns, run, panicked>>
                    /\ ran' # ran => Run /\ command = "record"
                    /\ seen' # seen => StartProbe
                    /\ shown' # shown => CallRoot /\ command = "record"
  OBVIOUS
<1> USE DEF recordVars, loopVars, returnVars
<1>1. CASE record
  <2>0. command = "record" /\ command' = "record"
    BY <1>1 DEF record
  <2>1. CASE read_to_string \/ Compile \/ OpenRecording \/ LeaveRoot \/ TellPanic
    BY <2>0, <2>1 DEF read_to_string, Compile, OpenRecording, LeaveRoot, TellPanic
  <2>2. CASE StartProbe \/ ProbeStep \/ Run \/ CallRoot
    BY <2>0, <2>2 DEF StartProbe, ProbeStep, Run, CallRoot
  <2>3. CASE Derive
    BY <2>0, <2>3 DEF Derive, compute_function_return_values
  <2>4. CASE WalkRoot
    BY <2>0, <2>4 DEF WalkRoot, WalkLine, EnterLoop, LoopTurn, LoopLine, LoopTurned
  <2> QED
    BY <1>1, <2>1, <2>2, <2>3, <2>4 DEF record
<1>2. CASE trace_starknet \/ replay
  BY <1>2 DEF trace_starknet, replay
<1>3. CASE Locate \/ CheckDisabled \/ MakeFolder \/ CloseBundleFiles \/ Environment
  BY <1>3 DEF Locate, CheckDisabled, MakeFolder, CloseBundleFiles, Environment
<1>4. CASE UNCHANGED recorderVars
  BY <1>4 DEF recorderVars
<1> QED
  BY <1>1, <1>2, <1>3, <1>4 DEF Next, main

LEMMA NextProgram == ProgramKept /\ [Next]_recorderVars => ProgramKept'
BY ProgramStays DEF ProgramKept

(***************************************************************************)
(* The table of line lengths.                                              *)
(***************************************************************************)
TableIsTheTexts ==
  command = "record" /\ disk \notin {"nothing", "folder"} => table \in {line_lengths(program.text), <<>>}

LEMMA NextTable == PhasesInv /\ TableIsTheTexts /\ [Next]_recorderVars => TableIsTheTexts'
<1> SUFFICES ASSUME PhasesInv, TableIsTheTexts, [Next]_recorderVars
             PROVE  TableIsTheTexts'
  OBVIOUS
<1>0. command' = command /\ program' = program
  BY ProgramStays
<1> SUFFICES ASSUME command = "record"
             PROVE  TableIsTheTexts'
  BY <1>0 DEF TableIsTheTexts
<1> USE DEF TableIsTheTexts, Goto, Stay, Finish, Aside, Fail, Write
<1>1. CASE OpenRecording
  <2>1. at = "open" /\ table = NoTable
    BY <1>1 DEF OpenRecording, PhasesInv, BundleByPhase, Preparing
  <2>2. (table' = table /\ disk' = disk) \/ table' \in {line_lengths(program.text), <<>>}
    BY <1>1, <2>1 DEF OpenRecording, OpenBundle, Intern
  <2> QED
    BY <1>0, <2>2
<1>2. CASE Locate \/ CheckDisabled \/ CloseBundleFiles
  BY <1>0, <1>2 DEF Locate, CheckDisabled, CloseBundleFiles, Close, CloseBundle
<1>3. CASE MakeFolder
  BY <1>0, <1>3 DEF MakeFolder, create_dir_all
<1>4. CASE record /\ ~OpenRecording
  <2>1. CASE read_to_string \/ Compile \/ LeaveRoot \/ TellPanic \/ StartProbe \/ ProbeStep \/ Run \/ CallRoot
    BY <1>0, <2>1 DEF read_to_string, Compile, LeaveRoot, TellPanic, StartProbe, ProbeStep, Run, CallRoot
  <2>2. CASE Derive
    BY <1>0, <2>2 DEF Derive
  <2>3. CASE WalkRoot
    BY <1>0, <2>3 DEF WalkRoot, WalkLine, EnterLoop, LoopTurn, LoopLine, LoopTurned
  <2> QED
    BY <1>4, <2>1, <2>2, <2>3 DEF record
<1>5. CASE trace_starknet \/ replay \/ Environment
  BY <1>5 DEF trace_starknet, replay, Environment
<1>6. CASE UNCHANGED recorderVars
  BY <1>0, <1>6 DEF recorderVars, bundleVars
<1> QED
  BY <1>1, <1>2, <1>3, <1>4, <1>5, <1>6 DEF Next, main

(***************************************************************************)
(* The loop a build with overflow checks stops at.  Its closing line is    *)
(* the next line, and that closes a brace: the header opens one.           *)
(***************************************************************************)
EmptyLoop == program.checks /\ \E k \in 2..Len(body) : body[k - 1].do = "while" /\ body[k].do = "close"

OverflowHasItsLoop == outcome = "overflow" => EmptyLoop

LEMMA UnderflowHasItsLoop ==
  ASSUME NEW ls, ls \in Seq(ToSet(ls)), CapacityUnderflows(ls)
  PROVE  \E k \in 2..Len(ls) : ls[k - 1].do = "while" /\ ls[k].do = "close"
<1>1. PICK h \in DOMAIN ls : IsLoop(ls, h) /\ ClosingLine(ls, h) - 1 < h + 1
  BY DEF CapacityUnderflows, parse_while_loops
<1>2. h \in 1..Len(ls) /\ Len(ls) \in Nat
  OBVIOUS
<1> DEFINE closed == {j \in (h + 1)..Len(ls) : Opened(ls, h, j) = Closed(ls, h, j)}
<1>3. closed # {} /\ closed \in SUBSET Nat
  BY <1>1, <1>2 DEF IsLoop, ClosingLine
<1>4. ClosingLine(ls, h) \in closed
  BY <1>3, NatMin DEF ClosingLine
<1>5. ClosingLine(ls, h) = h + 1
  BY <1>1, <1>2, <1>4
<1>6. h + 1 \in 2..Len(ls) /\ Opened(ls, h, h + 1) = Closed(ls, h, h + 1)
  BY <1>2, <1>4, <1>5
<1>7. ls[h].do = "while"
  BY <1>1 DEF IsLoop, parse_expr
<1>8. ls[h + 1].do = "close"
  <2> SUFFICES ASSUME ls[h + 1].do # "close" PROVE FALSE
    OBVIOUS
  <2> DEFINE opens == {i \in h..(h + 1) : Opens(ls[i])}
             closes == {i \in h..(h + 1) : Closes(ls[i])}
  <2>1. \A i \in h..(h + 1) : i = h \/ i = h + 1
    BY <1>2
  <2>2. closes = {}
    BY <1>7, <2>1 DEF Closes
  <2>3. h \in opens
    BY <1>2, <1>7 DEF Opens
  <2>4. IsFiniteSet(h..(h + 1))
    BY <1>2, FS_Interval
  <2>5. IsFiniteSet(opens)
    BY <2>4, FS_Subset
  <2>6. Cardinality(opens) # 0 /\ Cardinality(closes) = 0
    BY <2>2, <2>3, <2>5, FS_EmptySet
  <2> QED
    BY <1>6, <2>6 DEF Opened, Closed
<1> QED
  BY <1>2, <1>6, <1>7, <1>8

LEMMA NextOverflow == PhasesInv /\ ProgramKept /\ OverflowHasItsLoop /\ [Next]_recorderVars => OverflowHasItsLoop'
<1> SUFFICES ASSUME PhasesInv, ProgramKept, OverflowHasItsLoop, [Next]_recorderVars
             PROVE  OverflowHasItsLoop'
  OBVIOUS
<1>0. EmptyLoop' <=> EmptyLoop
  BY ProgramStays DEF EmptyLoop
<1> SUFFICES ASSUME outcome' = "overflow" PROVE EmptyLoop
  BY <1>0 DEF OverflowHasItsLoop
<1> SUFFICES ASSUME outcome' # outcome PROVE EmptyLoop
  BY DEF OverflowHasItsLoop
<1> USE DEF Goto, Stay, Finish, Fail
<1>1. CASE record
  <2>1. CASE Derive
    <3>1. program.checks /\ CapacityUnderflows(body)
      BY <2>1 DEF Derive
    <3> QED
      BY <3>1, UnderflowHasItsLoop DEF EmptyLoop, ProgramKept
  <2>2. CASE read_to_string \/ Compile \/ StartProbe \/ ProbeStep \/ Run \/ OpenRecording \/ CallRoot
             \/ WalkRoot \/ LeaveRoot \/ TellPanic
    BY <2>2 DEF read_to_string, Compile, StartProbe, ProbeStep, Run, OpenRecording, CallRoot, WalkRoot,
                LeaveRoot, TellPanic
  <2> QED
    BY <1>1, <2>1, <2>2 DEF record
<1>2. CASE trace_starknet
  BY <1>2 DEF trace_starknet, parse_snforge_trace, OpenSnforge, entry_contract, WriteEntry, EntriesWritten
<1>3. CASE replay
  BY <1>3 DEF replay, SourceTrace, Reexecute, OpenReplay, write_invocation, ReturnInvocation, WriteDiff,
              DiffsWritten
<1>4. CASE Locate \/ CheckDisabled \/ MakeFolder \/ CloseBundleFiles
  BY <1>4 DEF Locate, CheckDisabled, MakeFolder, CloseBundleFiles, Close
<1>5. CASE Environment \/ UNCHANGED recorderVars
  BY <1>5 DEF Environment, FileChanges, recorderVars, bundleVars
<1> QED
  BY <1>1, <1>2, <1>3, <1>4, <1>5 DEF Next, main

(***************************************************************************)
(* The main function.                                                      *)
(***************************************************************************)
OneMain ==
  /\ "main" \in Names
  /\ \E i \in DOMAIN program.ids : \A j \in DOMAIN program.ids :
       (program.ids[j].contains <=> i = j) /\ (i = j => program.ids[j].fn = "main" /\ program.ids[j].ends)

MainIsRun ==
  command = "record" /\ OneMain =>
    /\ {ran, seen} \subseteq {"main", NoFunction}
    /\ shown = NoFunction \/ shown = ran
    /\ at \in Early \cup Preparing \cup {"derive"} => shown = NoFunction
    /\ at \in {"open", "close"} \cup Writing => ran = "main"

LEMMA MinOfOne ==
  ASSUME NEW k \in Nat
  PROVE  Min({k}) = k
BY DEF Min

LEMMA MinIsIn ==
  ASSUME NEW S \in SUBSET Nat, S # {}
  PROVE  Min(S) \in S
BY NatMin DEF Min

LEMMA OneMainIsFound ==
  ASSUME OneMain, ProgramKept
  PROVE  /\ ContainsMain # 0 /\ program.ids[ContainsMain].fn = "main"
         /\ EndsInMain # 0 /\ program.ids[EndsInMain].fn = "main"
         /\ fns # <<>> /\ Root = "main"
<1>0. DOMAIN program.ids = 1..Len(program.ids) /\ Len(program.ids) \in Nat
  BY DEF ProgramKept
<1>1. PICK i \in DOMAIN program.ids : \A j \in DOMAIN program.ids :
        (program.ids[j].contains <=> i = j) /\ (i = j => program.ids[j].fn = "main" /\ program.ids[j].ends)
  BY DEF OneMain
<1>2. i \in Nat /\ i # 0
  BY <1>0
<1>3. {j \in 1..Len(program.ids) : program.ids[j].contains} = {i}
  BY <1>0, <1>1
<1>4. ContainsMain = i
  BY <1>2, <1>3, MinOfOne DEF ContainsMain, SelectInSeq
<1>5. \A j \in 1..Len(program.ids) : program.ids[j].ends => program.ids[j].contains
  BY <1>0 DEF ProgramKept, ToSet
<1>6. {j \in 1..Len(program.ids) : program.ids[j].ends} = {i}
  BY <1>0, <1>1, <1>5
<1>7. EndsInMain = i
  BY <1>2, <1>6, MinOfOne DEF EndsInMain, SelectInSeq
<1> DEFINE mains == {k \in 1..Len(fns) : fns[k].name = "main"}
<1>8. DOMAIN fns = 1..Len(fns) /\ Len(fns) \in Nat
  BY DEF ProgramKept, IsTable
<1>9. mains # {} /\ mains \in SUBSET Nat
  BY <1>8 DEF OneMain, Names
<1>10. Min(mains) \in mains
  BY <1>9, MinIsIn
<1>11. Min(mains) # 0 /\ fns[Min(mains)].name = "main"
  <2>1. \A k \in mains : k # 0 /\ fns[k].name = "main"
    BY <1>8
  <2> HIDE DEF mains
  <2> QED BY <1>10, <2>1
<1>12. SelectInSeq(fns, LAMBDA f : f.name = "main") = Min(mains)
  BY <1>9 DEF SelectInSeq
<1>13. Root = "main"
  BY <1>11, <1>12 DEF Root
<1>14. fns # <<>>
  BY <1>8, <1>9
<1> QED
  BY <1>1, <1>2, <1>4, <1>7, <1>13, <1>14

LEMMA NextMain == PhasesInv /\ ProgramKept /\ MainIsRun /\ [Next]_recorderVars => MainIsRun'
<1> SUFFICES ASSUME PhasesInv, ProgramKept, MainIsRun, [Next]_recorderVars
             PROVE  MainIsRun'
  OBVIOUS
<1>0. (OneMain' <=> OneMain) /\ command' = command
  BY ProgramStays DEF OneMain, Names
<1> SUFFICES ASSUME command = "record", OneMain
             PROVE  MainIsRun'
  BY <1>0 DEF MainIsRun
<1>k. /\ {ran, seen} \subseteq {"main", NoFunction}
      /\ shown = NoFunction \/ shown = ran
      /\ at \in Early \cup Preparing \cup {"derive"} => shown = NoFunction
      /\ at \in {"open", "close"} \cup Writing => ran = "main"
  BY DEF MainIsRun
<1> USE DEF MainIsRun, Early, Preparing, Writing, Goto, Stay, Finish, Fail
<1>1. CASE StartProbe
  <2>1. UNCHANGED <<ran, shown>> /\ at = "observe" /\ at' \in {"consume", "run"}
    BY <1>1 DEF StartProbe
  <2>2. seen' \in {"main", seen}
    BY <1>1, OneMainIsFound DEF StartProbe
  <2> QED
    BY <1>0, <1>k, <2>1, <2>2
<1>2. CASE Run
  <2>1. UNCHANGED <<seen, shown>> /\ at = "run"
    BY <1>2 DEF Run
  <2>2. \/ at' = "open" /\ ran' = "main"
        \/ at' = "end" /\ ran' = ran
    BY <1>2, OneMainIsFound DEF Run
  <2> QED
    BY <1>0, <1>k, <2>1, <2>2
<1>3. CASE CallRoot
  <2>1. UNCHANGED <<ran, seen>> /\ at = "derive" /\ at' = "walk" /\ shown' = "main"
    BY <1>3, OneMainIsFound DEF CallRoot
  <2> QED
    BY <1>0, <1>k, <2>1
<1>4. CASE ~StartProbe /\ ~Run /\ ~CallRoot
  <2>1. UNCHANGED <<ran, seen, shown>>
    BY <1>4, ProgramStays
  <2>2. \/ at' = at \/ at' = "end"
        \/ at' \in (Early \cup Preparing) \ {"open"} /\ at \in Early \cup Preparing
        \/ at' = "derive" /\ at = "open"
        \/ at' \in {"panic", "close"} /\ at \in {"close"} \cup Writing
    <3>1. CASE record
      <4>1. CASE read_to_string \/ Compile \/ ProbeStep \/ OpenRecording
        BY <4>1 DEF read_to_string, Compile, ProbeStep, OpenRecording
      <4>2. CASE Derive \/ WalkRoot \/ LeaveRoot \/ TellPanic
        BY <4>2 DEF Derive, WalkRoot, LeaveRoot, TellPanic
      <4> QED
        BY <1>4, <3>1, <4>1, <4>2 DEF record
    <3>2. CASE Locate \/ CheckDisabled \/ MakeFolder \/ CloseBundleFiles
      BY <3>2 DEF Locate, CheckDisabled, MakeFolder, CloseBundleFiles, Close
    <3>3. CASE trace_starknet \/ replay \/ Environment
      BY <3>3 DEF trace_starknet, replay, Environment
    <3>4. CASE UNCHANGED recorderVars
      BY <3>4 DEF recorderVars, bundleVars
    <3> QED
      BY <3>1, <3>2, <3>3, <3>4 DEF Next, main
  <2>3. at' \in {"open", "close"} \cup Writing => at \in {"open", "close"} \cup Writing
    BY <2>2
  <2>4. at' \in Early \cup Preparing \cup {"derive"} => at \in Early \cup Preparing \cup {"derive"}
    BY <2>2
  <2> QED
    BY <1>0, <1>k, <2>1, <2>3, <2>4
<1> QED
  BY <1>1, <1>2, <1>3, <1>4

-----------------------------------------------------------------------------
(***************************************************************************)
(* Counting calls and returns.                                             *)
(***************************************************************************)
Count(s, ev) == Cardinality({i \in DOMAIN s : s[i].ev = ev})

LEMMA CountConcatenation ==
  ASSUME NEW s, NEW t, NEW ev, IsSequence(s), IsSequence(t)
  PROVE  /\ Count(s \o t, ev) = Count(s, ev) + Count(t, ev)
         /\ Count(s, ev) \in Nat /\ Count(t, ev) \in Nat
<1> DEFINE A == {i \in DOMAIN s : s[i].ev = ev}
           B == {i \in DOMAIN t : t[i].ev = ev}
           C == {i \in DOMAIN (s \o t) : (s \o t)[i].ev = ev}
           D == {Len(s) + i : i \in B}
<1>0. /\ Len(s) \in Nat /\ Len(t) \in Nat
      /\ DOMAIN s = 1..Len(s) /\ DOMAIN t = 1..Len(t) /\ DOMAIN (s \o t) = 1..(Len(s) + Len(t))
      /\ \A i \in 1..Len(s) : (s \o t)[i] = s[i]
      /\ \A i \in 1..Len(t) : (s \o t)[Len(s) + i] = t[i]
  BY Concatenation
<1>1. IsFiniteSet(A) /\ IsFiniteSet(B)
  <2>1. IsFiniteSet(1..Len(s)) /\ IsFiniteSet(1..Len(t))
    BY <1>0, FS_Interval
  <2> QED
    BY <1>0, <2>1, FS_Subset
<1>2. IsFiniteSet(D) /\ Cardinality(D) = Cardinality(B)
  <2>1. [i \in B |-> Len(s) + i] \in Bijection(B, D)
    BY <1>0 DEF Bijection, Injection, Surjection, IsInjective
  <2>2. ExistsBijection(B, D)
    BY <2>1 DEF ExistsBijection
  <2> QED
    BY <1>1, <2>2, FS_Bijection, FS_SameCardinalityBij
<1>3. A \cap D = {}
  BY <1>0
<1>4. C = A \cup D
  <2>1. \A i \in C : i \in A \cup D
    <3> SUFFICES ASSUME NEW i \in C PROVE i \in A \cup D
      OBVIOUS
    <3>1. CASE i <= Len(s)
      BY <1>0, <3>1
    <3>2. CASE i > Len(s)
      <4>1. i - Len(s) \in 1..Len(t) /\ i = Len(s) + (i - Len(s))
        BY <1>0, <3>2
      <4>2. i - Len(s) \in B
        BY <1>0, <4>1
      <4> QED
        BY <4>1, <4>2
    <3> QED
      BY <1>0, <3>1, <3>2
  <2>2. \A i \in A : i \in C
    BY <1>0
  <2>3. \A i \in D : i \in C
    BY <1>0
  <2> QED
    BY <2>1, <2>2, <2>3
<1>5. Cardinality(A \cup D) = Cardinality(A) + Cardinality(D) - Cardinality(A \cap D)
  BY <1>1, <1>2, FS_Union
<1>6. Cardinality(A) \in Nat /\ Cardinality(B) \in Nat /\ Cardinality({}) = 0
  BY <1>1, FS_CardinalityType, FS_EmptySet
<1>7. /\ Count(s, ev) = Cardinality(A) /\ Count(t, ev) = Cardinality(B)
      /\ Count(s \o t, ev) = Cardinality(C)
  BY DEF Count
<1>8. Cardinality(A \cap D) = 0
  BY <1>3, <1>6
<1> HIDE DEF A, B, C, D
<1>9. Cardinality(C) = Cardinality(A) + Cardinality(B)
  BY <1>2, <1>4, <1>5, <1>6, <1>8
<1> QED
  BY <1>6, <1>7, <1>9

LEMMA CountNone ==
  ASSUME NEW t, NEW ev, \A i \in DOMAIN t : t[i].ev # ev
  PROVE  Count(t, ev) = 0
<1>1. {i \in DOMAIN t : t[i].ev = ev} = {}
  OBVIOUS
<1> QED
  BY <1>1, FS_EmptySet DEF Count

LEMMA CountOne ==
  ASSUME NEW t, NEW ev, NEW k \in DOMAIN t, t[k].ev = ev, \A i \in DOMAIN t : t[i].ev = ev => i = k
  PROVE  Count(t, ev) = 1
<1>1. {i \in DOMAIN t : t[i].ev = ev} = {k}
  OBVIOUS
<1> QED
  BY <1>1, FS_Singleton DEF Count

-----------------------------------------------------------------------------
(***************************************************************************)
(* What record writes: steps and values, but for the root's call, its      *)
(* return, and the panic.                                                  *)
(***************************************************************************)
Plain(w) == IsSequence(w) /\ \A i \in DOMAIN w : w[i].ev \in {"step", "value"}

PlainStep == /\ out' = out \/ \E w : Plain(w) /\ out' = out \o w
             /\ at' = at \/ (at # "walk" /\ at' \notin {"walk", "close"})
             /\ outcome' # "ok"

RecordStep ==
  \/ PlainStep
  \/ at = "derive" /\ at' = "walk" /\ outcome' = outcome /\ out' = out \o <<CallEv(0, Root, <<>>)>>
  \/ at = "walk" /\ at' = "panic" /\ outcome' = outcome /\ \E v : out' = out \o <<ReturnEv(line, v)>>
  \/ at = "panic" /\ at' = "close" /\ outcome' = outcome
       /\ out' = out \o (IF panicked THEN <<SpecialEv(line, "Error", "CairoPanic")>> ELSE <<>>)

LEMMA PlainTuples ==
  ASSUME NEW k, NEW x, NEW v
  PROVE  Plain(<<>>) /\ Plain(<<StepEv(k)>>) /\ Plain(<<StepEv(k), ValueEv(k, x, v)>>)
<1>1. IsSequence(<<>>) /\ IsSequence(<<StepEv(k)>>) /\ IsSequence(<<StepEv(k), ValueEv(k, x, v)>>)
  BY Tuples
<1> QED
  BY <1>1 DEF Plain, StepEv, ValueEv

LEMMA RecordIsRecordStep == PhasesInv /\ record => RecordStep
<1> SUFFICES ASSUME PhasesInv, record
             PROVE  RecordStep
  OBVIOUS
<1>0. outcome # "ok"
  <2>1. at # "end"
    BY DEF record, read_to_string, Compile, StartProbe, ProbeStep, Run, OpenRecording, Derive, CallRoot, WalkRoot,
           LeaveRoot, TellPanic
  <2> QED
    BY <2>1 DEF PhasesInv, OutcomeByPhase
<1> USE DEF Goto, Stay, Finish, Aside, Fail
<1>1. CASE read_to_string \/ Compile \/ StartProbe \/ ProbeStep \/ Run
  BY <1>0, <1>1 DEF RecordStep, PlainStep, read_to_string, Compile, StartProbe, ProbeStep, Run
<1>2. CASE OpenRecording \/ Derive
  BY <1>0, <1>2 DEF RecordStep, PlainStep, OpenRecording, OpenBundle, Derive
<1>3. CASE CallRoot
  BY <1>0, <1>3 DEF RecordStep, PlainStep, CallRoot, Write
<1>4. CASE WalkRoot
  <2>1. at' = at /\ outcome' # "ok"
    BY <1>0, <1>4 DEF WalkRoot
  <2>2. out' = out \/ \E w : Plain(w) /\ out' = out \o w
    <3>1. CASE WalkLine
      BY <3>1, PlainTuples DEF WalkLine, Write
    <3>2. CASE EnterLoop \/ LoopTurned
      BY <3>2 DEF EnterLoop, LoopTurned
    <3>3. CASE LoopTurn
      BY <3>3, PlainTuples DEF LoopTurn, HeaderStep, Write
    <3>4. CASE LoopLine
      BY <3>4, PlainTuples DEF LoopLine, Write
    <3> QED
      BY <1>4, <3>1, <3>2, <3>3, <3>4 DEF WalkRoot
  <2> QED
    BY <2>1, <2>2 DEF RecordStep, PlainStep
<1>5. CASE LeaveRoot
  BY <1>5 DEF RecordStep, LeaveRoot, Write
<1>6. CASE TellPanic
  BY <1>6 DEF RecordStep, TellPanic, Write
<1> QED
  BY <1>1, <1>2, <1>3, <1>4, <1>5, <1>6 DEF record

-----------------------------------------------------------------------------
(***************************************************************************)
(* What the other commands write.  A frame of trace-starknet is a call and *)
(* its return; an invocation of a replay is called with its events after   *)
(* it, and returned when it leaves the stack.                              *)
(***************************************************************************)
OfKinds(w) == \A i \in DOMAIN w : w[i].ev \in {"step", "value", "call", "return", "special"}

Bracketed(w, calls_, returns_) ==
  IsSequence(w) /\ OfKinds(w) /\ Count(w, "call") = calls_ /\ Count(w, "return") = returns_

LEMMA KindsOfConcatenation ==
  ASSUME NEW v, NEW w, IsSequence(v), IsSequence(w), OfKinds(v), OfKinds(w)
  PROVE  OfKinds(v \o w)
<1>1. /\ Len(v) \in Nat /\ Len(w) \in Nat /\ DOMAIN v = 1..Len(v) /\ DOMAIN w = 1..Len(w)
      /\ DOMAIN (v \o w) = 1..(Len(v) + Len(w))
      /\ \A i \in 1..(Len(v) + Len(w)) : (v \o w)[i] = IF i <= Len(v) THEN v[i] ELSE w[i - Len(v)]
  BY DEF IsSequence
<1>2. ASSUME NEW i \in 1..(Len(v) + Len(w))
      PROVE  (v \o w)[i].ev \in {"step", "value", "call", "return", "special"}
  <2>1. CASE i <= Len(v)
    <3>1. i \in DOMAIN v /\ (v \o w)[i] = v[i]
      BY <1>1, <2>1
    <3> QED
      BY <3>1 DEF OfKinds
  <2>2. CASE ~(i <= Len(v))
    <3>1. i - Len(v) \in DOMAIN w /\ (v \o w)[i] = w[i - Len(v)]
      BY <1>1, <2>2
    <3> QED
      BY <3>1 DEF OfKinds
  <2> QED
    BY <2>1, <2>2
<1> QED
  BY <1>1, <1>2 DEF OfKinds

LEMMA CountOfTuple ==
  ASSUME NEW x, NEW y, NEW ev
  PROVE  /\ Count(<<>>, ev) = 0
         /\ Count(<<x>>, ev) = IF x.ev = ev THEN 1 ELSE 0
         /\ x.ev = ev /\ y.ev # ev => Count(<<x, y>>, ev) = 1
         /\ x.ev # ev /\ y.ev = ev => Count(<<x, y>>, ev) = 1
         /\ x.ev # ev /\ y.ev # ev => Count(<<x, y>>, ev) = 0
<1>1. /\ DOMAIN <<>> = {} /\ DOMAIN <<x>> = {1} /\ DOMAIN <<x, y>> = {1, 2}
      /\ <<x>>[1] = x /\ <<x, y>>[1] = x /\ <<x, y>>[2] = y
  OBVIOUS
<1>2. Count(<<>>, ev) = 0
  BY <1>1, CountNone
<1>3. CASE x.ev = ev
  <2>1. Count(<<x>>, ev) = 1
    BY <1>1, <1>3, CountOne
  <2>2. y.ev # ev => Count(<<x, y>>, ev) = 1
    BY <1>1, <1>3, CountOne
  <2> QED
    BY <1>2, <1>3, <2>1, <2>2
<1>4. CASE x.ev # ev
  <2>1. Count(<<x>>, ev) = 0
    BY <1>1, <1>4, CountNone
  <2>2. y.ev # ev => Count(<<x, y>>, ev) = 0
    BY <1>1, <1>4, CountNone
  <2>3. y.ev = ev => Count(<<x, y>>, ev) = 1
    BY <1>1, <1>4, CountOne
  <2> QED
    BY <1>2, <1>4, <2>1, <2>2, <2>3
<1> QED
  BY <1>3, <1>4

LEMMA BracketedConcatenation ==
  ASSUME NEW v, NEW w, NEW m \in Nat, NEW n \in Nat, NEW k \in Nat, NEW l \in Nat,
         Bracketed(v, m, n), Bracketed(w, k, l)
  PROVE  Bracketed(v \o w, m + k, n + l)
<1>1. IsSequence(v \o w)
  BY Concatenation DEF Bracketed
<1>2. Count(v \o w, "call") = Count(v, "call") + Count(w, "call")
  BY CountConcatenation DEF Bracketed
<1>3. Count(v \o w, "return") = Count(v, "return") + Count(w, "return")
  BY CountConcatenation DEF Bracketed
<1>4. OfKinds(v \o w)
  BY KindsOfConcatenation DEF Bracketed
<1> QED
  BY <1>1, <1>2, <1>3, <1>4 DEF Bracketed

LEMMA BracketedEvents ==
  ASSUME NEW k, NEW f, NEW a, NEW v, NEW kind, NEW of
  PROVE  /\ Bracketed(<<>>, 0, 0)
         /\ Bracketed(<<StepEv(k)>>, 0, 0)
         /\ Bracketed(<<ReturnEv(k, v)>>, 0, 1)
         /\ Bracketed(<<CallEv(k, f, a)>>, 1, 0)
         /\ Bracketed(<<SpecialEv(k, kind, of)>>, 0, 0)
         /\ Bracketed(<<StepEv(k), CallEv(k, f, a)>>, 1, 0)
         /\ Bracketed(<<CallEv(k, f, a), ReturnEv(k, v)>>, 1, 1)
<1>0. /\ StepEv(k).ev = "step" /\ CallEv(k, f, a).ev = "call" /\ ReturnEv(k, v).ev = "return"
      /\ SpecialEv(k, kind, of).ev = "special"
  BY DEF StepEv, CallEv, ReturnEv, SpecialEv
<1>k. /\ OfKinds(<<>>) /\ OfKinds(<<StepEv(k)>>) /\ OfKinds(<<ReturnEv(k, v)>>)
      /\ OfKinds(<<CallEv(k, f, a)>>) /\ OfKinds(<<SpecialEv(k, kind, of)>>)
      /\ OfKinds(<<StepEv(k), CallEv(k, f, a)>>) /\ OfKinds(<<CallEv(k, f, a), ReturnEv(k, v)>>)
  BY <1>0 DEF OfKinds
<1>1. Bracketed(<<>>, 0, 0)
  BY <1>k, Tuples, CountOfTuple DEF Bracketed
<1>2. Bracketed(<<StepEv(k)>>, 0, 0) /\ Bracketed(<<SpecialEv(k, kind, of)>>, 0, 0)
  BY <1>0, <1>k, Tuples, CountOfTuple DEF Bracketed
<1>3. Bracketed(<<ReturnEv(k, v)>>, 0, 1) /\ Bracketed(<<CallEv(k, f, a)>>, 1, 0)
  BY <1>0, <1>k, Tuples, CountOfTuple DEF Bracketed
<1>4. Bracketed(<<StepEv(k), CallEv(k, f, a)>>, 1, 0)
  BY <1>0, <1>k, Tuples, CountOfTuple DEF Bracketed
<1>5. Bracketed(<<CallEv(k, f, a), ReturnEv(k, v)>>, 1, 1)
  BY <1>0, <1>k, Tuples, CountOfTuple DEF Bracketed
<1> QED
  BY <1>1, <1>2, <1>3, <1>4, <1>5

LEMMA BracketedFrame ==
  ASSUME NEW e, NEW k
  PROVE  \E n \in {0, 1} : Bracketed(<<StepEv(k)>> \o Frame(e, k) \o Special(e, k), n, n)
<1>1. \E n \in {0, 1} : Bracketed(Frame(e, k), n, n)
  BY BracketedEvents DEF Frame
<1>2. Bracketed(Special(e, k), 0, 0)
  BY BracketedEvents DEF Special
<1>3. Bracketed(<<StepEv(k)>>, 0, 0)
  BY BracketedEvents
<1>4. PICK n \in {0, 1} : Bracketed(Frame(e, k), n, n)
  BY <1>1
<1>5. Bracketed(<<StepEv(k)>> \o Frame(e, k), 0 + n, 0 + n)
  BY <1>3, <1>4, BracketedConcatenation
<1>6. Bracketed((<<StepEv(k)>> \o Frame(e, k)) \o Special(e, k), n + 0, n + 0)
  BY <1>2, <1>4, <1>5, BracketedConcatenation
<1> QED
  BY <1>4, <1>6

(* An event, neither a call nor a return, for each element of a sequence.  *)
LEMMA BracketedEach ==
  ASSUME NEW s, IsSequence(s), NEW w, w = [i \in DOMAIN s |-> w[i]],
         \A i \in DOMAIN s : w[i].ev = "special"
  PROVE  Bracketed(w, 0, 0)
<1>1. DOMAIN s = 1..Len(s) /\ Len(s) \in Nat
  BY DEF IsSequence
<1>2. IsSequence(w)
  <2>1. w \in [1..Len(s) -> {w[i] : i \in DOMAIN s}]
    BY <1>1
  <2>2. w \in Seq({w[i] : i \in DOMAIN s})
    BY <1>1, <2>1, SeqDef
  <2> QED
    BY <2>2, AnyIsSequence
<1>3. \A i \in DOMAIN w : w[i].ev # "call" /\ w[i].ev # "return"
  OBVIOUS
<1>4. OfKinds(w)
  BY DEF OfKinds
<1> QED
  BY <1>2, <1>3, <1>4, CountNone DEF Bracketed

(***************************************************************************)
(* The tree of invocations being written.                                  *)
(***************************************************************************)
Replaying == command \in {"replay", "replay_live"}

ReplayTyped ==
  /\ Replaying /\ at \notin {"locate", "end"} => IsTransaction(tx)
  /\ Replaying /\ at = "walk" => stack \in Seq([node : DOMAIN tx.nodes, next : Nat \ {0}])
  /\ ~(Replaying /\ at = "walk") => stack = <<>>
  /\ diffed \in Nat

LEMMA InitReplay == Init => ReplayTyped
BY DEF Init, BundleInit, ReplayInit, ReplayTyped

LEMMA EnteredIsACall ==
  ASSUME IsTransaction(tx), NEW n \in DOMAIN tx.nodes
  PROVE  Bracketed(Entered(n), 1, 0)
<1>1. events(n) \in Seq(EventActs(n))
  BY CallsAndEvents DEF Nodes
<1>2. IsSequence(events(n))
  BY <1>1, AnyIsSequence
<1> DEFINE told == [i \in DOMAIN events(n) |-> Emitting(lines, n, events(n)[i])]
<1>3. Bracketed(told, 0, 0)
  <2>1. told = [i \in DOMAIN events(n) |-> told[i]] /\ \A i \in DOMAIN events(n) : told[i].ev = "special"
    BY DEF Emitting, SpecialEv
  <2> QED
    BY <1>2, <2>1, BracketedEach
<1>4. Bracketed(<<StepEv(lines), Calling(lines, n)>>, 1, 0)
  BY BracketedEvents DEF Calling
<1> HIDE DEF told
<1>5. Bracketed(<<StepEv(lines), Calling(lines, n)>> \o told, 1 + 0, 0 + 0)
  BY <1>3, <1>4, BracketedConcatenation
<1> QED
  BY <1>5 DEF Entered, told

LEMMA CallsAreNodes ==
  ASSUME IsTransaction(tx), NEW n \in DOMAIN tx.nodes, NEW k \in Nat \ {0}, k <= Len(calls(n))
  PROVE  calls(n)[k].of \in DOMAIN tx.nodes
<1>1. calls(n) \in Seq(CallActs(n)) /\ \A act \in CallActs(n) : act.of \in DOMAIN tx.nodes
  BY CallsAndEvents, TraceIsATree DEF Nodes
<1>2. calls(n)[k] \in CallActs(n)
  BY <1>1
<1> QED
  BY <1>1, <1>2

(* What a step of a replay does to the bundle and the stack: nothing, or   *)
(* it writes what is neither call nor return, or enters, or returns.       *)
ReplayStep ==
  \/ UNCHANGED <<out, stack>>
  \/ stack' = stack /\ \E w : Bracketed(w, 0, 0) /\ out' = out \o w
  \/ Len(stack') = Len(stack) + 1 /\ \E w : Bracketed(w, 1, 0) /\ out' = out \o w
  \/ Len(stack') = Len(stack) - 1 /\ Len(stack) # 0 /\ \E w : Bracketed(w, 0, 1) /\ out' = out \o w

LEMMA VisitEnters ==
  ASSUME IsTransaction(tx), NEW n \in DOMAIN tx.nodes, Visit(n), UNCHANGED tx,
         stack \in Seq([node : DOMAIN tx.nodes, next : Nat \ {0}])
  PROVE  /\ stack' \in Seq([node : DOMAIN tx.nodes, next : Nat \ {0}])
         /\ Len(stack') = Len(stack) + 1
         /\ \E w : Bracketed(w, 1, 0) /\ out' = out \o w
<1> DEFINE Frames == [node : DOMAIN tx.nodes, next : Nat \ {0}]
           moved == [i \in DOMAIN stack |->
                       IF i = Len(stack) THEN [stack[i] EXCEPT !.next = @ + 1] ELSE stack[i]]
<1>0. \A r \in Frames : [r EXCEPT !.next = @ + 1] \in Frames
  OBVIOUS
<1>1. stack \in Seq(Frames)
  OBVIOUS
<1> HIDE DEF Frames
<1>2. DOMAIN stack = 1..Len(stack) /\ Len(stack) \in Nat /\ \A i \in 1..Len(stack) : stack[i] \in Frames
  BY <1>1
<1>3. moved \in [1..Len(stack) -> Frames]
  BY <1>0, <1>2
<1>4. moved \in Seq(Frames) /\ Len(moved) = Len(stack)
  BY <1>2, <1>3, SeqDef
<1>5. [node |-> n, next |-> 1] \in Frames
  BY DEF Frames
<1>6. stack' = Append(moved, [node |-> n, next |-> 1])
  BY DEF Visit
<1> HIDE DEF moved
<1>7. stack' \in Seq(Frames) /\ Len(stack') = Len(stack) + 1
  BY <1>4, <1>5, <1>6, AppendProperties
<1>8. out' = out \o Entered(n)
  BY DEF Visit, Write
<1> QED
  BY <1>7, <1>8, EnteredIsACall DEF Frames

LEMMA FetchedIsTransaction ==
  ASSUME NEW answer \in Bodies, NEW got, got \in {trace_transaction(answer), from_json(answer)}, got # NoTx
  PROVE  IsTransaction(got)
BY BodiesAssumption DEF trace_transaction, from_json

LEMMA InvocationEnters ==
  ASSUME ReplayTyped, Replaying, write_invocation
  PROVE  /\ stack' \in Seq([node : DOMAIN tx.nodes, next : Nat \ {0}])
         /\ Len(stack') = Len(stack) + 1
         /\ \E w : Bracketed(w, 1, 0) /\ out' = out \o w
<1>1. /\ at = "walk" /\ tx' = tx /\ IsTransaction(tx)
      /\ stack \in Seq([node : DOMAIN tx.nodes, next : Nat \ {0}])
  BY DEF write_invocation, ReplayTyped
<1>2. CASE stack = <<>> /\ lines = 1 /\ Visit(1)
  <2>1. 1 \in DOMAIN tx.nodes
    BY <1>1, TraceIsATree DEF Nodes
  <2> QED
    BY <1>1, <1>2, <2>1, VisitEnters
<1>3. CASE stack # <<>> /\ CallsLeft /\ Visit(calls(Top.node)[Top.next].of)
  <2>1. Top \in [node : DOMAIN tx.nodes, next : Nat \ {0}]
    <3> DEFINE Frames == [node : DOMAIN tx.nodes, next : Nat \ {0}]
    <3>1. stack \in Seq(Frames)
      BY <1>1
    <3> HIDE DEF Frames
    <3>2. stack[Len(stack)] \in Frames
      BY <3>1, <1>3
    <3> QED
      BY <3>2 DEF Top, Frames
  <2>2. Top.node \in DOMAIN tx.nodes /\ Top.next \in Nat \ {0} /\ Top.next <= Len(calls(Top.node))
    BY <1>3, <2>1 DEF CallsLeft
  <2>3. calls(Top.node)[Top.next].of \in DOMAIN tx.nodes
    BY <1>1, <2>2, CallsAreNodes
  <2> QED
    BY <1>1, <1>3, <2>3, VisitEnters
<1> QED
  BY <1>2, <1>3 DEF write_invocation

LEMMA InvocationReturns ==
  ASSUME ReplayTyped, Replaying, ReturnInvocation
  PROVE  /\ stack' \in Seq([node : DOMAIN tx.nodes, next : Nat \ {0}])
         /\ Len(stack') = Len(stack) - 1 /\ Len(stack) # 0
         /\ \E w : Bracketed(w, 0, 1) /\ out' = out \o w
<1> DEFINE Frames == [node : DOMAIN tx.nodes, next : Nat \ {0}]
<1>1. stack \in Seq(Frames) /\ stack # <<>>
  BY DEF ReturnInvocation, ReplayTyped
<1> HIDE DEF Frames
<1>2. stack' = Front(stack)
  BY DEF ReturnInvocation
<1>3. Len(stack) \in Nat \ {0}
  BY <1>1
<1>4. /\ stack' \in Seq(Frames)
      /\ Len(stack') = Len(stack) - 1
  BY <1>1, <1>2, FrontIsShorter
<1>5. out' = out \o <<ReturnEv(lines - 1, tx.nodes[Top.node].result)>>
  BY DEF ReturnInvocation, Write, Returning
<1> QED
  BY <1>3, <1>4, <1>5, BracketedEvents DEF Frames

LEMMA DiffIsNoCall ==
  ASSUME ReplayTyped, Replaying, WriteDiff
  PROVE  \E w : Bracketed(w, 0, 0) /\ out' = out \o w
<1>0. IsTransaction(tx) /\ diffed \in Nat /\ diffed < Len(tx.diffs)
  BY DEF WriteDiff, Walked, ReplayTyped
<1>a. tx.diffs \in Seq(ToSet(tx.diffs))
  BY <1>0 DEF IsTransaction
<1>1. IsTransaction(tx) /\ diffed + 1 \in 1..Len(tx.diffs)
  BY <1>0, <1>a
<1> DEFINE diff == tx.diffs[diffed + 1]
           w == [j \in DOMAIN diff.keys |-> SpecialEv(lines - 1, "Write", <<diff.contract, diff.keys[j]>>)]
<1>2. diff \in ToSet(tx.diffs)
  BY <1>1 DEF IsTransaction, ToSet
<1>3. IsSequence(diff.keys)
  BY <1>1, <1>2 DEF IsTransaction, IsSequence
<1>4. w = [i \in DOMAIN diff.keys |-> w[i]] /\ \A i \in DOMAIN diff.keys : w[i].ev = "special"
  BY DEF SpecialEv
<1>5. Bracketed(w, 0, 0)
  BY <1>3, <1>4, BracketedEach
<1>6. out' = out \o w
  BY DEF WriteDiff, Write
<1> QED
  BY <1>5, <1>6

LEMMA NextReplay == PhasesInv /\ ReplayTyped /\ [Next]_recorderVars => ReplayTyped'
<1> SUFFICES ASSUME PhasesInv, ReplayTyped, [Next]_recorderVars
             PROVE  ReplayTyped'
  OBVIOUS
<1>0. command' = command /\ (Replaying' <=> Replaying)
  BY ProgramStays DEF Replaying
<1>1. CASE replay
  <2>0. Replaying
    BY <1>1 DEF replay, Replaying
  <2> USE DEF Goto, Stay, Finish, Aside, Fail
  <2>1. CASE SourceTrace(command = "replay_live")
    <3>1. UNCHANGED <<stack, diffed>> /\ at = "locate" /\ at' # "walk"
      BY <2>1 DEF SourceTrace
    <3>2. at' \notin {"locate", "end"} => IsTransaction(tx')
      BY <2>1, FetchedIsTransaction DEF SourceTrace
    <3> QED
      BY <1>0, <3>1, <3>2 DEF ReplayTyped
  <2>2. CASE Reexecute \/ OpenReplay \/ WriteDiff \/ DiffsWritten
    <3>1. UNCHANGED <<tx, stack>> /\ diffed' \in {diffed, diffed + 1} /\ at \notin {"locate", "end"}
      BY <2>2 DEF Reexecute, OpenReplay, WriteDiff, DiffsWritten, Walked, replayVars
    <3>2. stack = <<>>
      BY <2>0, <2>2 DEF Reexecute, OpenReplay, WriteDiff, DiffsWritten, Walked, ReplayTyped
    <3>3. IsTransaction(tx) /\ diffed \in Nat
      BY <2>0, <3>1 DEF ReplayTyped
    <3>4. <<>> \in Seq([node : DOMAIN tx'.nodes, next : Nat \ {0}])
      OBVIOUS
    <3> QED
      BY <1>0, <3>1, <3>2, <3>3, <3>4 DEF ReplayTyped
  <2>3. CASE write_invocation
    <3>1. UNCHANGED <<tx, diffed, at>> /\ at = "walk"
      BY <2>3 DEF write_invocation
    <3>2. stack' \in Seq([node : DOMAIN tx.nodes, next : Nat \ {0}])
      BY <2>0, <2>3, InvocationEnters
    <3> QED
      BY <1>0, <2>0, <3>1, <3>2 DEF ReplayTyped
  <2>4. CASE ReturnInvocation
    <3>1. UNCHANGED <<tx, diffed, at>> /\ at = "walk"
      BY <2>4 DEF ReturnInvocation
    <3>2. stack' \in Seq([node : DOMAIN tx.nodes, next : Nat \ {0}])
      BY <2>0, <2>4, InvocationReturns
    <3> QED
      BY <1>0, <2>0, <3>1, <3>2 DEF ReplayTyped
  <2> QED
    BY <1>1, <2>1, <2>2, <2>3, <2>4 DEF replay
<1>2. CASE ~replay
  <2>1. UNCHANGED replayVars
    <3>1. CASE record \/ trace_starknet \/ CloseBundleFiles \/ Environment
      BY <3>1 DEF record, trace_starknet, CloseBundleFiles, Environment
    <3>2. CASE Locate \/ CheckDisabled \/ MakeFolder
      BY <3>2 DEF Locate, CheckDisabled, MakeFolder
    <3>3. CASE UNCHANGED recorderVars
      BY <3>3 DEF recorderVars
    <3> QED
      BY <1>2, <3>1, <3>2, <3>3 DEF Next, main
  <2>2. Replaying => (at = "walk" <=> at' = "walk") /\ (at \in {"locate", "end"} => at' \in {"locate", "end"})
    <3> USE DEF Goto, Stay, Finish, Fail
    <3>1. CASE record \/ trace_starknet \/ Environment
      BY <3>1 DEF record, trace_starknet, Environment, Replaying
    <3>2. CASE Locate \/ CheckDisabled \/ CloseBundleFiles
      BY <3>2 DEF Locate, CheckDisabled, CloseBundleFiles, Close, Replaying
    <3>3. CASE MakeFolder
      BY <3>3 DEF MakeFolder, Replaying
    <3>4. CASE UNCHANGED recorderVars
      BY <3>4 DEF recorderVars, bundleVars
    <3> QED
      BY <1>2, <3>1, <3>2, <3>3, <3>4 DEF Next, main
  <2>3. (Replaying /\ at = "walk") \/ stack = <<>>
    BY DEF ReplayTyped
  <2> QED
    BY <1>0, <2>1, <2>2, <2>3 DEF ReplayTyped, replayVars
<1> QED
  BY <1>1, <1>2

-----------------------------------------------------------------------------
(***************************************************************************)
(* Every call that is open is the root's, or is of an invocation on the    *)
(* stack.                                                                  *)
(***************************************************************************)
OpenCalls == IF command = "record" THEN IF at = "walk" THEN 1 ELSE 0 ELSE Len(stack)

CallsAreOpen ==
  /\ IsSequence(out) /\ OfKinds(out)
  /\ Count(out, "call") = Count(out, "return") + OpenCalls

LEMMA InitCalls == Init => CallsAreOpen
<1> SUFFICES ASSUME Init PROVE CallsAreOpen
  OBVIOUS
<1>1. out = <<>> /\ OpenCalls = 0
  BY DEF Init, BundleInit, ReplayInit, OpenCalls
<1>2. IsSequence(<<>>) /\ OfKinds(<<>>) /\ Count(<<>>, "call") = 0 /\ Count(<<>>, "return") = 0
  BY Tuples, CountOfTuple, BracketedEvents DEF Bracketed
<1> QED
  BY <1>1, <1>2 DEF CallsAreOpen

(* The calls open after a block with m calls and n returns.                *)
LEMMA CallsAfter ==
  ASSUME CallsAreOpen, OpenCalls \in Nat, NEW w, NEW m \in Nat, NEW n \in Nat, Bracketed(w, m, n),
         out' = out \o w, OpenCalls' + n = OpenCalls + m, OpenCalls' \in Nat
  PROVE  CallsAreOpen'
<1>1. IsSequence(out) /\ IsSequence(w) /\ Count(w, "call") = m /\ Count(w, "return") = n
  BY DEF CallsAreOpen, Bracketed
<1>2. IsSequence(out \o w) /\ OfKinds(out \o w)
  BY <1>1, Concatenation, KindsOfConcatenation DEF CallsAreOpen, Bracketed
<1>3. /\ Count(out \o w, "call") = Count(out, "call") + m
      /\ Count(out, "call") \in Nat
  BY <1>1, CountConcatenation
<1>4. /\ Count(out \o w, "return") = Count(out, "return") + n
      /\ Count(out, "return") \in Nat
  BY <1>1, CountConcatenation
<1>5. Count(out, "call") = Count(out, "return") + OpenCalls
  BY DEF CallsAreOpen
<1>6. Count(out \o w, "call") = Count(out \o w, "return") + OpenCalls'
  <2>1. PICK c, r, x, y : c = Count(out, "call") /\ r = Count(out, "return") /\ x = OpenCalls /\ y = OpenCalls'
    OBVIOUS
  <2>2. c \in Nat /\ r \in Nat /\ x \in Nat /\ y \in Nat /\ c = r + x /\ y + n = x + m
    BY <1>3, <1>4, <1>5, <2>1
  <2>3. c + m = r + n + y
    BY <2>2
  <2> QED
    BY <1>3, <1>4, <2>1, <2>3
<1> QED
  BY <1>2, <1>6 DEF CallsAreOpen

LEMMA PlainIsBracketed ==
  ASSUME NEW w, Plain(w)
  PROVE  Bracketed(w, 0, 0)
<1>1. \A i \in DOMAIN w : w[i].ev # "call" /\ w[i].ev # "return"
  BY DEF Plain
<1>2. OfKinds(w)
  BY DEF Plain, OfKinds
<1> QED
  BY <1>1, <1>2, CountNone DEF Plain, Bracketed

LEMMA OpenCallsIsNat == ReplayTyped => OpenCalls \in Nat
<1> SUFFICES ASSUME ReplayTyped PROVE OpenCalls \in Nat
  OBVIOUS
<1>1. CASE Replaying /\ at = "walk"
  <2>1. PICK Frames : stack \in Seq(Frames)
    BY <1>1 DEF ReplayTyped
  <2> QED
    BY <2>1 DEF OpenCalls
<1>2. CASE ~(Replaying /\ at = "walk")
  BY <1>2 DEF ReplayTyped, OpenCalls
<1> QED
  BY <1>1, <1>2

LEMMA NextCalls == PhasesInv /\ ReplayTyped /\ CallsAreOpen /\ [Next]_recorderVars => CallsAreOpen'
<1> SUFFICES ASSUME PhasesInv, ReplayTyped, CallsAreOpen, [Next]_recorderVars
             PROVE  CallsAreOpen'
  OBVIOUS
<1>0. command' = command
  BY ProgramStays
<1>1. OpenCalls \in Nat /\ OpenCalls' \in Nat
  <2>1. ReplayTyped'
    BY NextReplay
  <2>2. OpenCalls \in Nat
    BY OpenCallsIsNat
  <2>3. ReplayTyped' => (OpenCalls \in Nat)'
    BY OpenCallsIsNat, PTL
  <2> QED
    BY <2>1, <2>2, <2>3
<1>2. CASE record
  <2>0. command = "record" /\ command' = "record"
    BY <1>2 DEF record
  <2>1. CASE PlainStep
    <3>1. OpenCalls' = OpenCalls
      BY <2>0, <2>1 DEF PlainStep, OpenCalls
    <3>2. CASE out' = out
      BY <3>1, <3>2 DEF CallsAreOpen
    <3>3. CASE \E w : Plain(w) /\ out' = out \o w
      BY <1>1, <3>1, <3>3, PlainIsBracketed, CallsAfter
    <3> QED
      BY <2>1, <3>2, <3>3 DEF PlainStep
  <2>2. CASE at = "derive" /\ at' = "walk" /\ out' = out \o <<CallEv(0, Root, <<>>)>>
    <3>1. OpenCalls' + 0 = OpenCalls + 1
      BY <2>0, <2>2 DEF OpenCalls
    <3> QED
      BY <1>1, <2>2, <3>1, BracketedEvents, CallsAfter
  <2>3. CASE at = "walk" /\ at' = "panic" /\ \E v : out' = out \o <<ReturnEv(line, v)>>
    <3>1. OpenCalls' + 1 = OpenCalls + 0
      BY <2>0, <2>3 DEF OpenCalls
    <3> QED
      BY <1>1, <2>3, <3>1, BracketedEvents, CallsAfter
  <2>4. CASE /\ at = "panic" /\ at' = "close"
             /\ out' = out \o (IF panicked THEN <<SpecialEv(line, "Error", "CairoPanic")>> ELSE <<>>)
    <3>1. OpenCalls' + 0 = OpenCalls + 0
      BY <2>0, <2>4 DEF OpenCalls
    <3>2. Bracketed(IF panicked THEN <<SpecialEv(line, "Error", "CairoPanic")>> ELSE <<>>, 0, 0)
      BY BracketedEvents
    <3> QED
      BY <1>1, <2>4, <3>1, <3>2, CallsAfter
  <2> QED
    BY <1>2, <2>1, <2>2, <2>3, <2>4, RecordIsRecordStep DEF RecordStep
<1>3. CASE trace_starknet
  <2>0. command = "trace_starknet" /\ stack' = stack
    BY <1>3 DEF trace_starknet, replayVars
  <2>1. OpenCalls' = OpenCalls
    BY <1>0, <2>0 DEF OpenCalls
  <2>2. CASE WriteEntry
    <3>1. \E n \in {0, 1} : \E w : Bracketed(w, n, n) /\ out' = out \o w
      BY <2>2, BracketedFrame DEF WriteEntry, Write
    <3> QED
      BY <1>1, <2>1, <3>1, CallsAfter
  <2>3. CASE parse_snforge_trace \/ OpenSnforge \/ entry_contract \/ EntriesWritten
    <3>1. out' = out
      BY <2>3 DEF parse_snforge_trace, OpenSnforge, OpenBundle, entry_contract, EntriesWritten, Fail, Aside
    <3> QED
      BY <2>1, <3>1 DEF CallsAreOpen
  <2> QED
    BY <1>3, <2>2, <2>3 DEF trace_starknet
<1>4. CASE replay
  <2>0. Replaying /\ OpenCalls = Len(stack) /\ OpenCalls' = Len(stack')
    BY <1>0, <1>4 DEF replay, Replaying, OpenCalls
  <2>k. Len(stack) \in Nat /\ Len(stack') \in Nat
    BY <1>1, <2>0
  <2>1. CASE UNCHANGED <<out, stack>>
    BY <2>0, <2>1 DEF CallsAreOpen
  <2>2. CASE stack' = stack /\ \E w : Bracketed(w, 0, 0) /\ out' = out \o w
    BY <1>1, <2>0, <2>2, CallsAfter
  <2>3. CASE Len(stack') = Len(stack) + 1 /\ \E w : Bracketed(w, 1, 0) /\ out' = out \o w
    <3>1. OpenCalls' + 0 = OpenCalls + 1
      BY <2>0, <2>k, <2>3
    <3>2. 0 \in Nat /\ 1 \in Nat
      OBVIOUS
    <3>3. PICK w : Bracketed(w, 1, 0) /\ out' = out \o w
      BY <2>3
    <3> QED
      BY <1>1, <3>1, <3>2, <3>3, CallsAfter
  <2>4. CASE Len(stack') = Len(stack) - 1 /\ Len(stack) # 0 /\ \E w : Bracketed(w, 0, 1) /\ out' = out \o w
    <3>1. OpenCalls' + 1 = OpenCalls + 0
      BY <2>0, <2>k, <2>4
    <3>2. 1 \in Nat /\ 0 \in Nat
      OBVIOUS
    <3>3. PICK w : Bracketed(w, 0, 1) /\ out' = out \o w
      BY <2>4
    <3> QED
      BY <1>1, <3>1, <3>2, <3>3, CallsAfter
  <2>5. ReplayStep
    <3>1. CASE write_invocation
      BY <2>0, <3>1, InvocationEnters DEF ReplayStep
    <3>2. CASE ReturnInvocation
      BY <2>0, <3>2, InvocationReturns DEF ReplayStep
    <3>3. CASE WriteDiff
      BY <2>0, <3>3, DiffIsNoCall DEF ReplayStep, WriteDiff
    <3>4. CASE SourceTrace(command = "replay_live") \/ Reexecute \/ OpenReplay \/ DiffsWritten
      BY <3>4 DEF ReplayStep, SourceTrace, Reexecute, OpenReplay, OpenBundle, DiffsWritten, replayVars, Fail, Aside
    <3> QED
      BY <1>4, <3>1, <3>2, <3>3, <3>4 DEF replay
  <2> QED
    BY <2>1, <2>2, <2>3, <2>4, <2>5 DEF ReplayStep
<1>5. CASE Locate \/ CheckDisabled \/ MakeFolder \/ CloseBundleFiles \/ Environment \/ UNCHANGED recorderVars
  <2>1. UNCHANGED <<out, stack>>
    <3>1. CASE Locate \/ CheckDisabled \/ MakeFolder
      BY <3>1 DEF Locate, CheckDisabled, MakeFolder, create_dir_all, Fail, Aside, replayVars
    <3>2. CASE CloseBundleFiles
      BY <3>2 DEF CloseBundleFiles, Close, Fail, Aside, replayVars
    <3>3. CASE Environment \/ UNCHANGED recorderVars
      BY <3>3 DEF Environment, FileChanges, recorderVars, bundleVars, replayVars
    <3> QED
      BY <1>5, <3>1, <3>2, <3>3
  <2>2. at' = "walk" <=> at = "walk"
    <3> USE DEF Goto, Stay, Finish, Fail
    <3>1. CASE Locate \/ CheckDisabled
      BY <3>1 DEF Locate, CheckDisabled
    <3>2. CASE MakeFolder
      BY <3>2 DEF MakeFolder
    <3>3. CASE CloseBundleFiles
      BY <3>3 DEF CloseBundleFiles, Close
    <3>4. CASE Environment \/ UNCHANGED recorderVars
      BY <3>4 DEF Environment, FileChanges, recorderVars, bundleVars
    <3> QED
      BY <1>5, <3>1, <3>2, <3>3, <3>4
  <2>3. OpenCalls' = OpenCalls
    BY <1>0, <2>1, <2>2 DEF OpenCalls
  <2> QED
    BY <2>1, <2>3 DEF CallsAreOpen
<1> QED
  BY <1>2, <1>3, <1>4, <1>5 DEF Next, main

-----------------------------------------------------------------------------
(***************************************************************************)
(* The panic of a program.                                                 *)
(***************************************************************************)
ErrorTold(s) == \E i \in DOMAIN s : s[i].ev = "special" /\ s[i].kind = "Error"

PanicIsTold ==
  command = "record" =>
    /\ at \notin {"close", "end"} => \A i \in DOMAIN out : out[i].ev # "special"
    /\ at = "close" \/ (outcome = "ok" /\ ~disabled) => (panicked <=> ErrorTold(out))

LEMMA InitPanic == Init => PanicIsTold
BY DEF Init, BundleInit, PanicIsTold

LEMMA NoSpecialAfter ==
  ASSUME NEW s, NEW w, IsSequence(s), IsSequence(w),
         \A i \in DOMAIN s : s[i].ev # "special", \A i \in DOMAIN w : w[i].ev # "special"
  PROVE  \A i \in DOMAIN (s \o w) : (s \o w)[i].ev # "special"
<1>0. /\ Len(s) \in Nat /\ Len(w) \in Nat
      /\ DOMAIN s = 1..Len(s) /\ DOMAIN w = 1..Len(w) /\ DOMAIN (s \o w) = 1..(Len(s) + Len(w))
      /\ \A i \in 1..Len(s) : (s \o w)[i] = s[i]
      /\ \A i \in 1..Len(w) : (s \o w)[Len(s) + i] = w[i]
  BY Concatenation
<1> SUFFICES ASSUME NEW i \in DOMAIN (s \o w) PROVE (s \o w)[i].ev # "special"
  OBVIOUS
<1>1. CASE i <= Len(s)
  BY <1>0, <1>1
<1>2. CASE i > Len(s)
  <2>1. i - Len(s) \in 1..Len(w) /\ i = Len(s) + (i - Len(s))
    BY <1>0, <1>2
  <2> QED
    BY <1>0, <2>1
<1> QED
  BY <1>0, <1>1, <1>2

LEMMA ErrorAfter ==
  ASSUME NEW s, IsSequence(s), \A i \in DOMAIN s : s[i].ev # "special", NEW k, NEW of
  PROVE  ErrorTold(s \o <<SpecialEv(k, "Error", of)>>) /\ ~ErrorTold(s \o <<>>)
<1>1. IsSequence(<<SpecialEv(k, "Error", of)>>) /\ IsSequence(<<>>)
  BY Tuples
<1>2. /\ Len(s) \in Nat
      /\ DOMAIN (s \o <<SpecialEv(k, "Error", of)>>) = 1..(Len(s) + 1)
      /\ (s \o <<SpecialEv(k, "Error", of)>>)[Len(s) + 1] = SpecialEv(k, "Error", of)
  BY <1>1, Concatenation
<1>3. Len(s) + 1 \in DOMAIN (s \o <<SpecialEv(k, "Error", of)>>)
  BY <1>2
<1>4. ErrorTold(s \o <<SpecialEv(k, "Error", of)>>)
  BY <1>2, <1>3 DEF ErrorTold, SpecialEv
<1>5. \A i \in DOMAIN (s \o <<>>) : (s \o <<>>)[i].ev # "special"
  BY <1>1, NoSpecialAfter
<1> QED
  BY <1>4, <1>5 DEF ErrorTold

LEMMA NextPanic == PhasesInv /\ ProgramKept /\ CallsAreOpen /\ PanicIsTold /\ [Next]_recorderVars => PanicIsTold'
<1> SUFFICES ASSUME PhasesInv, ProgramKept, CallsAreOpen, PanicIsTold, [Next]_recorderVars
             PROVE  PanicIsTold'
  OBVIOUS
<1>0. command' = command /\ panicked' = panicked /\ IsSequence(out)
  BY ProgramStays DEF CallsAreOpen
<1> SUFFICES ASSUME command = "record" PROVE PanicIsTold'
  BY <1>0 DEF PanicIsTold
<1>1. CASE record
  <2>0. at \notin {"close", "end"}
    BY <1>1 DEF record, read_to_string, Compile, StartProbe, ProbeStep, Run, OpenRecording, Derive, CallRoot, WalkRoot,
           LeaveRoot, TellPanic
  <2>k. \A i \in DOMAIN out : out[i].ev # "special"
    BY <2>0 DEF PanicIsTold
  <2>p. outcome # "ok"
    BY <2>0 DEF PhasesInv, OutcomeByPhase
  <2>1. CASE PlainStep
    <3>1. at' # "close" /\ outcome' # "ok"
      BY <2>0, <2>1 DEF PlainStep
    <3>2. CASE out' = out
      BY <2>k, <3>1, <3>2 DEF PanicIsTold
    <3>3. CASE \E w : Plain(w) /\ out' = out \o w
      <4>1. PICK w : Plain(w) /\ out' = out \o w
        BY <3>3
      <4>2. \A i \in DOMAIN w : w[i].ev # "special"
        BY <4>1 DEF Plain
      <4>3. \A i \in DOMAIN (out \o w) : (out \o w)[i].ev # "special"
        BY <1>0, <2>k, <4>1, <4>2, NoSpecialAfter DEF Plain
      <4> QED
        BY <3>1, <4>1, <4>3 DEF PanicIsTold
    <3> QED
      BY <2>1, <3>2, <3>3 DEF PlainStep
  <2>2. CASE at = "derive" /\ at' = "walk" /\ outcome' = outcome /\ out' = out \o <<CallEv(0, Root, <<>>)>>
    <3>1. \A i \in DOMAIN (out \o <<CallEv(0, Root, <<>>)>>) : (out \o <<CallEv(0, Root, <<>>)>>)[i].ev # "special"
      BY <1>0, <2>k, Tuples, NoSpecialAfter DEF CallEv
    <3> QED
      BY <2>2, <2>p, <3>1 DEF PanicIsTold
  <2>3. CASE at = "walk" /\ at' = "panic" /\ outcome' = outcome /\ \E v : out' = out \o <<ReturnEv(line, v)>>
    <3>1. PICK v : out' = out \o <<ReturnEv(line, v)>>
      BY <2>3
    <3>2. \A i \in DOMAIN (out \o <<ReturnEv(line, v)>>) : (out \o <<ReturnEv(line, v)>>)[i].ev # "special"
      BY <1>0, <2>k, Tuples, NoSpecialAfter DEF ReturnEv
    <3> QED
      BY <2>3, <2>p, <3>1, <3>2 DEF PanicIsTold
  <2>4. CASE /\ at = "panic" /\ at' = "close" /\ outcome' = outcome
             /\ out' = out \o (IF panicked THEN <<SpecialEv(line, "Error", "CairoPanic")>> ELSE <<>>)
    <3>1. panicked <=> ErrorTold(out')
      BY <1>0, <2>4, <2>k, ErrorAfter
    <3> QED
      BY <1>0, <2>4, <3>1 DEF PanicIsTold
  <2> QED
    BY <1>1, <2>1, <2>2, <2>3, <2>4, RecordIsRecordStep DEF RecordStep
<1>2. CASE trace_starknet \/ replay \/ Environment
  BY <1>2 DEF trace_starknet, replay, Environment
<1>3. CASE Locate \/ CheckDisabled \/ MakeFolder
  <2>1. out' = out /\ at \notin {"close", "end"}
    BY <1>3 DEF Locate, CheckDisabled, MakeFolder, create_dir_all, Fail, Aside
  <2>2. at' # "close" /\ ~(outcome' = "ok" /\ ~disabled')
    <3> USE DEF Goto, Finish, Fail
    <3>1. outcome # "ok"
      BY <2>1 DEF PhasesInv, OutcomeByPhase
    <3>2. CASE Locate \/ MakeFolder
      BY <3>1, <3>2 DEF Locate, MakeFolder
    <3>3. CASE CheckDisabled
      BY <3>1, <3>3 DEF CheckDisabled, recording_disabled
    <3> QED
      BY <1>3, <3>2, <3>3
  <2> QED
    BY <2>1, <2>2 DEF PanicIsTold
<1>4. CASE CloseBundleFiles
  <2>1. at = "close" /\ out' = out /\ at' \in {"close", "end"}
    BY <1>4 DEF CloseBundleFiles, Close, Finish, Fail, Stay, Aside
  <2> QED
    BY <1>0, <2>1 DEF PanicIsTold
<1>5. CASE UNCHANGED recorderVars
  <2>1. UNCHANGED <<out, at, outcome, disabled>>
    BY <1>5 DEF recorderVars, bundleVars
  <2> QED
    BY <1>0, <2>1 DEF PanicIsTold
<1> QED
  BY <1>1, <1>2, <1>3, <1>4, <1>5 DEF Next, main

-----------------------------------------------------------------------------
RecorderInv ==
  /\ PhasesInv
  /\ ProgramKept
  /\ TableIsTheTexts
  /\ OverflowHasItsLoop
  /\ MainIsRun
  /\ ReplayTyped
  /\ CallsAreOpen
  /\ PanicIsTold

LEMMA InitRecorder == Init => RecorderInv
<1> SUFFICES ASSUME Init PROVE RecorderInv
  OBVIOUS
<1>1. TableIsTheTexts /\ OverflowHasItsLoop
  BY DEF Init, BundleInit, TableIsTheTexts, OverflowHasItsLoop
<1>2. MainIsRun
  <2>1. /\ command = "record" => ran = NoFunction /\ seen = NoFunction /\ shown = NoFunction
        /\ at = "locate"
    BY DEF Init, RecordInit, BundleInit
  <2> QED
    BY <2>1 DEF MainIsRun, Early, Preparing, Writing
<1> QED
  BY <1>1, <1>2, InitPhases, InitProgram, InitReplay, InitCalls, InitPanic DEF RecorderInv

LEMMA NextRecorder == RecorderInv /\ [Next]_recorderVars => RecorderInv'
BY NextPhases, NextProgram, NextTable, NextOverflow, NextMain, NextReplay, NextCalls, NextPanic DEF RecorderInv

LEMMA RecorderIsSafe == RecorderInv => OutcomeIsTheDisks
<1> SUFFICES ASSUME RecorderInv PROVE OutcomeIsTheDisks
  OBVIOUS
<1>1. ASSUME outcome = "ok" /\ ~disabled
      PROVE  /\ disk = "closed" /\ CallsReturned
             /\ command = "record" => table \in {line_lengths(program.text), <<>>}
             /\ command = "record" =>
                  (panicked <=> \E i \in DOMAIN out : out[i].ev = "special" /\ out[i].kind = "Error")
  <2>1. disk = "closed" /\ at = "end"
    BY <1>1 DEF RecorderInv, PhasesInv, OutcomeByPhase
  <2>2. OpenCalls = 0
    <3>1. command # "record" => stack = <<>>
      BY <2>1 DEF RecorderInv, ReplayTyped
    <3> QED
      BY <2>1, <3>1 DEF OpenCalls
  <2>3. CallsReturned
    <3>1. Count(out, "return") \in Nat /\ Count(out, "call") = Count(out, "return") + 0
      BY <2>2, CountConcatenation DEF RecorderInv, CallsAreOpen
    <3>2. Count(out, "call") = Count(out, "return")
      BY <3>1
    <3> QED
      BY <3>2 DEF CallsReturned, Count
  <2>4. command = "record" => table \in {line_lengths(program.text), <<>>}
    BY <2>1 DEF RecorderInv, TableIsTheTexts
  <2>5. command = "record" =>
          (panicked <=> \E i \in DOMAIN out : out[i].ev = "special" /\ out[i].kind = "Error")
    BY <1>1 DEF RecorderInv, PanicIsTold, ErrorTold
  <2> QED
    BY <2>1, <2>3, <2>4, <2>5
<1>2. disabled => disk = "nothing"
  BY DEF RecorderInv, PhasesInv, DisabledByPhase
<1>3. disk = "closed" => outcome \in {"running", "ok"}
  BY DEF RecorderInv, PhasesInv, OutcomeByPhase
<1>4. outcome = "overflow" => EmptyLoop
  BY DEF RecorderInv, OverflowHasItsLoop
<1>5. command = "record" /\ OneMain => {ran, seen} \subseteq {"main", NoFunction} /\ (shown = NoFunction \/ shown = ran)
  BY DEF RecorderInv, MainIsRun
<1> QED
  BY <1>1, <1>2, <1>3, <1>4, <1>5 DEF OutcomeIsTheDisks, EmptyLoop, OneMain

(***************************************************************************)
(* The exit code tells what is on disk (main.rs record, trace-starknet and *)
(* replay), for every program, trace file and answer: a command that ends  *)
(* well leaves a closed bundle with every call returned and, of a program, *)
(* its panic and its lines; one that fails leaves none.                    *)
(***************************************************************************)
THEOREM OutcomeIsAlwaysTheDisks == Spec => []OutcomeIsTheDisks
<1>1. Spec => []RecorderInv
  BY InitRecorder, NextRecorder, PTL DEF Spec
<1>2. RecorderInv => OutcomeIsTheDisks
  BY RecorderIsSafe
<1> QED
  BY <1>1, <1>2, PTL

-----------------------------------------------------------------------------
(***************************************************************************)
(* The entries of a trace file.  What is written of one is a step, then    *)
(* its frame and its special event, if it has them.                        *)
(***************************************************************************)
LEMMA SuffixByReverse ==
  ASSUME NEW s, NEW t, NEW r, NEW u,
         Reverse(s) = r, Reverse(t) = u, Len(r) \in Nat, r \in Seq(ToSet(r)), Len(r) <= Len(u),
         \A i \in 1..Len(r) : u[i] = r[i]
  PROVE  IsSuffix(s, t)
<1>1. \A i \in 1..Len(r) : r[i] \in ToSet(r) /\ u[i] \in ToSet(r)
  BY DEF ToSet
<1>2. /\ SubSeq(r, 1, Len(r)) \in Seq(ToSet(r))
      /\ Len(SubSeq(r, 1, Len(r))) = IF 1 <= Len(r) THEN Len(r) - 1 + 1 ELSE 0
      /\ \A i \in 1..(Len(r) - 1 + 1) : SubSeq(r, 1, Len(r))[i] = r[1 + i - 1]
  BY <1>1, SubSeqProperties
<1>3. /\ SubSeq(u, 1, Len(r)) \in Seq(ToSet(r))
      /\ Len(SubSeq(u, 1, Len(r))) = IF 1 <= Len(r) THEN Len(r) - 1 + 1 ELSE 0
      /\ \A i \in 1..(Len(r) - 1 + 1) : SubSeq(u, 1, Len(r))[i] = u[1 + i - 1]
  BY <1>1, SubSeqProperties
<1>4. SubSeq(r, 1, Len(r)) = SubSeq(u, 1, Len(r))
  <2>1. Len(SubSeq(r, 1, Len(r))) = Len(r) /\ Len(SubSeq(u, 1, Len(r))) = Len(r)
    BY <1>2, <1>3
  <2>2. \A i \in 1..Len(r) : SubSeq(r, 1, Len(r))[i] = SubSeq(u, 1, Len(r))[i]
    BY <1>2, <1>3
  <2> QED
    BY <1>2, <1>3, <2>1, <2>2, SeqEqual
<1> QED
  BY <1>4 DEF IsSuffix, IsPrefix

LEMMA NameSuffixes ==
  ASSUME NEW x, NEW y, NEW z
  PROVE  /\ IsSuffix(<<z>>, <<z>>) /\ IsSuffix(<<z>>, <<y, z>>)
         /\ IsSuffix(<<y, z>>, <<y, z>>) /\ IsSuffix(<<y, z>>, <<x, y, z>>)
<1>1. /\ Reverse(<<z>>) = <<z>> /\ Reverse(<<y, z>>) = <<z, y>> /\ Reverse(<<x, y, z>>) = <<z, y, x>>
  BY DEF Reverse
<1>2. /\ <<z>> \in Seq(ToSet(<<z>>)) /\ <<z, y>> \in Seq(ToSet(<<z, y>>))
      /\ Len(<<z>>) = 1 /\ Len(<<z, y>>) = 2 /\ Len(<<z, y, x>>) = 3
  BY DEF ToSet
<1>3. /\ \A i \in 1..1 : <<z, y>>[i] = <<z>>[i]
      /\ \A i \in 1..2 : <<z, y, x>>[i] = <<z, y>>[i]
  OBVIOUS
<1>4. IsSuffix(<<z>>, <<z>>) /\ IsSuffix(<<z>>, <<y, z>>)
  BY <1>1, <1>2, <1>3, SuffixByReverse
<1>5. \A i \in 1..Len(<<z, y>>) : <<z, y>>[i] = <<z, y>>[i] /\ <<z, y, x>>[i] = <<z, y>>[i]
  BY <1>2, <1>3
<1>6. Len(<<z, y>>) \in Nat /\ Len(<<z, y>>) <= Len(<<z, y>>) /\ Len(<<z, y>>) <= Len(<<z, y, x>>)
  BY <1>2
<1>7. IsSuffix(<<y, z>>, <<y, z>>)
  BY <1>1, <1>2, <1>5, <1>6, SuffixByReverse
<1>8. IsSuffix(<<y, z>>, <<x, y, z>>)
  BY <1>1, <1>2, <1>5, <1>6, SuffixByReverse
<1> QED
  BY <1>4, <1>7, <1>8

LEMMA RangeOfConcatenation ==
  ASSUME NEW s, NEW t, IsSequence(s), IsSequence(t)
  PROVE  Range(s \o t) = Range(s) \cup Range(t)
<1>0. /\ Len(s) \in Nat /\ Len(t) \in Nat
      /\ DOMAIN s = 1..Len(s) /\ DOMAIN t = 1..Len(t) /\ DOMAIN (s \o t) = 1..(Len(s) + Len(t))
      /\ \A i \in 1..Len(s) : (s \o t)[i] = s[i]
      /\ \A i \in 1..Len(t) : (s \o t)[Len(s) + i] = t[i]
  BY Concatenation
<1>1. ASSUME NEW v \in Range(s \o t) PROVE v \in Range(s) \cup Range(t)
  <2>1. PICK i \in DOMAIN (s \o t) : v = (s \o t)[i]
    BY DEF Range
  <2>2. CASE i <= Len(s)
    BY <1>0, <2>1, <2>2 DEF Range
  <2>3. CASE i > Len(s)
    <3>1. i - Len(s) \in 1..Len(t) /\ i = Len(s) + (i - Len(s))
      BY <1>0, <2>3
    <3> QED
      BY <1>0, <2>1, <3>1 DEF Range
  <2> QED
    BY <1>0, <2>2, <2>3
<1>2. ASSUME NEW v \in Range(s) PROVE v \in Range(s \o t)
  BY <1>0 DEF Range
<1>3. ASSUME NEW v \in Range(t) PROVE v \in Range(s \o t)
  <2>1. PICK i \in DOMAIN t : v = t[i]
    BY DEF Range
  <2>2. Len(s) + i \in DOMAIN (s \o t) /\ (s \o t)[Len(s) + i] = v
    BY <1>0, <2>1
  <2> QED
    BY <2>2 DEF Range
<1> QED
  BY <1>1, <1>2, <1>3

(* Every variable of the older conversion is an argument.                  *)
LEMMA VariablesAreArguments ==
  ASSUME NEW e, e.kind \in Kinds \ {"event", "syscall"}, e.felts \in Nat
  PROVE  Range(Variables(e)) \subseteq Range(Arguments(e))
<1>1. CASE e.kind \in {"storage_read", "storage_write"}
  BY <1>1 DEF Variables, Arguments, Range
<1>2. CASE e.kind = "contract_call"
  <2> DEFINE base == <<"caller", "callee", "selector">>
             data == [i \in 1..e.felts |-> "calldata"]
             self == IF e.self = NoName THEN <<>> ELSE <<"self_kind">>
             disp == IF e.dispatcher = NoName THEN <<>> ELSE <<"dispatcher_trait">>
             more == IF e.felts = 0 THEN <<>> ELSE <<"calldata">>
  <2>1. IsSequence(base) /\ IsSequence(self) /\ IsSequence(disp) /\ IsSequence(more)
    <3>1. base \in Seq({"caller", "callee", "selector"})
      OBVIOUS
    <3> QED
      BY <3>1, AnyIsSequence, Tuples
  <2>2. IsSequence(data)
    <3>1. data \in [1..e.felts -> {"calldata"}]
      OBVIOUS
    <3>2. data \in Seq({"calldata"})
      BY <3>1, SeqDef
    <3> QED
      BY <3>2, AnyIsSequence
  <2>3. Variables(e) = base \o more /\ Arguments(e) = ((base \o data) \o self) \o disp
    BY <1>2 DEF Variables, Arguments
  <2>4. Range(more) \subseteq Range(data)
    <3>1. CASE e.felts = 0
      BY <3>1 DEF Range
    <3>2. CASE e.felts # 0
      <4>1. 1 \in 1..e.felts /\ data[1] = "calldata"
        BY <3>2
      <4> QED
        BY <3>2, <4>1 DEF Range
    <3> QED
      BY <3>1, <3>2
  <2> HIDE DEF base, data, self, disp, more
  <2>5. Range(base \o more) = Range(base) \cup Range(more)
    BY <2>1, RangeOfConcatenation
  <2>6. IsSequence(base \o data) /\ IsSequence((base \o data) \o self)
    BY <2>1, <2>2, Concatenation
  <2>7. Range(((base \o data) \o self) \o disp) = ((Range(base) \cup Range(data)) \cup Range(self)) \cup Range(disp)
    <3>1. Range(base \o data) = Range(base) \cup Range(data)
      BY <2>1, <2>2, RangeOfConcatenation
    <3>2. Range((base \o data) \o self) = Range(base \o data) \cup Range(self)
      BY <2>1, <2>6, RangeOfConcatenation
    <3>3. Range(((base \o data) \o self) \o disp) = Range((base \o data) \o self) \cup Range(disp)
      BY <2>1, <2>6, RangeOfConcatenation
    <3> QED
      BY <3>1, <3>2, <3>3
  <2> QED
    BY <2>3, <2>4, <2>5, <2>7
<1> QED
  BY <1>1, <1>2 DEF Kinds

(* ToldAs of a bundle s, of the entries es and a file f.                   *)
At(s, l, ev) == {i \in DOMAIN s : s[i].ev = ev /\ s[i].line = l}

NamedAfter(e, f, es, name) == e.kind = "syscall" /\ f \in Files /\ f.entries = es => name = FunctionName(e, f.contract)

ToldIn(s, es, f, l, i) ==
  LET e == es[l]  conv == convert_snforge_trace(es)[l] IN
  /\ At(s, l, "step") = {i}
  /\ IF e.kind = "event" THEN At(s, l, "call") = {} /\ At(s, l, "special") = {i + 1}
     ELSE /\ At(s, l, "call") = {i + 1} /\ At(s, l, "return") = {i + 2}
          /\ IsSuffix(conv.name, s[i + 1].name)
          /\ e.kind # "syscall" => Range(conv.variables) \subseteq Range(s[i + 1].args)
          /\ e.kind = "syscall" => SameValue(e.type, conv.text, s[i + 2].value)
          /\ NamedAfter(e, f, es, s[i + 1].name)

LEMMA ToldAsIsToldIn ==
  ASSUME NEW l, NEW i
  PROVE  ToldAs(l, i) <=> ToldIn(out, entries, file, l, i)
<1>1. \A ev : EventsAt(l, ev) = At(out, l, ev)
  BY DEF EventsAt, At
<1> QED
  BY <1>1 DEF ToldAs, ToldIn, NamedAfter

LEMMA AtAfter ==
  ASSUME NEW s, NEW w, IsSequence(s), IsSequence(w), NEW l, NEW ev
  PROVE  /\ (\A j \in DOMAIN w : w[j].line # l) => At(s \o w, l, ev) = At(s, l, ev)
         /\ (\A j \in DOMAIN s : s[j].line # l) => At(s \o w, l, ev) = {Len(s) + j : j \in At(w, l, ev)}
<1>0. /\ Len(s) \in Nat /\ Len(w) \in Nat
      /\ DOMAIN s = 1..Len(s) /\ DOMAIN w = 1..Len(w) /\ DOMAIN (s \o w) = 1..(Len(s) + Len(w))
      /\ \A i \in 1..Len(s) : (s \o w)[i] = s[i]
      /\ \A i \in 1..Len(w) : (s \o w)[Len(s) + i] = w[i]
  BY Concatenation
<1>1. \A i \in 1..(Len(s) + Len(w)) : i \in 1..Len(s) \/ \E j \in 1..Len(w) : i = Len(s) + j
  <2> SUFFICES ASSUME NEW i \in 1..(Len(s) + Len(w)), i > Len(s)
               PROVE  \E j \in 1..Len(w) : i = Len(s) + j
    BY <1>0
  <2>1. i - Len(s) \in 1..Len(w) /\ i = Len(s) + (i - Len(s))
    BY <1>0
  <2> QED
    BY <2>1
<1>2. ASSUME \A j \in DOMAIN w : w[j].line # l
      PROVE  At(s \o w, l, ev) = At(s, l, ev)
  <2>1. ASSUME NEW i \in At(s \o w, l, ev) PROVE i \in At(s, l, ev)
    <3>1. i \in 1..(Len(s) + Len(w)) /\ (s \o w)[i].line = l /\ (s \o w)[i].ev = ev
      BY <1>0 DEF At
    <3>2. CASE i \in 1..Len(s)
      BY <1>0, <3>1, <3>2 DEF At
    <3>3. CASE \E j \in 1..Len(w) : i = Len(s) + j
      BY <1>0, <1>2, <3>1, <3>3
    <3> QED
      BY <1>1, <3>1, <3>2, <3>3
  <2>2. \A i \in At(s, l, ev) : i \in At(s \o w, l, ev)
    BY <1>0 DEF At
  <2> QED
    BY <2>1, <2>2
<1>3. ASSUME \A j \in DOMAIN s : s[j].line # l
      PROVE  At(s \o w, l, ev) = {Len(s) + j : j \in At(w, l, ev)}
  <2>1. \A i \in At(s \o w, l, ev) : i \in {Len(s) + j : j \in At(w, l, ev)}
    BY <1>0, <1>1, <1>3 DEF At
  <2>2. \A j \in At(w, l, ev) : Len(s) + j \in At(s \o w, l, ev)
    <3> SUFFICES ASSUME NEW j \in At(w, l, ev) PROVE Len(s) + j \in At(s \o w, l, ev)
      OBVIOUS
    <3>1. j \in 1..Len(w) /\ w[j].ev = ev /\ w[j].line = l
      BY <1>0 DEF At
    <3>2. Len(s) + j \in 1..(Len(s) + Len(w)) /\ (s \o w)[Len(s) + j] = w[j]
      BY <1>0, <3>1
    <3> QED
      BY <1>0, <3>1, <3>2 DEF At
  <2> QED
    BY <2>1, <2>2
<1> QED
  BY <1>2, <1>3

LEMMA StaysTold ==
  ASSUME NEW s, NEW w, IsSequence(s), IsSequence(w), NEW es, NEW f, NEW l, NEW i,
         ToldIn(s, es, f, l, i), \A j \in DOMAIN w : w[j].line # l
  PROVE  ToldIn(s \o w, es, f, l, i)
<1>1. \A ev : At(s \o w, l, ev) = At(s, l, ev)
  BY AtAfter
<1>2. \A ev, j : j \in At(s, l, ev) => (s \o w)[j] = s[j]
  <2>1. DOMAIN s = 1..Len(s) /\ \A j \in 1..Len(s) : (s \o w)[j] = s[j]
    BY Concatenation
  <2> QED
    BY <2>1 DEF At
<1>3. CASE es[l].kind = "event"
  BY <1>1, <1>3 DEF ToldIn
<1>4. CASE es[l].kind # "event"
  <2>1. i + 1 \in At(s, l, "call") /\ i + 2 \in At(s, l, "return")
    BY <1>4 DEF ToldIn
  <2>2. (s \o w)[i + 1] = s[i + 1] /\ (s \o w)[i + 2] = s[i + 2]
    BY <1>2, <2>1
  <2> QED
    BY <1>1, <1>4, <2>2 DEF ToldIn
<1> QED
  BY <1>3, <1>4

LEMMA FewElements ==
  ASSUME NEW a, NEW b, NEW c, NEW d
  PROVE  /\ LET w == (<<a>> \o <<>>) \o <<d>>
            IN  IsSequence(w) /\ DOMAIN w = 1..2 /\ w[1] = a /\ w[2] = d
         /\ LET w == (<<a>> \o <<b, c>>) \o <<>>
            IN  IsSequence(w) /\ DOMAIN w = 1..3 /\ w[1] = a /\ w[2] = b /\ w[3] = c
         /\ LET w == (<<a>> \o <<b, c>>) \o <<d>>
            IN  IsSequence(w) /\ DOMAIN w = 1..4 /\ w[1] = a /\ w[2] = b /\ w[3] = c /\ w[4] = d
<1>1. PICK A, D, BC, E : A = <<a>> /\ D = <<d>> /\ BC = <<b, c>> /\ E = <<>>
  OBVIOUS
<1>2. /\ Len(A) = 1 /\ Len(D) = 1 /\ Len(BC) = 2 /\ Len(E) = 0
      /\ A[1] = a /\ D[1] = d /\ BC[1] = b /\ BC[2] = c
  BY <1>1
<1>3. IsSequence(A) /\ IsSequence(D) /\ IsSequence(BC) /\ IsSequence(E)
  BY <1>1, Tuples
<1>4. /\ IsSequence(A \o E) /\ Len(A \o E) = 1 /\ (A \o E)[1] = a
      /\ IsSequence(A \o BC) /\ Len(A \o BC) = 3
      /\ (A \o BC)[1] = a /\ (A \o BC)[1 + 1] = b /\ (A \o BC)[1 + 2] = c
  <2>1. IsSequence(A \o E) /\ Len(A \o E) = Len(A) + Len(E) /\ \A i \in 1..Len(A) : (A \o E)[i] = A[i]
    BY <1>3, Concatenation
  <2>2. /\ IsSequence(A \o BC) /\ Len(A \o BC) = Len(A) + Len(BC)
        /\ \A i \in 1..Len(A) : (A \o BC)[i] = A[i]
        /\ \A i \in 1..Len(BC) : (A \o BC)[Len(A) + i] = BC[i]
    BY <1>3, Concatenation
  <2>3. 1 \in 1..Len(A) /\ 1 \in 1..Len(BC) /\ 2 \in 1..Len(BC)
    BY <1>2
  <2> QED
    BY <1>2, <2>1, <2>2, <2>3
<1>5. PICK u, v : u = A \o E /\ v = A \o BC
  OBVIOUS
<1>6. /\ IsSequence(u) /\ Len(u) = 1 /\ u[1] = a
      /\ IsSequence(v) /\ Len(v) = 3 /\ v[1] = a /\ v[2] = b /\ v[3] = c
  BY <1>4, <1>5
<1>s. IsSequence(u) /\ IsSequence(v)
  BY <1>6
<1>7. IsSequence(u \o D) /\ DOMAIN (u \o D) = 1..2 /\ (u \o D)[1] = a /\ (u \o D)[2] = d
  <2>1. /\ IsSequence(u \o D) /\ DOMAIN (u \o D) = 1..(Len(u) + Len(D))
        /\ \A i \in 1..Len(u) : (u \o D)[i] = u[i]
        /\ \A i \in 1..Len(D) : (u \o D)[Len(u) + i] = D[i]
    BY <1>3, <1>s, Concatenation
  <2>2. 1 \in 1..Len(u) /\ 1 \in 1..Len(D) /\ Len(u) + 1 = 2 /\ Len(u) + Len(D) = 2
    BY <1>2, <1>6
  <2> QED
    BY <1>2, <1>6, <2>1, <2>2
<1>8. IsSequence(v \o E) /\ DOMAIN (v \o E) = 1..3 /\ (v \o E)[1] = a /\ (v \o E)[2] = b /\ (v \o E)[3] = c
  <2>1. /\ IsSequence(v \o E) /\ DOMAIN (v \o E) = 1..(Len(v) + Len(E))
        /\ \A i \in 1..Len(v) : (v \o E)[i] = v[i]
    BY <1>3, <1>s, Concatenation
  <2>2. 1 \in 1..Len(v) /\ 2 \in 1..Len(v) /\ 3 \in 1..Len(v) /\ Len(v) + Len(E) = 3
    BY <1>2, <1>6
  <2> QED
    BY <1>6, <2>1, <2>2
<1>9. /\ IsSequence(v \o D) /\ DOMAIN (v \o D) = 1..4
      /\ (v \o D)[1] = a /\ (v \o D)[2] = b /\ (v \o D)[3] = c /\ (v \o D)[4] = d
  <2>1. /\ IsSequence(v \o D) /\ DOMAIN (v \o D) = 1..(Len(v) + Len(D))
        /\ \A i \in 1..Len(v) : (v \o D)[i] = v[i]
        /\ \A i \in 1..Len(D) : (v \o D)[Len(v) + i] = D[i]
    BY <1>3, <1>s, Concatenation
  <2>2. /\ 1 \in 1..Len(v) /\ 2 \in 1..Len(v) /\ 3 \in 1..Len(v) /\ Len(v) + Len(D) = 4
        /\ 1 \in 1..Len(D) /\ Len(v) + 1 = 4
    BY <1>2, <1>6
  <2> QED
    BY <1>2, <1>6, <2>1, <2>2
<1> QED
  BY <1>1, <1>5, <1>7, <1>8, <1>9

(* The events of an entry.                                                 *)
EntryEvents(e, k) == <<StepEv(k)>> \o Frame(e, k) \o Special(e, k)

LEMMA ShapeOfEntry ==
  ASSUME NEW e, NEW k, e.kind \in Kinds
  PROVE  LET w == EntryEvents(e, k) IN
         /\ IsSequence(w) /\ \A j \in DOMAIN w : w[j].line = k
         /\ At(w, k, "step") = {1}
         /\ e.kind = "event" => At(w, k, "call") = {} /\ At(w, k, "special") = {2}
         /\ e.kind # "event" => /\ At(w, k, "call") = {2} /\ At(w, k, "return") = {3}
                                /\ w[2] = CallEv(k, FunctionName(e, contract), Arguments(e))
                                /\ w[3] = ReturnEv(k, ReturnRecord(e))
<1> DEFINE w == EntryEvents(e, k)
<1>1. PICK a, b, c : /\ a = StepEv(k) /\ b = CallEv(k, FunctionName(e, contract), Arguments(e))
                     /\ c = ReturnEv(k, ReturnRecord(e))
  OBVIOUS
<1>2. PICK d : d = SpecialEv(k, SpecialKind[e.kind], e.contract)
  OBVIOUS
<1>0. /\ a.ev = "step" /\ b.ev = "call" /\ c.ev = "return" /\ d.ev = "special"
      /\ a.line = k /\ b.line = k /\ c.line = k /\ d.line = k
  BY <1>1, <1>2 DEF StepEv, CallEv, ReturnEv, SpecialEv
<1>3. Special(e, k) = IF e.kind \in {"storage_read", "storage_write", "event"} THEN <<d>> ELSE <<>>
  BY <1>2 DEF Special, SpecialKind
<1>7. w = (<<StepEv(k)>> \o Frame(e, k)) \o Special(e, k)
  BY DEF EntryEvents
<1> HIDE DEF w
<1>4. CASE e.kind = "event"
  <2>1. w = (<<a>> \o <<>>) \o <<d>>
    BY <1>1, <1>3, <1>4, <1>7 DEF Frame
  <2>2. IsSequence(w) /\ DOMAIN w = 1..2 /\ w[1] = a /\ w[2] = d
    BY <2>1, FewElements
  <2>3. \A j \in 1..2 : j = 1 \/ j = 2
    OBVIOUS
  <2> QED
    BY <1>0, <1>4, <2>2, <2>3 DEF At, w
<1>5. CASE e.kind \in {"storage_read", "storage_write"}
  <2>1. w = (<<a>> \o <<b, c>>) \o <<d>>
    BY <1>1, <1>3, <1>5, <1>7 DEF Frame
  <2>2. IsSequence(w) /\ DOMAIN w = 1..4 /\ w[1] = a /\ w[2] = b /\ w[3] = c /\ w[4] = d
    BY <2>1, FewElements
  <2>3. \A j \in 1..4 : j = 1 \/ j = 2 \/ j = 3 \/ j = 4
    OBVIOUS
  <2> QED
    BY <1>0, <1>1, <1>5, <2>2, <2>3 DEF At, w
<1>6. CASE e.kind \in {"contract_call", "syscall"}
  <2>1. w = (<<a>> \o <<b, c>>) \o <<>>
    BY <1>1, <1>3, <1>6, <1>7 DEF Frame
  <2>2. IsSequence(w) /\ DOMAIN w = 1..3 /\ w[1] = a /\ w[2] = b /\ w[3] = c
    BY <2>1, FewElements
  <2>3. \A j \in 1..3 : j = 1 \/ j = 2 \/ j = 3
    OBVIOUS
  <2> QED
    BY <1>0, <1>1, <1>6, <2>2, <2>3 DEF At, w
<1> QED
  BY <1>4, <1>5, <1>6 DEF Kinds

LEMMA NamesAgree ==
  ASSUME NEW e, NEW k, e.kind \in Kinds \ {"event"}
  PROVE  IsSuffix(Converted(e, k).name, FunctionName(e, contract))
<1>1. CASE e.kind = "contract_call"
  BY <1>1, NameSuffixes DEF Converted, FunctionName, OpName
<1>2. CASE e.kind \in {"storage_read", "storage_write"}
  BY <1>2, NameSuffixes DEF Converted, FunctionName, OpName
<1>3. CASE e.kind = "syscall"
  BY <1>3, NameSuffixes DEF Converted, FunctionName
<1> QED
  BY <1>1, <1>2, <1>3 DEF Kinds

LEMMA ValuesAgree ==
  ASSUME NEW e, NEW k, e.kind = "syscall"
  PROVE  SameValue(e.type, Converted(e, k).text, ReturnRecord(e))
<1>1. Converted(e, k).text = e.value
  BY DEF Converted
<1>2. CASE e.type = "u64"
  BY <1>1, <1>2 DEF SameValue, ReturnRecord
<1>3. CASE e.type = "bool"
  <2>1. ReturnRecord(e) = (e.value = 1)
    BY <1>3 DEF ReturnRecord
  <2> QED
    BY <1>1, <1>3, <2>1 DEF SameValue
<1>4. CASE e.type \notin {"u64", "bool"}
  BY <1>1, <1>4 DEF SameValue, ReturnRecord
<1> QED
  BY <1>2, <1>3, <1>4

LEMMA BecomesTold ==
  ASSUME NEW s, IsSequence(s), NEW es, NEW f, NEW l \in DOMAIN es, es[l].kind \in Kinds, es[l].felts \in Nat,
         \A j \in DOMAIN s : s[j].line # l,
         f \in Files => contract = f.contract
  PROVE  ToldIn(s \o EntryEvents(es[l], l), es, f, l, Len(s) + 1)
<1> DEFINE e == es[l]
           w == EntryEvents(e, l)
<1>1. /\ IsSequence(w)
      /\ At(w, l, "step") = {1}
      /\ e.kind = "event" => At(w, l, "call") = {} /\ At(w, l, "special") = {2}
      /\ e.kind # "event" => /\ At(w, l, "call") = {2} /\ At(w, l, "return") = {3}
                             /\ w[2] = CallEv(l, FunctionName(e, contract), Arguments(e))
                             /\ w[3] = ReturnEv(l, ReturnRecord(e))
  BY ShapeOfEntry
<1>2. convert_snforge_trace(es)[l] = Converted(e, l)
  BY DEF convert_snforge_trace
<1> HIDE DEF w
<1>3. \A ev : At(s \o w, l, ev) = {Len(s) + j : j \in At(w, l, ev)}
  BY <1>1, AtAfter
<1>4. /\ Len(s) \in Nat /\ DOMAIN w = 1..Len(w) /\ Len(w) \in Nat
      /\ \A j \in DOMAIN w : (s \o w)[Len(s) + j] = w[j]
  <2>1. /\ Len(s) \in Nat /\ Len(w) \in Nat /\ DOMAIN w = 1..Len(w)
        /\ \A j \in 1..Len(w) : (s \o w)[Len(s) + j] = w[j]
    BY <1>1, Concatenation
  <2> QED
    BY <2>1
<1>5. Len(s) + 1 + 1 = Len(s) + 2 /\ Len(s) + 1 + 2 = Len(s) + 3
  BY <1>4
<1>e. /\ {Len(s) + j : j \in {}} = {}
      /\ \A a : {Len(s) + j : j \in {a}} = {Len(s) + a}
  OBVIOUS
<1>6. At(s \o w, l, "step") = {Len(s) + 1}
  BY <1>1, <1>3, <1>e
<1>7. CASE e.kind = "event"
  <2>1. At(s \o w, l, "call") = {} /\ At(s \o w, l, "special") = {Len(s) + 1 + 1}
    BY <1>1, <1>3, <1>5, <1>7, <1>e
  <2> QED
    BY <1>6, <1>7, <2>1 DEF ToldIn, w
<1>8. CASE e.kind # "event"
  <2>1. At(s \o w, l, "call") = {Len(s) + 1 + 1} /\ At(s \o w, l, "return") = {Len(s) + 1 + 2}
    BY <1>1, <1>3, <1>5, <1>8, <1>e
  <2>2. 2 \in DOMAIN w /\ 3 \in DOMAIN w
    <3>1. 2 \in At(w, l, "call") /\ 3 \in At(w, l, "return")
      BY <1>1, <1>8
    <3> QED
      BY <3>1 DEF At
  <2>3. /\ (s \o w)[Len(s) + 1 + 1] = CallEv(l, FunctionName(e, contract), Arguments(e))
        /\ (s \o w)[Len(s) + 1 + 2] = ReturnEv(l, ReturnRecord(e))
    BY <1>1, <1>4, <1>5, <1>8, <2>2
  <2>4. IsSuffix(Converted(e, l).name, FunctionName(e, contract))
    BY <1>8, NamesAgree
  <2>5. e.kind # "syscall" => Range(Converted(e, l).variables) \subseteq Range(Arguments(e))
    <3>1. e.kind # "syscall" => Range(Variables(e)) \subseteq Range(Arguments(e))
      BY <1>8, VariablesAreArguments
    <3>2. Converted(e, l).variables = Variables(e)
      BY DEF Converted
    <3> QED
      BY <3>1, <3>2
  <2>6. e.kind = "syscall" => SameValue(e.type, Converted(e, l).text, ReturnRecord(e))
    BY ValuesAgree
  <2>7. NamedAfter(e, f, es, FunctionName(e, contract))
    BY DEF NamedAfter
  <2>8. /\ (s \o w)[Len(s) + 1 + 1].name = FunctionName(e, contract)
        /\ (s \o w)[Len(s) + 1 + 1].args = Arguments(e)
        /\ (s \o w)[Len(s) + 1 + 2].value = ReturnRecord(e)
    BY <2>3 DEF CallEv, ReturnEv
  <2> QED
    BY <1>2, <1>6, <1>8, <2>1, <2>4, <2>5, <2>6, <2>7, <2>8 DEF ToldIn, w
<1> QED
  BY <1>7, <1>8

(***************************************************************************)
(* The contract is the one of the file as it was read the second time, and *)
(* as it still is: nothing looks at it after the entries are written.      *)
(***************************************************************************)
EntriesInv ==
  /\ command # "trace_starknet" => entries = <<>> /\ written = 0
  /\ IsSequence(entries) /\ \A e \in ToSet(entries) : e.kind \in Kinds /\ e.felts \in Nat
  /\ written \in 0..Len(entries)
  /\ command = "trace_starknet" =>
       /\ file \in Files \cup {Unreadable}
       /\ at \notin {"entries", "close", "end"} => written = 0 /\ out = <<>>
       /\ at \in {"entries", "close"} \/ written > 0 =>
            contract = IF file = Unreadable THEN NoName ELSE file.contract
       /\ \A i \in DOMAIN out : out[i].line \in 1..written
       /\ \A l \in 1..written : \E i \in DOMAIN out : ToldIn(out, entries, file, l, i)

LEMMA InitEntries == Init => EntriesInv
<1> SUFFICES ASSUME Init PROVE EntriesInv
  OBVIOUS
<1>1. /\ entries = <<>> /\ written = 0 /\ at = "locate" /\ out = <<>>
      /\ command = "trace_starknet" => file \in Files \cup {Unreadable}
  BY DEF Init, BundleInit, SnforgeInit
<1>2. IsSequence(<<>>) /\ ToSet(<<>>) = {} /\ Len(<<>>) = 0
  <2>1. IsSequence(<<>>)
    BY Tuples
  <2>2. ToSet(<<>>) = {}
    BY DEF ToSet
  <2> QED
    BY <2>1, <2>2
<1>3. 1..0 = {} /\ 0 \in 0..0 /\ ~(0 > 0)
  OBVIOUS
<1>4. written \in 0..Len(entries) /\ IsSequence(entries) /\ \A e \in ToSet(entries) : FALSE
  BY <1>1, <1>2
<1>5. DOMAIN out = {} /\ 1..written = {} /\ ~(written > 0) /\ at \notin {"entries", "close"}
  BY <1>1, <1>3
<1> QED
  BY <1>1, <1>4, <1>5 DEF EntriesInv

LEMMA NextEntries == PhasesInv /\ CallsAreOpen /\ EntriesInv /\ [Next]_recorderVars => EntriesInv'
<1> SUFFICES ASSUME PhasesInv, CallsAreOpen, EntriesInv, [Next]_recorderVars
             PROVE  EntriesInv'
  OBVIOUS
<1>0. command' = command
  BY ProgramStays
<1>t. /\ IsSequence(entries) /\ \A e \in ToSet(entries) : e.kind \in Kinds /\ e.felts \in Nat
      /\ written \in 0..Len(entries)
  BY DEF EntriesInv
<1>1. CASE command # "trace_starknet"
  <2>1. UNCHANGED <<entries, written>>
    <3>1. CASE record \/ replay \/ CloseBundleFiles \/ trace_starknet \/ Environment
      BY <1>1, <3>1 DEF record, replay, CloseBundleFiles, trace_starknet, Environment, snforgeVars
    <3>2. CASE Locate \/ CheckDisabled \/ MakeFolder
      BY <3>2 DEF Locate, CheckDisabled, MakeFolder, snforgeVars
    <3>3. CASE UNCHANGED recorderVars
      BY <3>3 DEF recorderVars, snforgeVars
    <3> QED
      BY <3>1, <3>2, <3>3 DEF Next, main
  <2> QED
    BY <1>0, <1>1, <1>t, <2>1 DEF EntriesInv
<1>2. CASE command = "trace_starknet"
  <2>k. /\ file \in Files \cup {Unreadable}
        /\ at \notin {"entries", "close", "end"} => written = 0 /\ out = <<>>
        /\ at \in {"entries", "close"} \/ written > 0 =>
             contract = IF file = Unreadable THEN NoName ELSE file.contract
        /\ \A i \in DOMAIN out : out[i].line \in 1..written
        /\ \A l \in 1..written : \E i \in DOMAIN out : ToldIn(out, entries, file, l, i)
    BY <1>2 DEF EntriesInv
  <2>e. ASSUME written' = 0, out' = <<>>
        PROVE  /\ written' > 0 => contract' = IF file' = Unreadable THEN NoName ELSE file'.contract
               /\ \A i \in DOMAIN out' : out'[i].line \in 1..written'
               /\ \A l \in 1..written' : \E i \in DOMAIN out' : ToldIn(out', entries', file', l, i)
    <3>1. ~(written' > 0) /\ DOMAIN out' = {} /\ 1..written' = {}
      BY <2>e
    <3> QED
      BY <3>1
  <2> USE DEF Goto, Stay, Finish, Aside, Fail
  <2>1. CASE WriteEntry
    <3> DEFINE l == written + 1
               w == EntryEvents(entries[l], l)
    <3>1. /\ at = "entries" /\ at' = at /\ UNCHANGED <<file, entries, contract>>
          /\ written < Len(entries) /\ written' = l
      BY <2>1 DEF WriteEntry
    <3>2. out' = out \o w
      BY <2>1 DEF WriteEntry, Write, EntryEvents
    <3>3. DOMAIN entries = 1..Len(entries) /\ Len(entries) \in Nat
      BY <1>t DEF IsSequence
    <3>4. l \in DOMAIN entries /\ l \in Nat /\ written \in Nat /\ 1..l = 1..written \cup {l} /\ l \notin 1..written
      BY <1>t, <3>1, <3>3
    <3>5. entries[l].kind \in Kinds /\ entries[l].felts \in Nat
      <4>1. entries[l] \in ToSet(entries)
        BY <3>4 DEF ToSet
      <4> QED
        BY <1>t, <4>1
    <3>6. \A j \in DOMAIN out : out[j].line # l
      BY <2>k, <3>4
    <3>7. file \in Files => contract = file.contract
      BY <2>k, <3>1, FilesAssumption
    <3>8. IsSequence(out) /\ IsSequence(w) /\ \A j \in DOMAIN w : w[j].line = l
      BY <3>5, ShapeOfEntry DEF CallsAreOpen
    <3> HIDE DEF w
    <3>9. ToldIn(out \o w, entries, file, l, Len(out) + 1)
      BY <3>4, <3>5, <3>6, <3>7, <3>8, BecomesTold DEF w
    <3>10. /\ Len(out) \in Nat /\ DOMAIN out = 1..Len(out) /\ DOMAIN w = 1..Len(w) /\ Len(w) \in Nat
           /\ DOMAIN (out \o w) = 1..(Len(out) + Len(w))
           /\ \A i \in 1..Len(out) : (out \o w)[i] = out[i]
           /\ \A i \in 1..Len(w) : (out \o w)[Len(out) + i] = w[i]
      BY <3>8, Concatenation
    <3>11. Len(out) + 1 \in DOMAIN (out \o w)
      <4>1. Len(out) + 1 \in At(out \o w, l, "step")
        BY <3>9 DEF ToldIn
      <4> QED
        BY <4>1 DEF At
    <3>12. ASSUME NEW m \in 1..written
           PROVE  \E i \in DOMAIN (out \o w) : ToldIn(out \o w, entries, file, m, i)
      <4>1. PICK i \in DOMAIN out : ToldIn(out, entries, file, m, i)
        BY <2>k
      <4>2. \A j \in DOMAIN w : w[j].line # m
        BY <3>4, <3>8
      <4>3. ToldIn(out \o w, entries, file, m, i)
        BY <3>8, <4>1, <4>2, StaysTold
      <4>4. i \in DOMAIN (out \o w)
        BY <3>10
      <4> QED
        BY <4>3, <4>4
    <3>13. ASSUME NEW i \in DOMAIN (out \o w)
           PROVE  (out \o w)[i].line \in 1..l
      <4>1. CASE i <= Len(out)
        <5>1. i \in DOMAIN out /\ (out \o w)[i] = out[i]
          BY <3>10, <4>1
        <5> QED
          BY <2>k, <3>4, <5>1
      <4>2. CASE i > Len(out)
        <5>1. i - Len(out) \in 1..Len(w) /\ i = Len(out) + (i - Len(out))
          BY <3>10, <4>2
        <5>2. (out \o w)[i] = w[i - Len(out)] /\ i - Len(out) \in DOMAIN w
          BY <3>10, <5>1
        <5> QED
          BY <3>4, <3>8, <5>2
      <4> QED
        BY <3>10, <4>1, <4>2
    <3>14. written' \in 0..Len(entries)
      BY <3>1, <3>3, <3>4
    <3>15. \A m \in 1..l : \E i \in DOMAIN (out \o w) : ToldIn(out \o w, entries, file, m, i)
      BY <3>4, <3>9, <3>11, <3>12
    <3>16. contract = IF file = Unreadable THEN NoName ELSE file.contract
      BY <2>k, <3>1
    <3> HIDE DEF l
    <3> QED
      BY <1>0, <1>2, <1>t, <2>k, <3>1, <3>2, <3>13, <3>14, <3>15, <3>16 DEF EntriesInv
  <2>2. CASE parse_snforge_trace
    <3>1. written' = 0 /\ out' = <<>> /\ file' = file /\ at' \notin {"entries", "close"}
      BY <2>2, <2>k DEF parse_snforge_trace
    <3>2. IsSequence(entries') /\ \A e \in ToSet(entries') : e.kind \in Kinds /\ e.felts \in Nat
      <4>1. CASE entries' = entries
        BY <1>t, <4>1
      <4>2. CASE file # Unreadable /\ entries' = file.entries
        BY <2>k, <4>2, FilesAssumption DEF IsSequence
      <4> QED
        BY <2>2, <4>1, <4>2 DEF parse_snforge_trace
    <3>3. written' \in 0..Len(entries')
      <4>1. Len(entries') \in Nat
        BY <3>2 DEF IsSequence
      <4> QED
        BY <3>1, <4>1
    <3> QED
      BY <1>0, <1>2, <2>e, <2>k, <3>1, <3>2, <3>3 DEF EntriesInv
  <2>3. CASE OpenSnforge \/ entry_contract \/ Environment \/ Locate \/ CheckDisabled \/ MakeFolder
    <3>1. /\ at \notin {"entries", "close", "end"} /\ UNCHANGED <<written, entries, out>>
          /\ file' \in Files \cup {Unreadable} /\ at' # "close"
      <4>1. CASE OpenSnforge
        BY <2>k, <4>1 DEF OpenSnforge, OpenBundle, snforgeVars
      <4>2. CASE entry_contract
        BY <2>k, <4>2 DEF entry_contract
      <4>3. CASE Environment
        BY <2>k, <4>3 DEF Environment, FileChanges, bundleVars
      <4>4. CASE Locate \/ CheckDisabled
        BY <2>k, <4>4 DEF Locate, CheckDisabled, snforgeVars
      <4>5. CASE MakeFolder
        BY <2>k, <4>5 DEF MakeFolder, create_dir_all, snforgeVars
      <4> QED
        BY <2>3, <4>1, <4>2, <4>3, <4>4, <4>5
    <3>2. at' = "entries" => contract' = IF file' = Unreadable THEN NoName ELSE file'.contract
      <4>1. CASE entry_contract
        BY <4>1 DEF entry_contract
      <4>2. CASE OpenSnforge \/ Environment
        BY <4>2 DEF OpenSnforge, Environment, FileChanges, bundleVars
      <4>3. CASE Locate \/ CheckDisabled \/ MakeFolder
        BY <1>2, <4>3 DEF Locate, CheckDisabled, MakeFolder
      <4> QED
        BY <2>3, <4>1, <4>2, <4>3
    <3>3. written' = 0 /\ out' = <<>>
      BY <2>k, <3>1
    <3>4. written' \in 0..Len(entries')
      BY <1>t, <3>1
    <3> QED
      BY <1>0, <1>2, <1>t, <2>e, <3>1, <3>2, <3>3, <3>4 DEF EntriesInv
  <2>4. CASE EntriesWritten \/ CloseBundleFiles \/ UNCHANGED recorderVars
    <3>1. UNCHANGED <<written, entries, out, contract, file>>
      <4>1. CASE EntriesWritten
        BY <4>1 DEF EntriesWritten, snforgeVars
      <4>2. CASE CloseBundleFiles
        BY <4>2 DEF CloseBundleFiles, Close, snforgeVars
      <4>3. CASE UNCHANGED recorderVars
        BY <4>3 DEF recorderVars, bundleVars, snforgeVars
      <4> QED
        BY <2>4, <4>1, <4>2, <4>3
    <3>2. \/ at' = at
          \/ at \in {"entries", "close"} /\ at' \in {"close", "end"}
      <4>1. CASE EntriesWritten
        BY <4>1 DEF EntriesWritten
      <4>2. CASE CloseBundleFiles
        BY <4>2 DEF CloseBundleFiles, Close
      <4>3. CASE UNCHANGED recorderVars
        BY <4>3 DEF recorderVars, bundleVars
      <4> QED
        BY <2>4, <4>1, <4>2, <4>3
    <3> QED
      BY <1>0, <1>2, <1>t, <2>k, <3>1, <3>2 DEF EntriesInv
  <2>5. CASE record \/ replay
    BY <1>2, <2>5 DEF record, replay
  <2>6. CASE trace_starknet
    BY <2>1, <2>2, <2>3, <2>4, <2>6 DEF trace_starknet
  <2> QED
    BY <2>3, <2>4, <2>5, <2>6 DEF Next, main
<1> QED
  BY <1>1, <1>2

(***************************************************************************)
(* What is written of a trace file agrees, entry by entry, with the older  *)
(* conversion (starknet.rs convert_snforge_trace and write_snforge_trace), *)
(* whatever the file holds and whenever another program changes it.        *)
(***************************************************************************)
THEOREM EntriesAgreeWithConversion == Spec => []AgreesWithConversion
<1>1. Init => RecorderInv /\ EntriesInv
  BY InitRecorder, InitEntries
<1>2. RecorderInv /\ EntriesInv /\ [Next]_recorderVars => (RecorderInv /\ EntriesInv)'
  <2>1. RecorderInv => PhasesInv /\ CallsAreOpen
    BY DEF RecorderInv
  <2> QED
    BY <2>1, NextRecorder, NextEntries
<1>3. RecorderInv /\ EntriesInv => AgreesWithConversion
  <2> SUFFICES ASSUME EntriesInv PROVE AgreesWithConversion
    OBVIOUS
  <2>1. ASSUME entries # <<>> PROVE \A i \in DOMAIN out : out[i].line \in 1..written
    BY <2>1 DEF EntriesInv
  <2>2. ASSUME NEW l \in 1..written PROVE \E i \in DOMAIN out : ToldAs(l, i)
    <3>1. CASE command = "trace_starknet"
      <4>1. PICK i \in DOMAIN out : ToldIn(out, entries, file, l, i)
        BY <3>1 DEF EntriesInv
      <4> QED
        BY <4>1, ToldAsIsToldIn
    <3>2. CASE command # "trace_starknet"
      BY <3>2 DEF EntriesInv
    <3> QED
      BY <3>1, <3>2
  <2> QED
    BY <2>1, <2>2 DEF AgreesWithConversion
<1> QED
  BY <1>1, <1>2, <1>3, PTL DEF Spec

-----------------------------------------------------------------------------
(***************************************************************************)
(* The values of the locals.  A value only moves along bindings, so that   *)
(* what is known of a declaration was made for one it is joined to; and    *)
(* where all bindings in reach were executed, and none twice, all that is  *)
(* joined holds one value.                                                 *)
(***************************************************************************)
LEMMA LinkSides ==
  ASSUME IsProbe(probed), NEW i \in Links
  PROVE  probed.sites[i].decl \in Decls /\ probed.sites[i].from \in Decls
BY DEF IsProbe, Links, Sites, Decls

LEMMA CopiesAreLinks == IsProbe(probed) => copy_bindings \subseteq Links
BY DEF IsProbe, copy_bindings, Links, Sites

LEMMA JoinedBothSides ==
  ASSUME IsProbe(probed), NEW links \in SUBSET Links, NEW d_, NEW i \in links
  PROVE  probed.sites[i].decl \in Joined(d_, links) <=> probed.sites[i].from \in Joined(d_, links)
<1>1. probed.sites[i].decl \in Decls /\ probed.sites[i].from \in Decls
  BY LinkSides
<1>2. \A S : JoinsBothSides(S, links) => (probed.sites[i].decl \in S <=> probed.sites[i].from \in S)
  BY DEF JoinsBothSides
<1> QED
  BY <1>1, <1>2 DEF Joined

LEMMA JoinedBack ==
  ASSUME IsProbe(probed), NEW d_ \in Decls, NEW e \in Joined(d_, Links)
  PROVE  d_ \in Joined(e, Links)
<1> SUFFICES ASSUME NEW S \in SUBSET Decls, e \in S, JoinsBothSides(S, Links)
             PROVE  d_ \in S
  BY DEF Joined
<1>1. JoinsBothSides(Decls \ S, Links)
  BY LinkSides DEF JoinsBothSides
<1>2. d_ \notin S => e \in Decls \ S
  BY <1>1 DEF Joined
<1> QED
  BY <1>2

LEMMA MakerHolds ==
  ASSUME IsProbe(probed), NEW v \in Values
  PROVE  v \in Nat /\ Site(v).decl \in Decls /\ v \in Held(Site(v).decl)
<1>1. v \in Events /\ Site(v).from = 0 /\ Site(v) = probed.sites[probed.events[v].site]
  BY DEF Values, Site
<1>2. v \in Nat
  BY <1>1 DEF IsProbe, Events
<1>3. probed.events[v].site \in DOMAIN probed.sites
  BY <1>1 DEF IsProbe, Events
<1>4. probed.events[v].value = v
  BY <1>1 DEF IsProbe, Events
<1>5. Site(v).decl \in Decls
  BY <1>1, <1>3 DEF IsProbe, Decls
<1> QED
  BY <1>1, <1>2, <1>4, <1>5 DEF Held

(* What is joined to a declaration and was all executed, nothing twice.    *)
Whole(d_) == \A j \in Joined(d_, Links) : ~Rebound(j) /\ \A i \in Skipped : probed.sites[i].decl # j

LEMMA OneValueHeld ==
  ASSUME NEW k \in Events, ~Rebound(Site(k).decl)
  PROVE  Held(Site(k).decl) = {probed.events[k].value}
<1>1. \A e \in Events : Site(e).decl = Site(k).decl => e = k
  BY DEF Rebound
<1> QED
  BY <1>1 DEF Held

LEMMA WholeHolds ==
  ASSUME IsProbe(probed), NEW v \in Values, NEW d_ \in sierra_variable_names(v), Whole(d_)
  PROVE  v \in Held(d_)
<1> DEFINE T == {e \in Decls : e \in Joined(d_, Links) => v \in Held(e)}
<1>1. ASSUME NEW i \in Links
      PROVE  probed.sites[i].decl \in T <=> probed.sites[i].from \in T
  <2> DEFINE x == probed.sites[i].decl
             y == probed.sites[i].from
  <2>1. x \in Decls /\ y \in Decls
    BY LinkSides
  <2>2. x \in Joined(d_, Links) <=> y \in Joined(d_, Links)
    BY JoinedBothSides
  <2>3. ASSUME x \in Joined(d_, Links) PROVE v \in Held(x) <=> v \in Held(y)
    <3>1. ~Rebound(x) /\ ~Rebound(y) /\ i \notin Skipped
      BY <2>2, <2>3 DEF Whole
    <3>2. PICK k \in Events : probed.events[k].site = i
      BY <3>1 DEF Skipped
    <3>3. i \in DOMAIN probed.sites /\ probed.sites[i].from # 0
      BY DEF Links, Sites
    <3>4. PICK j \in 1..(k - 1) : /\ probed.sites[probed.events[j].site].decl = y
                                  /\ probed.events[j].value = probed.events[k].value
      BY <3>2, <3>3 DEF IsProbe, Events
    <3>5. j \in Events
      <4>1. Events = 1..Len(probed.events) /\ Len(probed.events) \in Nat
        BY DEF IsProbe, Events
      <4> QED
        BY <3>2, <3>4, <4>1
    <3>6. Site(k).decl = x /\ Site(j).decl = y
      BY <3>2, <3>4 DEF Site
    <3> HIDE DEF x, y
    <3>7. Held(x) = {probed.events[k].value} /\ Held(y) = {probed.events[j].value}
      BY <3>1, <3>2, <3>5, <3>6, OneValueHeld
    <3> QED
      BY <3>4, <3>7
  <2> QED
    BY <2>1, <2>2, <2>3
<1>2. JoinsBothSides(T, Links)
  BY <1>1 DEF JoinsBothSides
<1>3. Site(v).decl \in T
  BY MakerHolds
<1>4. d_ \in T
  BY <1>2, <1>3 DEF sierra_variable_names, Joined
<1>5. d_ \in Joined(d_, Links)
  BY <1>4 DEF Joined
<1> QED
  BY <1>4, <1>5

(* What copies make of one another, when no round would change anything.   *)
Even(i) == by_decl[probed.sites[i].decl] = NoValue <=> by_decl[probed.sites[i].from] = NoValue

LEMMA EvenReaches ==
  ASSUME IsProbe(probed), \A i \in copy_bindings : Even(i),
         NEW d_ \in Decls, NEW c_ \in Joined(d_, copy_bindings), by_decl[c_] # NoValue
  PROVE  by_decl[d_] # NoValue
<1> DEFINE S == {e \in Decls : by_decl[e] = NoValue}
<1>1. JoinsBothSides(S, copy_bindings)
  BY LinkSides, CopiesAreLinks DEF JoinsBothSides, Even
<1>2. d_ \in S => c_ \in S
  BY <1>1 DEF Joined
<1> QED
  BY <1>2

Unobserved == Early \cup {"read", "compile", "observe", "consume", "copies"}

LocalsInv ==
  /\ IsProbe(probed)
  /\ by_decl \in [Decls -> Values \cup {NoValue}]
  /\ \A c_ \in consumed : c_ \in Decls /\ by_decl[c_] # NoValue
  /\ \A d_ \in Decls : by_decl[d_] # NoValue => d_ \in sierra_variable_names(by_decl[d_])
  /\ aliases \subseteq copy_bindings
  /\ changed \in BOOLEAN
  /\ at = "copies" /\ ~changed => \A i \in copy_bindings \ aliases : Even(i)
  /\ observed # <<>> =>
       /\ at \notin Unobserved
       /\ \A i \in copy_bindings : Even(i)
       /\ DOMAIN observed = Keys
       /\ \A k \in Keys : \E d_ \in Decls : probed.decls[d_] = k /\ by_decl[d_] = observed[k] /\ observed[k] # NoValue

LEMMA LocalsAreHeld == LocalsInv => ValuesAreHeld
<1> SUFFICES ASSUME LocalsInv, observed # <<>>, NEW d_ \in Decls, NEW key, key = probed.decls[d_],
                    NEW same, same = {e \in Decls : probed.decls[e] = key}
             PROVE  /\ consumed \cap Joined(d_, copy_bindings) # {} => key \in DOMAIN observed
                    /\ key \in DOMAIN observed =>
                         /\ \E e \in same : \E j \in Joined(e, Links) : observed[key] \in Held(j)
                         /\ (\A e \in same : Whole(e)) => \E e \in same : observed[key] \in Held(e)
  BY DEF ValuesAreHeld, Whole
<1>0. IsProbe(probed)
  BY DEF LocalsInv
<1>1. ASSUME consumed \cap Joined(d_, copy_bindings) # {}
      PROVE  key \in DOMAIN observed
  <2>1. PICK c_ \in consumed : c_ \in Joined(d_, copy_bindings)
    BY <1>1
  <2>2. by_decl[d_] # NoValue
    BY <2>1, EvenReaches DEF LocalsInv
  <2> QED
    BY <2>2 DEF LocalsInv, Keys
<1>2. ASSUME key \in DOMAIN observed
      PROVE  /\ \E e \in same : \E j \in Joined(e, Links) : observed[key] \in Held(j)
             /\ (\A e \in same : Whole(e)) => \E e \in same : observed[key] \in Held(e)
  <2>1. PICK e \in Decls : probed.decls[e] = key /\ by_decl[e] = observed[key] /\ by_decl[e] # NoValue
    BY <1>2 DEF LocalsInv
  <2> DEFINE v == by_decl[e]
  <2>2. e \in same /\ v \in Values /\ e \in sierra_variable_names(v)
    BY <2>1 DEF LocalsInv
  <2>3. Site(v).decl \in Joined(e, Links) /\ v \in Held(Site(v).decl)
    <3>1. Site(v).decl \in Decls /\ v \in Held(Site(v).decl)
      BY <1>0, <2>2, MakerHolds
    <3>2. e \in Joined(Site(v).decl, Links)
      BY <2>2 DEF sierra_variable_names
    <3> QED
      BY <1>0, <3>1, <3>2, JoinedBack
  <2>4. Whole(e) => v \in Held(e)
    BY <1>0, <2>2, WholeHolds
  <2> QED
    BY <2>1, <2>2, <2>3, <2>4
<1> QED
  BY <1>1, <1>2

LEMMA InitLocals == Init => LocalsInv
<1> SUFFICES ASSUME Init PROVE LocalsInv
  OBVIOUS
<1>1. PICK p \in Programs \cup {Nothing} : RecordInit(p)
  BY DEF Init
<1>2. IsProbe(p.probe)
  <2>1. CASE p \in Programs
    BY <2>1, ProgramsAssumption
  <2>2. CASE p = Nothing
    <3>1. <<>> \in Seq(ToSet(<<>>)) /\ DOMAIN <<>> = {}
      BY DEF ToSet
    <3> QED
      BY <2>2, <3>1 DEF Nothing, IsProbe
  <2> QED
    BY <1>1, <2>1, <2>2
<1>3. /\ probed = p.probe /\ consumed = {} /\ aliases = {} /\ changed = FALSE /\ observed = <<>>
      /\ by_decl = [d_ \in DOMAIN p.probe.decls |-> NoValue]
  BY <1>1 DEF RecordInit, ProbeStart
<1>4. at = "locate"
  BY DEF Init, BundleInit
<1> QED
  BY <1>2, <1>3, <1>4 DEF LocalsInv, Decls

(* The values stay, but for the probe's own steps.                         *)
LEMMA ProbeStays ==
  [Next]_recorderVars => \/ ProbeStep
                         \/ /\ UNCHANGED probeVars
                            /\ at' = "copies" => at = "copies"
                            /\ at \notin Unobserved => at' \notin Unobserved
<1> SUFFICES ASSUME [Next]_recorderVars, ~ProbeStep
             PROVE  /\ UNCHANGED probeVars
                    /\ at' = "copies" => at = "copies"
                    /\ at \notin Unobserved => at' \notin Unobserved
  OBVIOUS
<1> USE DEF Unobserved, Early, Goto, Stay, Finish, Aside, Fail, Write
<1>1. CASE record
  <2>1. CASE read_to_string \/ Compile \/ OpenRecording \/ LeaveRoot \/ TellPanic
    BY <2>1 DEF read_to_string, Compile, OpenRecording, LeaveRoot, TellPanic, recordVars
  <2>2. CASE StartProbe \/ Run \/ CallRoot \/ Derive \/ WalkRoot
    BY <2>2 DEF StartProbe, Run, CallRoot, Derive, WalkRoot
  <2> QED
    BY <1>1, <2>1, <2>2 DEF record
<1>2. CASE trace_starknet
  <2>1. UNCHANGED recordVars
    BY <1>2 DEF trace_starknet
  <2> QED
    BY <1>2, <2>1 DEF trace_starknet, recordVars, parse_snforge_trace, OpenSnforge, entry_contract, WriteEntry, EntriesWritten
<1>3. CASE replay
  <2>1. UNCHANGED recordVars
    BY <1>3 DEF replay
  <2> QED
    BY <1>3, <2>1 DEF replay, recordVars, SourceTrace, Reexecute, OpenReplay, write_invocation, ReturnInvocation,
         WriteDiff, Walked, DiffsWritten
<1>4. CASE Locate \/ CheckDisabled \/ MakeFolder
  BY <1>4 DEF Locate, CheckDisabled, MakeFolder, recordVars
<1>5. CASE CloseBundleFiles
  BY <1>5 DEF CloseBundleFiles, Close, recordVars
<1>6. CASE Environment
  BY <1>6 DEF Environment, FileChanges, recordVars, bundleVars
<1>7. CASE UNCHANGED recorderVars
  BY <1>7 DEF recorderVars, recordVars, bundleVars
<1> QED
  BY <1>1, <1>2, <1>3, <1>4, <1>5, <1>6, <1>7 DEF Next, main

LEMMA ProbedKept ==
  ASSUME probed' = probed
  PROVE  /\ Decls' = Decls /\ copy_bindings' = copy_bindings /\ Values' = Values
         /\ \A v : sierra_variable_names(v)' = sierra_variable_names(v)
<1>1. Decls' = Decls /\ Sites' = Sites /\ Events' = Events
  BY DEF Decls, Sites, Events
<1>2. \A k : Site(k)' = Site(k)
  BY DEF Site
<1>3. copy_bindings' = copy_bindings /\ Links' = Links /\ Values' = Values
  BY <1>1, <1>2 DEF copy_bindings, Links, Values
<1>4. ASSUME NEW v PROVE sierra_variable_names(v)' = sierra_variable_names(v)
  BY <1>1, <1>2, <1>3 DEF sierra_variable_names, Joined, JoinsBothSides
<1> QED
  BY <1>1, <1>3, <1>4

LEMMA NextLocals == LocalsInv /\ [Next]_recorderVars => LocalsInv'
<1> SUFFICES ASSUME LocalsInv, [Next]_recorderVars PROVE LocalsInv'
  OBVIOUS
<1>0. probed' = probed
  <2>1. ProbeStep => probed' = probed
    BY DEF ProbeStep, Consume, StartCopies, VisitAlias, VisitAgain, CollectValues
  <2> QED
    BY <2>1, ProbeStays DEF probeVars
<1>a. /\ Decls' = Decls /\ copy_bindings' = copy_bindings /\ Values' = Values /\ IsProbe(probed)'
      /\ \A v : sierra_variable_names(v)' = sierra_variable_names(v)
  BY <1>0, ProbedKept DEF LocalsInv
<1>v. \A v \in Values : v # NoValue
  BY MakerHolds, NoValueAssumption DEF LocalsInv
<1>1. CASE /\ UNCHANGED probeVars
           /\ at' = "copies" => at = "copies"
           /\ at \notin Unobserved => at' \notin Unobserved
  <2>1. UNCHANGED <<probed, consumed, by_decl, aliases, changed, observed>>
    BY <1>1 DEF probeVars
  <2>2. Keys' = Keys /\ \A i : Even(i)' <=> Even(i)
    BY <1>a, <2>1 DEF Keys, Even
  <2> QED
    BY <1>1, <1>a, <2>1, <2>2 DEF LocalsInv
<1>2. ASSUME NEW v \in Values, NEW d_ \in Decls, at = "consume", Stay, Consume(v, d_)
      PROVE  LocalsInv'
  <2>1. d_ \in sierra_variable_names(v) /\ v # NoValue
    BY <1>2, <1>v DEF Consume
  <2>2. by_decl' \in [Decls -> Values \cup {NoValue}]
    BY <1>2 DEF Consume, LocalsInv
  <2>3. \A e \in Decls : by_decl'[e] = by_decl[e] \/ (e = d_ /\ by_decl[e] = NoValue /\ by_decl'[e] = v)
    BY <1>2 DEF Consume, LocalsInv
  <2>4. by_decl'[d_] # NoValue
    BY <1>2, <2>1 DEF Consume, LocalsInv
  <2>5. \A c_ \in consumed' : c_ \in Decls /\ by_decl'[c_] # NoValue
    BY <1>2, <2>3, <2>4 DEF Consume, LocalsInv
  <2>6. \A e \in Decls : by_decl'[e] # NoValue => e \in sierra_variable_names(by_decl'[e])
    BY <2>1, <2>3 DEF LocalsInv
  <2>7. observed = <<>>
    BY <1>2 DEF LocalsInv, Unobserved
  <2> QED
    BY <1>2, <1>a, <2>2, <2>5, <2>6, <2>7 DEF LocalsInv, Consume, Stay
<1>3. CASE StartCopies /\ at' = "copies" /\ at \in {"consume", "copies"}
  <2>1. UNCHANGED <<probed, consumed, by_decl, observed>> /\ aliases' = copy_bindings /\ changed' = FALSE
    BY <1>3 DEF StartCopies
  <2>2. observed = <<>>
    BY <1>3 DEF LocalsInv, Unobserved
  <2> QED
    BY <1>a, <2>1, <2>2 DEF LocalsInv
<1>4. ASSUME NEW i \in aliases, at = "copies", Stay, VisitAlias,
             by_decl' = Spread(probed.sites[i]), aliases' = aliases \ {i}
      PROVE  LocalsInv'
  <2> DEFINE b == probed.sites[i]
  <2>1. i \in copy_bindings /\ i \in Links
    BY <1>4, CopiesAreLinks DEF LocalsInv
  <2>2. b.decl \in Decls /\ b.from \in Decls
    BY <2>1, LinkSides DEF LocalsInv
  <2>3. \A v : b.decl \in sierra_variable_names(v) <=> b.from \in sierra_variable_names(v)
    BY <2>1, JoinedBothSides DEF LocalsInv, sierra_variable_names
  <2>4. by_decl' \in [Decls -> Values \cup {NoValue}]
    <3> HIDE DEF b
    <3>1. by_decl' = Spread(b)
      BY <1>4 DEF b
    <3>2. by_decl[b.decl] \in Values \cup {NoValue} /\ by_decl[b.from] \in Values \cup {NoValue}
      BY <2>2 DEF LocalsInv
    <3> QED
      BY <3>1, <3>2 DEF Spread, LocalsInv
  <2>5. ASSUME NEW e \in Decls
        PROVE  \/ by_decl'[e] = by_decl[e]
               \/ by_decl[e] = NoValue /\ e = b.decl /\ by_decl'[e] = by_decl[b.from]
               \/ by_decl[e] = NoValue /\ e = b.from /\ by_decl'[e] = by_decl[b.decl]
    <3> HIDE DEF b
    <3>1. by_decl' = Spread(b)
      BY <1>4 DEF b
    <3> QED
      BY <2>2, <3>1 DEF Spread, LocalsInv
  <2>6. \A e \in Decls : by_decl[e] # NoValue => by_decl'[e] # NoValue
    BY <2>5
  <2>7. \A c_ \in consumed' : c_ \in Decls /\ by_decl'[c_] # NoValue
    BY <1>4, <2>6 DEF VisitAlias, LocalsInv
  <2>8. ASSUME NEW e \in Decls, by_decl'[e] # NoValue
        PROVE  e \in sierra_variable_names(by_decl'[e])
    <3> HIDE DEF b
    <3>1. CASE by_decl'[e] = by_decl[e]
      BY <2>8, <3>1 DEF LocalsInv
    <3>2. CASE e = b.decl /\ by_decl'[e] = by_decl[b.from]
      BY <2>2, <2>3, <2>8, <3>2 DEF LocalsInv
    <3>3. CASE e = b.from /\ by_decl'[e] = by_decl[b.decl]
      BY <2>2, <2>3, <2>8, <3>3 DEF LocalsInv
    <3> QED
      BY <2>5, <3>1, <3>2, <3>3
  <2>9. ASSUME ~changed' PROVE \A k \in copy_bindings \ aliases' : Even(k)'
    <3>1. ~changed /\ by_decl' = by_decl
      BY <1>4, <2>9 DEF VisitAlias, LocalsInv
    <3>2. \A k : Even(k)' <=> Even(k)
      BY <1>0, <3>1 DEF Even
    <3>3. Even(i)
      <4>1. by_decl = Spread(b)
        BY <1>4, <3>1
      <4> HIDE DEF b
      <4>2. by_decl[b.decl] = NoValue <=> by_decl[b.from] = NoValue
        BY <2>2, <4>1 DEF Spread, LocalsInv
      <4> QED
        BY <4>2 DEF Even, b
    <3> QED
      BY <1>4, <3>1, <3>2, <3>3 DEF LocalsInv
  <2>10. observed' = <<>>
    BY <1>4 DEF LocalsInv, Unobserved, VisitAlias
  <2>11. aliases' \subseteq copy_bindings /\ changed' \in BOOLEAN
    BY <1>4 DEF VisitAlias, LocalsInv
  <2> QED
    BY <1>a, <2>4, <2>7, <2>8, <2>9, <2>10, <2>11 DEF LocalsInv
<1>5. CASE CollectValues /\ at = "copies" /\ at' = "run"
  <2>1. UNCHANGED <<probed, consumed, by_decl, aliases, changed>> /\ aliases = {} /\ ~changed
    BY <1>5 DEF CollectValues, RoundOver
  <2>2. Keys' = Keys /\ \A i : Even(i)' <=> Even(i)
    BY <1>a, <2>1 DEF Keys, Even
  <2>3. \A i \in copy_bindings : Even(i)
    BY <1>5, <2>1 DEF LocalsInv
  <2>4. /\ observed' \in [Keys -> Values]
        /\ \A k \in Keys : \E d_ \in Decls : probed.decls[d_] = k /\ by_decl[d_] = observed'[k]
    BY <1>5 DEF CollectValues
  <2>6. /\ DOMAIN observed' = Keys
        /\ \A k \in Keys : \E d_ \in Decls : /\ probed.decls[d_] = k
                                             /\ by_decl[d_] = observed'[k] /\ observed'[k] # NoValue
    BY <1>v, <2>4
  <2>7. at' \notin Unobserved
    BY <1>5 DEF Unobserved, Early
  <2> QED
    BY <1>5, <1>a, <2>1, <2>2, <2>3, <2>6, <2>7 DEF LocalsInv
<1>6. CASE ProbeStep
  <2>1. CASE at = "consume" /\ Stay /\ \E v \in Values, d_ \in Decls : Consume(v, d_)
    BY <1>2, <2>1
  <2>2. CASE at = "consume" /\ Goto("copies") /\ StartCopies
    BY <1>3, <2>2 DEF Goto
  <2>3. CASE at = "copies" /\ Stay /\ VisitAlias
    BY <1>4, <2>3 DEF VisitAlias
  <2>4. CASE at = "copies" /\ Stay /\ VisitAgain
    BY <1>3, <2>4 DEF Stay, VisitAgain
  <2>5. CASE at = "copies" /\ Goto("run") /\ CollectValues
    BY <1>5, <2>5 DEF Goto
  <2> QED
    BY <1>6, <2>1, <2>2, <2>3, <2>4, <2>5 DEF ProbeStep
<1> QED
  BY <1>1, <1>6, ProbeStays

(***************************************************************************)
(* The values kept of the locals (value_probe.rs:119-152, 231-257), for    *)
(* every program and every run of it, with bindings left out and repeated, *)
(* every order the run consumes values in and every order the copies are   *)
(* visited in: nothing that copies join to a consumed value is left out;   *)
(* what is kept under a name and line is a value of a declaration joined   *)
(* to it, and one held there if all that is joined to it was executed,     *)
(* and nothing of it twice.                                                *)
(***************************************************************************)
THEOREM LocalsHoldTheirValues == Spec => []ValuesAreHeld
<1>1. Spec => []LocalsInv
  BY InitLocals, NextLocals, PTL DEF Spec
<1>2. LocalsInv => ValuesAreHeld
  BY LocalsAreHeld
<1> QED
  BY <1>1, <1>2, PTL

-----------------------------------------------------------------------------
(***************************************************************************)
(* Lines and columns.  The three passes over a text are recursions over    *)
(* its bytes; what they are is told byte by byte (Aligned).                *)
(***************************************************************************)
(* One byte of each of the three passes over a text.                       *)
StartsNext(text, k, before) == IF text[k] = Newline THEN Append(before, k) ELSE before

CutNext(text, k, before) ==
  IF text[k] # Newline THEN before
  ELSE [lengths |-> Append(before.lengths, k - 1 - before.line_start), line_start |-> k]

CountNext(text, k, before) ==
  IF text[k] = Newline THEN [lines |-> Append(before.lines, before.current_len), current_len |-> 0]
  ELSE [before EXCEPT !.current_len = @ + 1]

NoLengths == [lengths |-> <<>>, line_start |-> 0]
NoLines == [lines |-> <<>>, current_len |-> 0]

LEMMA StartsUnfold ==
  ASSUME NEW text, Len(text) \in Nat
  PROVE  \E f : /\ line_starts(text) = f[Len(text)] /\ f[0] = <<0>>
                /\ \A k \in 1..Len(text) : f[k] = StartsNext(text, k, f[k - 1])
<1> DEFINE N == Len(text)
           S == Seq(Nat)
           step == [k \in 1..N |-> [before \in S |-> StartsNext(text, k, before)]]
           Unfolds(f) == f = [k \in 0..N |-> IF k = 0 THEN <<0>> ELSE StartsNext(text, k, f[k - 1])]
<1>1. <<0>> \in S /\ step \in [1..N -> [S -> S]]
  <2>1. ASSUME NEW k \in 1..N, NEW before \in S PROVE StartsNext(text, k, before) \in S
    BY <2>1 DEF StartsNext
  <2> HIDE DEF S
  <2>2. step \in [1..N -> [S -> S]]
    BY <2>1
  <2>3. <<0>> \in S
    BY DEF S
  <2> QED BY <2>2, <2>3
<1> HIDE DEF S
<1>2. PICK f : f \in [0..N -> S] /\ f[0] = <<0>> /\ \A k \in 1..N : f[k] = step[k][f[k - 1]]
  <2> HIDE DEF step
  <2>1. \E f : Recurses(f, N, S, <<0>>, step)
    BY <1>1, Recursion
  <2> QED BY <2>1 DEF Recurses
<1>3. ASSUME NEW k \in 0..N PROVE f[k] = IF k = 0 THEN <<0>> ELSE StartsNext(text, k, f[k - 1])
  <2>1. CASE k = 0
    BY <1>2, <2>1
  <2>2. CASE k # 0
    <3>1. k \in 1..N /\ k - 1 \in 0..N
      BY <2>2
    <3>2. f[k - 1] \in S
      BY <1>2, <3>1
    <3>3. step[k][f[k - 1]] = StartsNext(text, k, f[k - 1])
      BY <3>1, <3>2
    <3> HIDE DEF step
    <3> QED BY <1>2, <2>2, <3>1, <3>3
  <2> QED BY <2>1, <2>2
<1>4. Unfolds(f)
  <2>1. f = [k \in 0..N |-> f[k]]
    BY <1>2
  <2> QED BY <1>3, <2>1
<1> DEFINE h == CHOOSE g : Unfolds(g)
<1>5. Unfolds(h)
  <2> HIDE DEF Unfolds
  <2> QED BY <1>4
<1>6. line_starts(text) = h[N]
  BY DEF line_starts, StartsNext
<1> HIDE DEF h
<1>7. \A k \in 0..N : h[k] = IF k = 0 THEN <<0>> ELSE StartsNext(text, k, h[k - 1])
  BY <1>5, Zenon
<1>8. 0 \in 0..N /\ \A k \in 1..N : k \in 0..N /\ k # 0
  OBVIOUS
<1> QED BY <1>6, <1>7, <1>8

LEMMA CutUnfolds ==
  ASSUME NEW text, Len(text) \in Nat
  PROVE  \E f : /\ line_lengths(text) = (IF f[Len(text)].line_start < Len(text) THEN Append(f[Len(text)].lengths, Len(text) - f[Len(text)].line_start) ELSE f[Len(text)].lengths) /\ f[0] = NoLengths
                /\ \A k \in 1..Len(text) : f[k] = CutNext(text, k, f[k - 1])
<1> DEFINE N == Len(text)
           S == [lengths : Seq(Int), line_start : Int]
           step == [k \in 1..N |-> [before \in S |-> CutNext(text, k, before)]]
           Unfolds(f) == f = [k \in 0..N |-> IF k = 0 THEN NoLengths ELSE CutNext(text, k, f[k - 1])]
<1>1. NoLengths \in S /\ step \in [1..N -> [S -> S]]
  <2>1. ASSUME NEW k \in 1..N, NEW before \in S PROVE CutNext(text, k, before) \in S
    BY <2>1 DEF CutNext
  <2> HIDE DEF S
  <2>2. step \in [1..N -> [S -> S]]
    BY <2>1
  <2>3. NoLengths \in S
    BY DEF S, NoLengths
  <2> QED BY <2>2, <2>3
<1> HIDE DEF S
<1>2. PICK f : f \in [0..N -> S] /\ f[0] = NoLengths /\ \A k \in 1..N : f[k] = step[k][f[k - 1]]
  <2> HIDE DEF step
  <2>1. \E f : Recurses(f, N, S, NoLengths, step)
    BY <1>1, Recursion
  <2> QED BY <2>1 DEF Recurses
<1>3. ASSUME NEW k \in 0..N PROVE f[k] = IF k = 0 THEN NoLengths ELSE CutNext(text, k, f[k - 1])
  <2>1. CASE k = 0
    BY <1>2, <2>1
  <2>2. CASE k # 0
    <3>1. k \in 1..N /\ k - 1 \in 0..N
      BY <2>2
    <3>2. f[k - 1] \in S
      BY <1>2, <3>1
    <3>3. step[k][f[k - 1]] = CutNext(text, k, f[k - 1])
      BY <3>1, <3>2
    <3> HIDE DEF step
    <3> QED BY <1>2, <2>2, <3>1, <3>3
  <2> QED BY <2>1, <2>2
<1>4. Unfolds(f)
  <2>1. f = [k \in 0..N |-> f[k]]
    BY <1>2
  <2> QED BY <1>3, <2>1
<1> DEFINE h == CHOOSE g : Unfolds(g)
<1>5. Unfolds(h)
  <2> HIDE DEF Unfolds
  <2> QED BY <1>4
<1>6. line_lengths(text) = (IF h[N].line_start < Len(text) THEN Append(h[N].lengths, Len(text) - h[N].line_start) ELSE h[N].lengths)
  BY DEF line_lengths, CutNext, NoLengths
<1> HIDE DEF h
<1>7. \A k \in 0..N : h[k] = IF k = 0 THEN NoLengths ELSE CutNext(text, k, h[k - 1])
  BY <1>5, Zenon
<1>8. 0 \in 0..N /\ \A k \in 1..N : k \in 0..N /\ k # 0
  OBVIOUS
<1> QED BY <1>6, <1>7, <1>8

LEMMA CountUnfolds ==
  ASSUME NEW text, Len(text) \in Nat
  PROVE  \E f : /\ (text # Unreadable => read_line_lengths_for_path(text) =
                     (IF f[Len(text)].current_len > 0 \/ text = <<>> \/ text[Len(text)] # Newline
                      THEN Append(f[Len(text)].lines, f[Len(text)].current_len) ELSE f[Len(text)].lines))
                /\ f[0] = NoLines
                /\ \A k \in 1..Len(text) : f[k] = CountNext(text, k, f[k - 1])
<1> DEFINE N == Len(text)
           S == [lines : Seq(Nat), current_len : Nat]
           step == [k \in 1..N |-> [before \in S |-> CountNext(text, k, before)]]
           Unfolds(f) == f = [k \in 0..N |-> IF k = 0 THEN NoLines ELSE CountNext(text, k, f[k - 1])]
<1>1. NoLines \in S /\ step \in [1..N -> [S -> S]]
  <2>1. ASSUME NEW k \in 1..N, NEW before \in S PROVE CountNext(text, k, before) \in S
    BY <2>1 DEF CountNext
  <2> HIDE DEF S
  <2>2. step \in [1..N -> [S -> S]]
    BY <2>1
  <2>3. NoLines \in S
    BY DEF S, NoLines
  <2> QED BY <2>2, <2>3
<1> HIDE DEF S
<1>2. PICK f : f \in [0..N -> S] /\ f[0] = NoLines /\ \A k \in 1..N : f[k] = step[k][f[k - 1]]
  <2> HIDE DEF step
  <2>1. \E f : Recurses(f, N, S, NoLines, step)
    BY <1>1, Recursion
  <2> QED BY <2>1 DEF Recurses
<1>3. ASSUME NEW k \in 0..N PROVE f[k] = IF k = 0 THEN NoLines ELSE CountNext(text, k, f[k - 1])
  <2>1. CASE k = 0
    BY <1>2, <2>1
  <2>2. CASE k # 0
    <3>1. k \in 1..N /\ k - 1 \in 0..N
      BY <2>2
    <3>2. f[k - 1] \in S
      BY <1>2, <3>1
    <3>3. step[k][f[k - 1]] = CountNext(text, k, f[k - 1])
      BY <3>1, <3>2
    <3> HIDE DEF step
    <3> QED BY <1>2, <2>2, <3>1, <3>3
  <2> QED BY <2>1, <2>2
<1>4. Unfolds(f)
  <2>1. f = [k \in 0..N |-> f[k]]
    BY <1>2
  <2> QED BY <1>3, <2>1
<1> DEFINE h == CHOOSE g : Unfolds(g)
<1>5. Unfolds(h)
  <2> HIDE DEF Unfolds
  <2> QED BY <1>4
<1>6. text # Unreadable => read_line_lengths_for_path(text) =
        (IF h[N].current_len > 0 \/ text = <<>> \/ text[Len(text)] # Newline
         THEN Append(h[N].lines, h[N].current_len) ELSE h[N].lines)
  BY DEF read_line_lengths_for_path, CountNext, NoLines
<1> HIDE DEF h
<1>7. \A k \in 0..N : h[k] = IF k = 0 THEN NoLines ELSE CountNext(text, k, h[k - 1])
  BY <1>5, Zenon
<1>8. 0 \in 0..N /\ \A k \in 1..N : k \in 0..N /\ k # 0
  OBVIOUS
<1> QED BY <1>6, <1>7, <1>8

(* The passes after k bytes, side by side: the table of a text in memory   *)
(* has what lies between the starts found so far, and a file's the same.   *)
Aligned(text, k, starts, cut, count) ==
  /\ starts \in Seq(Nat) /\ Len(starts) >= 1 /\ starts[1] = 0
  /\ \A i \in 1..Len(starts) : starts[i] <= k
  /\ \A i, j \in 1..Len(starts) : i < j => starts[i] < starts[j]
  /\ cut.lengths \in Seq(Nat) /\ Len(cut.lengths) = Len(starts) - 1 /\ cut.line_start = starts[Len(starts)]
  /\ \A i \in 1..Len(cut.lengths) : starts[i + 1] = starts[i] + cut.lengths[i] + 1
  /\ count = [lines |-> cut.lengths, current_len |-> k - cut.line_start]
  /\ k > 0 /\ text[k] # Newline => cut.line_start < k

LEMMA AlignedNext ==
  ASSUME NEW text, NEW k \in Nat, NEW starts, NEW cut, NEW count, Aligned(text, k, starts, cut, count)
  PROVE  Aligned(text, k + 1, StartsNext(text, k + 1, starts), CutNext(text, k + 1, cut), CountNext(text, k + 1, count))
<1> DEFINE L == Len(starts)
           last == starts[L]
<1>1. /\ starts \in Seq(Nat) /\ L \in Nat /\ L >= 1 /\ starts[1] = 0
      /\ \A i \in 1..L : starts[i] \in Nat /\ starts[i] <= k
      /\ \A i, j \in 1..L : i < j => starts[i] < starts[j]
      /\ cut.lengths \in Seq(Nat) /\ Len(cut.lengths) = L - 1 /\ cut.line_start = last
      /\ \A i \in 1..(L - 1) : starts[i + 1] = starts[i] + cut.lengths[i] + 1
      /\ count = [lines |-> cut.lengths, current_len |-> k - last]
  BY DEF Aligned
<1>2. last \in Nat /\ last <= k /\ L \in 1..L
  BY <1>1
<1> HIDE DEF L, last
<1>3. CASE text[k + 1] # Newline
  <2>1. /\ StartsNext(text, k + 1, starts) = starts /\ CutNext(text, k + 1, cut) = cut
        /\ CountNext(text, k + 1, count) = [count EXCEPT !.current_len = @ + 1]
    BY <1>3 DEF StartsNext, CutNext, CountNext
  <2>2. [count EXCEPT !.current_len = @ + 1] = [lines |-> cut.lengths, current_len |-> k + 1 - last]
    BY <1>1, <1>2
  <2>3. cut.line_start < k + 1
    BY <1>1, <1>2
  <2>4. \A i \in 1..L : starts[i] <= k + 1
    BY <1>1
  <2>5. k + 1 - cut.line_start = k + 1 - last
    BY <1>1
  <2> DEFINE counted == [lines |-> cut.lengths, current_len |-> k + 1 - cut.line_start]
  <2>6. Aligned(text, k + 1, starts, cut, counted)
    <3>1. \A i \in 1..(L - 1) : starts[i + 1] = starts[i] + cut.lengths[i] + 1
      BY <1>1
    <3>2. last = starts[Len(starts)]
      BY DEF L, last
    <3> HIDE DEF last
    <3> QED BY <1>1, <2>3, <2>4, <3>1, <3>2 DEF Aligned, L
  <2> QED BY <2>1, <2>2, <2>5, <2>6
<1>4. CASE text[k + 1] = Newline
  <2> DEFINE longer == Append(starts, k + 1)
             lengths == Append(cut.lengths, k - last)
  <2>1. /\ StartsNext(text, k + 1, starts) = longer
        /\ CutNext(text, k + 1, cut) = [lengths |-> lengths, line_start |-> k + 1]
        /\ CountNext(text, k + 1, count) = [lines |-> lengths, current_len |-> 0]
    <3>1. (k + 1) - 1 - cut.line_start = k - last
      BY <1>1, <1>2
    <3>2. count.lines = cut.lengths /\ count.current_len = k - last
      BY <1>1
    <3> QED BY <1>4, <3>1, <3>2 DEF StartsNext, CutNext, CountNext
  <2>2. /\ longer \in Seq(Nat) /\ Len(longer) = L + 1 /\ longer[L + 1] = k + 1
        /\ \A i \in 1..L : longer[i] = starts[i]
    BY <1>1 DEF L
  <2>3. /\ lengths \in Seq(Nat) /\ Len(lengths) = L /\ lengths[L] = k - last
        /\ \A i \in 1..(L - 1) : lengths[i] = cut.lengths[i]
    <3>1. k - last \in Nat
      BY <1>2
    <3> HIDE DEF lengths
    <3>2. lengths \in Seq(Nat) /\ Len(lengths) = (L - 1) + 1 /\ lengths[(L - 1) + 1] = k - last
          /\ \A i \in 1..(L - 1) : lengths[i] = cut.lengths[i]
      BY <1>1, <3>1 DEF lengths
    <3> QED BY <1>1, <3>2
  <2> HIDE DEF longer, lengths
  <2>4. \A i \in 1..(L + 1) : i \in 1..L \/ i = L + 1
    BY <1>1
  <2>5. \A i \in 1..(L + 1) : longer[i] <= k + 1
    <3>1. ASSUME NEW i \in 1..L PROVE longer[i] <= k + 1
      <4>1. longer[i] = starts[i] /\ starts[i] \in Nat /\ starts[i] <= k
        BY <1>1, <2>2, <3>1
      <4> QED BY <4>1
    <3> QED BY <2>2, <2>4, <3>1
  <2>6. ASSUME NEW i \in 1..(L + 1), NEW j \in 1..(L + 1), i < j PROVE longer[i] < longer[j]
    <3>1. i \in 1..L
      BY <1>1, <2>4, <2>6
    <3>2. CASE j \in 1..L
      <4>1. longer[i] = starts[i] /\ longer[j] = starts[j]
        BY <2>2, <3>1, <3>2
      <4> QED BY <1>1, <2>6, <3>1, <3>2, <4>1
    <3>3. CASE j = L + 1
      <4>1. longer[i] = starts[i] /\ longer[j] = k + 1
        BY <2>2, <3>1, <3>3
      <4>2. starts[i] \in Nat /\ starts[i] <= k
        BY <1>1, <3>1
      <4> QED BY <4>1, <4>2
    <3> QED BY <2>4, <3>2, <3>3
  <2>7. ASSUME NEW i \in 1..L PROVE longer[i + 1] = longer[i] + lengths[i] + 1
    <3>1. CASE i = L
      <4>1. longer[L] = last /\ longer[L + 1] = k + 1 /\ lengths[L] = k - last
        BY <1>2, <2>2, <2>3 DEF last
      <4> QED BY <1>2, <3>1, <4>1
    <3>2. CASE i # L
      <4>1. i \in 1..(L - 1) /\ i + 1 \in 1..L
        BY <1>1, <3>2
      <4>2. longer[i + 1] = starts[i + 1] /\ longer[i] = starts[i] /\ lengths[i] = cut.lengths[i]
        BY <2>2, <2>3, <4>1
      <4> QED BY <1>1, <4>1, <4>2
    <3> QED BY <3>1, <3>2
  <2>8. longer[1] = 0 /\ L + 1 >= 1 /\ (k + 1) - (k + 1) = 0
    BY <1>1, <2>2
  <2> DEFINE cut_ == [lengths |-> lengths, line_start |-> k + 1]
             count_ == [lines |-> lengths, current_len |-> 0]
  <2>9. cut_.lengths = lengths /\ cut_.line_start = k + 1
        /\ count_ = [lines |-> cut_.lengths, current_len |-> (k + 1) - cut_.line_start]
    BY <2>8
  <2> HIDE DEF cut_, count_
  <2>10. Len(cut_.lengths) = Len(longer) - 1 /\ Len(longer) >= 1 /\ cut_.line_start = longer[Len(longer)]
    BY <1>1, <2>2, <2>3, <2>9
  <2>11. Aligned(text, k + 1, longer, cut_, count_)
    <3>1. Len(longer) = L + 1 /\ Len(cut_.lengths) = L
      BY <2>2, <2>3, <2>9
    <3>2. \A i \in 1..Len(cut_.lengths) : longer[i + 1] = longer[i] + cut_.lengths[i] + 1
      BY <2>7, <2>9, <3>1
    <3>3. \A i, j \in 1..Len(longer) : i < j => longer[i] < longer[j]
      BY <2>6, <3>1
    <3>4. \A i \in 1..Len(longer) : longer[i] <= k + 1
      BY <2>5, <3>1
    <3> QED BY <1>4, <2>2, <2>3, <2>8, <2>9, <2>10, <3>2, <3>3, <3>4 DEF Aligned
  <2> QED BY <2>1, <2>11 DEF cut_, count_
<1> QED BY <1>3, <1>4

LEMMA AlignedAtTheEnd ==
  ASSUME NEW text, NEW S, text \in Seq(S)
  PROVE  \E cut, count :
           /\ Aligned(text, Len(text), line_starts(text), cut, count)
           /\ line_lengths(text) = IF cut.line_start < Len(text) THEN Append(cut.lengths, Len(text) - cut.line_start) ELSE cut.lengths
           /\ text # Unreadable =>
                read_line_lengths_for_path(text) = (IF count.current_len > 0 \/ text = <<>> \/ text[Len(text)] # Newline
                                                    THEN Append(count.lines, count.current_len) ELSE count.lines)
<1> DEFINE N == Len(text)
<1>1. N \in Nat
  OBVIOUS
<1>2. PICK st : /\ line_starts(text) = st[N] /\ st[0] = <<0>>
                /\ \A k \in 1..N : st[k] = StartsNext(text, k, st[k - 1])
  BY <1>1, StartsUnfold
<1>3. PICK cu : /\ line_lengths(text) = (IF cu[N].line_start < N THEN Append(cu[N].lengths, N - cu[N].line_start) ELSE cu[N].lengths)
                /\ cu[0] = NoLengths /\ \A k \in 1..N : cu[k] = CutNext(text, k, cu[k - 1])
  BY <1>1, CutUnfolds
<1>4. PICK co : /\ (text # Unreadable => read_line_lengths_for_path(text) =
                      (IF co[N].current_len > 0 \/ text = <<>> \/ text[N] # Newline
                       THEN Append(co[N].lines, co[N].current_len) ELSE co[N].lines))
                /\ co[0] = NoLines /\ \A k \in 1..N : co[k] = CountNext(text, k, co[k - 1])
  BY <1>1, CountUnfolds
<1> HIDE DEF N
<1> DEFINE So == {k \in Nat : k <= N => Aligned(text, k, st[k], cu[k], co[k])}
<1>5. Aligned(text, 0, st[0], cu[0], co[0])
  <2>1. st[0] \in Seq(Nat) /\ Len(st[0]) = 1 /\ st[0][1] = 0
    BY <1>2
  <2>2. cu[0].lengths = <<>> /\ cu[0].line_start = 0 /\ <<>> \in Seq(Nat) /\ Len(<<>>) = 0
    BY <1>3 DEF NoLengths
  <2>3. co[0] = [lines |-> cu[0].lengths, current_len |-> 0 - cu[0].line_start]
    BY <1>4, <2>2 DEF NoLines
  <2>4. \A i \in 1..1 : i = 1
    OBVIOUS
  <2>5. /\ \A i \in 1..Len(st[0]) : st[0][i] <= 0
        /\ \A i, j \in 1..Len(st[0]) : ~(i < j)
    BY <2>1, <2>4
  <2>6. Len(cu[0].lengths) = Len(st[0]) - 1 /\ cu[0].line_start = st[0][Len(st[0])] /\ ~(0 > 0)
    BY <2>1, <2>2
  <2>7. \A i \in 1..Len(cu[0].lengths) : FALSE
    BY <2>2
  <2> QED BY <2>1, <2>2, <2>3, <2>5, <2>6, <2>7 DEF Aligned
<1>6. ASSUME NEW k \in Nat, k + 1 <= N, Aligned(text, k, st[k], cu[k], co[k])
      PROVE  Aligned(text, k + 1, st[k + 1], cu[k + 1], co[k + 1])
  <2>1. k + 1 \in 1..N /\ (k + 1) - 1 = k
    BY <1>1, <1>6
  <2>2. /\ st[k + 1] = StartsNext(text, k + 1, st[k]) /\ cu[k + 1] = CutNext(text, k + 1, cu[k])
        /\ co[k + 1] = CountNext(text, k + 1, co[k])
    BY <1>2, <1>3, <1>4, <2>1
  <2> QED BY <1>6, <2>2, AlignedNext
<1>7. So = Nat
  <2>1. 0 \in So
    BY <1>5
  <2>2. ASSUME NEW k \in So PROVE k + 1 \in So
    BY <1>1, <1>6
  <2>3. So \in SUBSET Nat
    OBVIOUS
  <2> HIDE DEF So
  <2> QED BY <2>1, <2>2, <2>3, Induction
<1>8. N \in So
  <2> HIDE DEF So
  <2> QED BY <1>1, <1>7
<1>9. Aligned(text, N, st[N], cu[N], co[N])
  BY <1>1, <1>8
<1> QED BY <1>2, <1>3, <1>4, <1>9 DEF N

(* The line an offset is in: it starts there or before, the next one after.*)
LEMMA LineOfOffset ==
  ASSUME NEW text, line_starts(text) \in Seq(Nat), Len(line_starts(text)) >= 1, line_starts(text)[1] = 0,
         NEW offset \in Nat
  PROVE  LET starts == line_starts(text)
             n == byte_to_line(text, offset)
         IN  /\ n \in 1..Len(starts) /\ starts[n] <= offset
             /\ n < Len(starts) => starts[n + 1] > offset
<1> DEFINE starts == line_starts(text)
           Fits == {n \in 1..Len(starts) : starts[n] <= offset}
<1>1. starts \in Seq(Nat) /\ Len(starts) \in Nat /\ DOMAIN starts = 1..Len(starts)
      /\ \A n \in 1..Len(starts) : starts[n] \in Nat
  OBVIOUS
<1> HIDE DEF starts
<1>2. Fits \in SUBSET (0..Len(starts)) /\ 1 \in Fits
  BY <1>1 DEF starts
<1>3. \E n \in Fits : \A m \in Fits : m <= n
  <2> HIDE DEF Fits
  <2> QED BY <1>1, <1>2, NatMax
<1>4. \E n \in DOMAIN starts : starts[n] <= offset /\ \A m \in DOMAIN starts : starts[m] <= offset => m <= n
  BY <1>1, <1>3
<1> DEFINE n == byte_to_line(text, offset)
<1>5. n \in DOMAIN starts /\ starts[n] <= offset /\ \A m \in DOMAIN starts : starts[m] <= offset => m <= n
  BY <1>4 DEF byte_to_line, starts
<1> HIDE DEF n
<1>6. n < Len(starts) => starts[n + 1] > offset
  <2> SUFFICES ASSUME n < Len(starts) PROVE starts[n + 1] > offset
    OBVIOUS
  <2>1. n \in Nat /\ n + 1 \in DOMAIN starts /\ ~(n + 1 <= n)
    BY <1>1, <1>5
  <2>2. ~(starts[n + 1] <= offset) /\ starts[n + 1] \in Nat
    BY <1>1, <1>5, <2>1
  <2> QED BY <2>2
<1> QED BY <1>1, <1>5, <1>6 DEF starts, n

(* With a table that has what lies between starts, a reader finds them.    *)
LEMMA DecodesStart ==
  ASSUME NEW starts \in Seq(Nat), NEW lengths \in Seq(Nat), NEW ln \in 1..Len(starts), starts[1] = 0,
         ln - 1 <= Len(lengths), \A i \in 1..(ln - 1) : starts[i + 1] = starts[i] + lengths[i] + 1,
         NEW column \in Nat
  PROVE  Decode(lengths, ln, column) = starts[ln] + column - 1
<1> DEFINE Is(f) == f = [k \in 0..(ln - 1) |-> IF k = 0 THEN 0 ELSE f[k - 1] + lengths[k] + 1]
           g == [k \in 0..(ln - 1) |-> starts[k + 1]]
           h == CHOOSE f : Is(f)
<1>1. Len(starts) \in Nat /\ ln \in Nat /\ ln >= 1 /\ \A i \in 1..Len(starts) : starts[i] \in Nat
  OBVIOUS
<1>2. Is(g)
  <2>1. ASSUME NEW k \in 0..(ln - 1) PROVE g[k] = IF k = 0 THEN 0 ELSE g[k - 1] + lengths[k] + 1
    <3>1. CASE k = 0
      BY <1>1, <3>1
    <3>2. CASE k # 0
      <4>1. k \in 1..(ln - 1) /\ k - 1 \in 0..(ln - 1) /\ (k - 1) + 1 = k
        BY <1>1, <3>2
      <4>2. g[k] = starts[k + 1] /\ g[k - 1] = starts[k]
        BY <4>1
      <4>3. starts[k + 1] = starts[k] + lengths[k] + 1
        BY <4>1
      <4> HIDE DEF g
      <4> QED BY <3>2, <4>2, <4>3
    <3> HIDE DEF g
    <3> QED BY <3>1, <3>2
  <2>2. g = [k \in 0..(ln - 1) |-> g[k]]
    OBVIOUS
  <2> HIDE DEF g
  <2> QED BY <2>1, <2>2
<1>3. Is(h)
  <2> HIDE DEF Is
  <2> QED BY <1>2
<1> HIDE DEF h
<1>4. \A k \in 0..(ln - 1) : h[k] = IF k = 0 THEN 0 ELSE h[k - 1] + lengths[k] + 1
  BY <1>3, Zenon
<1> DEFINE So == {k \in Nat : k <= ln - 1 => h[k] = starts[k + 1]}
<1>5. So = Nat
  <2>1. 0 \in So
    <3>1. 0 \in 0..(ln - 1)
      BY <1>1
    <3>2. h[0] = 0
      BY <1>4, <3>1
    <3> QED BY <3>2
  <2>2. ASSUME NEW k \in So PROVE k + 1 \in So
    <3> SUFFICES ASSUME k + 1 <= ln - 1 PROVE h[k + 1] = starts[(k + 1) + 1]
      BY <2>2
    <3>1. k + 1 \in 1..(ln - 1) /\ k + 1 \in 0..(ln - 1) /\ k + 1 # 0 /\ (k + 1) - 1 = k /\ k <= ln - 1
      BY <1>1, <2>2
    <3>2. h[k] = starts[k + 1]
      BY <2>2, <3>1
    <3>3. h[k + 1] = h[k] + lengths[k + 1] + 1
      BY <1>4, <3>1
    <3> QED BY <3>1, <3>2, <3>3
  <2>3. So \in SUBSET Nat
    OBVIOUS
  <2> HIDE DEF So
  <2> QED BY <2>1, <2>2, <2>3, Induction
<1>6. h[ln - 1] = starts[ln]
  <2>1. ln - 1 \in Nat /\ (ln - 1) + 1 = ln /\ ln - 1 <= ln - 1
    BY <1>1
  <2>2. ln - 1 \in So
    <3> HIDE DEF So
    <3> QED BY <1>5, <2>1
  <2> QED BY <2>1, <2>2
<1>7. Decode(lengths, ln, column) = h[ln - 1] + column - 1
  BY DEF Decode, h
<1> QED BY <1>6, <1>7

LEMMA TextRoundTrips ==
  ASSUME NEW text, NEW S, text \in Seq(S), text # <<>> => text # Unreadable
  PROVE  /\ PositionsRoundTripIn(text)
         /\ line_lengths(text) \in Seq(Nat)
         /\ text # Unreadable => read_line_lengths_for_path(text) \in Seq(Nat)
<1> DEFINE N == Len(text)
           starts == line_starts(text)
           lengths == line_lengths(text)
           L == Len(starts)
<1>1. PICK cut, count :
           /\ Aligned(text, N, starts, cut, count)
           /\ lengths = IF cut.line_start < N THEN Append(cut.lengths, N - cut.line_start) ELSE cut.lengths
           /\ text # Unreadable =>
                read_line_lengths_for_path(text) = (IF count.current_len > 0 \/ text = <<>> \/ text[N] # Newline
                                                    THEN Append(count.lines, count.current_len) ELSE count.lines)
  BY AlignedAtTheEnd
<1>2. N \in Nat /\ (text = <<>> <=> N = 0)
  OBVIOUS
<1> HIDE DEF N, starts, lengths
<1>3. /\ starts \in Seq(Nat) /\ L \in Nat /\ L >= 1 /\ starts[1] = 0
      /\ \A i \in 1..L : starts[i] \in Nat /\ starts[i] <= N
      /\ cut.lengths \in Seq(Nat) /\ Len(cut.lengths) = L - 1 /\ cut.line_start = starts[L]
      /\ \A i \in 1..(L - 1) : starts[i + 1] = starts[i] + cut.lengths[i] + 1
      /\ count.lines = cut.lengths /\ count.current_len = N - cut.line_start
      /\ N > 0 /\ text[N] # Newline => cut.line_start < N
  <2>1. starts \in Seq(Nat) /\ L \in Nat /\ \A i \in 1..L : starts[i] \in Nat
    <3>1. starts \in Seq(Nat)
      BY <1>1 DEF Aligned
    <3> QED BY <3>1
  <2>2. count.lines = cut.lengths /\ count.current_len = N - cut.line_start
    BY <1>1 DEF Aligned
  <2>3. Len(cut.lengths) = L - 1
    BY <1>1 DEF Aligned
  <2>4. \A i \in 1..(L - 1) : starts[i + 1] = starts[i] + cut.lengths[i] + 1
    BY <1>1, <2>3 DEF Aligned
  <2> QED BY <1>1, <2>1, <2>2, <2>3, <2>4 DEF Aligned
<1> HIDE DEF L
<1>4. cut.line_start \in Nat /\ cut.line_start <= N /\ L \in 1..L
  BY <1>3
<1>5. text # <<>> => read_line_lengths_for_path(text) = lengths
  <2> SUFFICES ASSUME text # <<>> PROVE read_line_lengths_for_path(text) = lengths
    OBVIOUS
  <2>1. N > 0
    BY <1>2
  <2>2. count.current_len > 0 <=> cut.line_start < N
    BY <1>2, <1>3, <1>4
  <2>3. (count.current_len > 0 \/ text = <<>> \/ text[N] # Newline) <=> cut.line_start < N
    BY <1>3, <2>1, <2>2
  <2> QED BY <1>1, <1>3, <2>3
<1>6. /\ lengths \in Seq(Nat) /\ Len(lengths) \in {L, L - 1}
      /\ \A i \in 1..(L - 1) : lengths[i] = cut.lengths[i]
      /\ starts[L] < N => Len(lengths) = L /\ lengths[L] = N - starts[L]
  <2>1. CASE cut.line_start < N
    <3>1. lengths = Append(cut.lengths, N - cut.line_start) /\ N - cut.line_start \in Nat
      BY <1>1, <1>2, <1>4, <2>1
    <3>2. /\ lengths \in Seq(Nat) /\ Len(lengths) = Len(cut.lengths) + 1
          /\ lengths[Len(cut.lengths) + 1] = N - cut.line_start
          /\ \A i \in 1..Len(cut.lengths) : lengths[i] = cut.lengths[i]
      BY <1>3, <3>1
    <3>3. Len(cut.lengths) + 1 = L
      BY <1>3
    <3> QED BY <1>3, <3>2, <3>3
  <2>2. CASE ~(cut.line_start < N)
    <3>1. lengths = cut.lengths
      BY <1>1, <2>2
    <3> QED BY <1>3, <2>2, <3>1
  <2> QED BY <2>1, <2>2
<1>7. ASSUME NEW offset \in 0..(N - 1)
      PROVE  LET pos == byte_to_line_col(text, offset) IN
             /\ pos[1] \in DOMAIN lengths
             /\ pos[2] \in 1..(lengths[pos[1]] + 1)
             /\ Decode(lengths, pos[1], pos[2]) = offset
             /\ pos[2] = column_for_line_offset(pos[1], pos[2] - 1)
  <2> DEFINE n == byte_to_line(text, offset)
             column == offset - starts[n] + 1
  <2>1. offset \in Nat /\ offset < N
    BY <1>2
  <2>2. n \in 1..L /\ starts[n] <= offset /\ (n < L => starts[n + 1] > offset)
    BY <1>3, <2>1, LineOfOffset DEF starts, L
  <2>3. byte_to_line_col(text, offset) = <<n, column>>
    BY DEF byte_to_line_col, starts
  <2> HIDE DEF n
  <2>4. n \in Nat /\ n >= 1 /\ n # 0 /\ starts[n] \in Nat /\ DOMAIN lengths = 1..Len(lengths) /\ Len(lengths) \in Nat
    BY <1>3, <1>6, <2>2
  <2>5. column \in Nat /\ column >= 1 /\ column = offset - starts[n] + 1
    BY <2>1, <2>2, <2>4
  <2> HIDE DEF column
  <2>6. n \in 1..Len(lengths) /\ column <= lengths[n] + 1 /\ lengths[n] \in Nat
    <3>1. CASE n = L
      <4>2. starts[L] < N
        BY <1>2, <2>1, <2>2, <2>4, <3>1
      <4>1. Len(lengths) = L /\ lengths[L] = N - starts[L]
        BY <1>6, <4>2
      <4> QED BY <1>2, <2>1, <2>2, <2>4, <2>5, <3>1, <4>1
    <3>2. CASE n # L
      <4>4. Len(lengths) \in Nat /\ Len(lengths) >= L - 1
        BY <1>3, <1>6
      <4>1. n \in 1..(L - 1) /\ n \in 1..Len(lengths) /\ n < L
        BY <1>3, <2>2, <2>4, <3>2, <4>4
      <4>2. lengths[n] \in Nat
        BY <1>6, <4>1
      <4>3. starts[n + 1] = starts[n] + lengths[n] + 1 /\ starts[n + 1] > offset
        BY <1>3, <1>6, <2>2, <4>1
      <4> QED BY <2>1, <2>4, <2>5, <4>1, <4>2, <4>3
    <3> QED BY <3>1, <3>2
  <2>7. Decode(lengths, n, column) = offset
    <3>1. n \in 1..Len(starts)
      BY <2>2 DEF L
    <3>2. n - 1 <= Len(lengths)
      BY <2>4, <2>6
    <3>3. ASSUME NEW i \in 1..(n - 1) PROVE starts[i + 1] = starts[i] + lengths[i] + 1
      <4>1. i \in 1..(L - 1)
        BY <1>3, <2>2, <2>4
      <4> QED BY <1>3, <1>6, <4>1
    <3>4. Decode(lengths, n, column) = starts[n] + column - 1
      BY <1>3, <1>6, <2>5, <3>1, <3>2, <3>3, DecodesStart
    <3> QED BY <2>1, <2>4, <2>5, <3>4
  <2>8. column_for_line_offset(n, column - 1) = column
    BY <2>4, <2>5 DEF column_for_line_offset
  <2> DEFINE pos == byte_to_line_col(text, offset)
  <2>9. pos[1] = n /\ pos[2] = column
    BY <2>3
  <2> HIDE DEF pos
  <2>10. pos[2] \in 1..(lengths[pos[1]] + 1)
    BY <2>5, <2>6, <2>9
  <2>11. pos[1] \in DOMAIN lengths
    BY <2>4, <2>6, <2>9
  <2> QED BY <2>7, <2>8, <2>9, <2>10, <2>11 DEF pos
<1>8. Len(lengths) \in {line_count(text), line_count(text) - 1}
  BY <1>6 DEF line_count, starts, L
<1>9. text # Unreadable => read_line_lengths_for_path(text) \in Seq(Nat)
  <2>1. count.lines \in Seq(Nat) /\ count.current_len \in Nat
    BY <1>2, <1>3, <1>4
  <2>2. Append(count.lines, count.current_len) \in Seq(Nat)
    BY <2>1
  <2> QED BY <1>1, <2>1, <2>2
<1> QED BY <1>5, <1>6, <1>7, <1>8, <1>9 DEF PositionsRoundTripIn, N, lengths

-----------------------------------------------------------------------------
TextKept == program.text \in Seq(ToSet(program.text)) /\ (program.text # <<>> => program.text # Unreadable)

LEMMA InitText == Init => TextKept
<1> SUFFICES ASSUME Init PROVE TextKept
  OBVIOUS
<1>1. PICK p \in Programs \cup {Nothing} : RecordInit(p)
  BY DEF Init
<1>2. CASE p \in Programs
  BY <1>1, <1>2, ProgramsAssumption DEF RecordInit, TextKept
<1>3. CASE p = Nothing
  <2>1. <<>> \in Seq(ToSet(<<>>))
    BY DEF ToSet
  <2>2. program.text = <<>>
    BY <1>1, <1>3 DEF RecordInit, Nothing
  <2> QED BY <2>1, <2>2 DEF TextKept
<1> QED BY <1>2, <1>3

(* Every byte of the program is found again from its line and column, and  *)
(* its line lengths are those a reader of the file would count             *)
(* (source_map.rs), for every text.                                        *)
THEOREM PositionsAlwaysRoundTrip == Spec => []PositionsRoundTrip
<1>1. TextKept /\ [Next]_recorderVars => TextKept'
  BY ProgramStays DEF TextKept
<1>2. TextKept => PositionsRoundTrip
  BY TextRoundTrips DEF TextKept, PositionsRoundTrip
<1>3. Spec => []TextKept
  BY InitText, <1>1, PTL DEF Spec
<1> QED
  BY <1>2, <1>3, PTL

-----------------------------------------------------------------------------
(***************************************************************************)
(* Type correctness.  What the replay of loops counts stays in its range   *)
(* because a loop is left when it reaches the cap, and its closing line is *)
(* one of the function's.                                                  *)
(***************************************************************************)
LoopTyped ==
  /\ loop \in 0..Len(body) /\ line \in Nat \ {0} /\ capped \in BOOLEAN
  /\ iters \in 0..MaxIters /\ (loop # 0 => iters < MaxIters)

TableTyped ==
  /\ table = NoTable \/ table \in Seq(Nat)
  /\ rerun \in {"none", "ran", "skipped"}
  /\ lines \in Nat \ {0}

LEMMA InitTypes == Init => LoopTyped /\ TableTyped
<1> SUFFICES ASSUME Init PROVE LoopTyped /\ TableTyped
  OBVIOUS
<1>1. Len(body) \in Nat
  <2>1. body \in Seq(ToSet(body))
    BY InitProgram DEF ProgramKept
  <2> QED
    BY <2>1
<1>2. line = 1 /\ loop = 0 /\ iters = 0 /\ capped = FALSE
  BY DEF Init, RecordInit, LoopInit
<1>3. TableTyped
  BY DEF Init, BundleInit, ReplayInit, TableTyped
<1>4. capped \in BOOLEAN
  BY <1>2
<1>5. loop \in 0..Len(body) /\ line \in Nat \ {0}
  BY <1>1, <1>2
<1>6. iters \in 0..MaxIters /\ ~(loop # 0)
  BY <1>2, MaxItersAssumption
<1> QED
  BY <1>3, <1>4, <1>5, <1>6 DEF LoopTyped

(* Outside the walk of a function nothing of its loops changes.            *)
LEMMA LoopsStay == [Next]_recorderVars => UNCHANGED loopVars \/ WalkRoot
<1> SUFFICES ASSUME [Next]_recorderVars, ~WalkRoot PROVE UNCHANGED loopVars
  OBVIOUS
<1>1. CASE record
  <2>1. CASE read_to_string \/ Compile \/ OpenRecording \/ LeaveRoot \/ TellPanic
    BY <2>1 DEF read_to_string, Compile, OpenRecording, LeaveRoot, TellPanic, recordVars
  <2>2. CASE StartProbe \/ ProbeStep \/ Run \/ CallRoot \/ Derive
    BY <2>2 DEF StartProbe, ProbeStep, Run, CallRoot, Derive
  <2> QED
    BY <1>1, <2>1, <2>2 DEF record
<1>2. CASE trace_starknet \/ replay
  BY <1>2 DEF trace_starknet, replay, recordVars
<1>3. CASE Locate \/ CheckDisabled \/ MakeFolder \/ CloseBundleFiles \/ Environment \/ UNCHANGED recorderVars
  BY <1>3 DEF Locate, CheckDisabled, MakeFolder, CloseBundleFiles, Environment, recorderVars, recordVars
<1> QED
  BY <1>1, <1>2, <1>3 DEF Next, main

LEMMA ClosingIsALine ==
  ASSUME NEW ls, ls \in Seq(ToSet(ls)), NEW k \in Nat
  PROVE  ClosingLine(ls, k) \in Nat
<1> DEFINE closed == {j \in (k + 1)..Len(ls) : Opened(ls, k, j) = Closed(ls, k, j)}
<1>1. CASE closed = {}
  BY <1>1 DEF ClosingLine
<1>2. CASE closed # {}
  <2>1. closed \in SUBSET Nat
    OBVIOUS
  <2> QED
    BY <1>2, <2>1, NatMin DEF ClosingLine
<1> QED
  BY <1>1, <1>2

LEMMA NextLoop == ProgramKept /\ LoopTyped /\ [Next]_recorderVars => LoopTyped'
<1> SUFFICES ASSUME ProgramKept, LoopTyped, [Next]_recorderVars PROVE LoopTyped'
  OBVIOUS
<1>0. Len(body) \in Nat /\ MaxIters \in Nat \ {0} /\ Closing \in Nat
  <2>1. body \in Seq(ToSet(body)) /\ loop \in Nat
    BY DEF ProgramKept, LoopTyped
  <2> QED
    BY <2>1, MaxItersAssumption, ClosingIsALine DEF Closing
<1>1. CASE UNCHANGED loopVars
  BY <1>1 DEF LoopTyped, loopVars
<1>2. CASE WalkLine
  <2>1. UNCHANGED <<body, loop, iters, capped>> /\ line' = line + 1
    BY <1>2 DEF WalkLine
  <2> QED
    BY <2>1 DEF LoopTyped
<1>3. CASE EnterLoop
  <2>1. UNCHANGED <<body, line, capped>> /\ loop' = line /\ iters' = 0 /\ line <= Len(body)
    BY <1>3 DEF EnterLoop
  <2> QED
    BY <1>0, <2>1 DEF LoopTyped
<1>4. CASE LoopTurn
  <2>1. UNCHANGED <<body, iters, capped>>
    BY <1>4 DEF LoopTurn
  <2>2. (line' = line + 1 /\ loop' = loop) \/ (line' = Closing + 1 /\ loop' = 0)
    BY <1>4 DEF LoopTurn
  <2> QED
    BY <1>0, <2>1, <2>2 DEF LoopTyped
<1>5. CASE LoopLine
  <2>1. UNCHANGED <<body, loop, iters, capped>> /\ line' = line + 1
    BY <1>5 DEF LoopLine
  <2> QED
    BY <2>1 DEF LoopTyped
<1>6. CASE LoopTurned
  <2>1. UNCHANGED body /\ iters' = iters + 1 /\ loop # 0
    BY <1>6 DEF LoopTurned
  <2>2. CASE iters + 1 >= MaxIters
    <3>1. loop' = 0 /\ line' = line + 1 /\ capped' = TRUE
      BY <1>6, <2>2 DEF LoopTurned
    <3> QED
      BY <1>0, <2>1, <3>1 DEF LoopTyped
  <2>3. CASE ~(iters + 1 >= MaxIters)
    <3>1. loop' = loop /\ line' = loop /\ capped' = capped
      BY <1>6, <2>3 DEF LoopTurned
    <3> QED
      BY <1>0, <2>1, <2>3, <3>1 DEF LoopTyped
  <2> QED
    BY <2>2, <2>3
<1> QED
  BY <1>1, <1>2, <1>3, <1>4, <1>5, <1>6, LoopsStay DEF WalkRoot

(* What the bundle is opened with is a table of lengths, whichever text it *)
(* is of.                                                                  *)
LEMMA OpenedWithLengths ==
  ASSUME NEW given, given \in Seq(Nat), OpenBundle(given), table = NoTable \/ table \in Seq(Nat)
  PROVE  table' \in Seq(Nat)
<1>1. <<>> \in Seq(Nat)
  OBVIOUS
<1>2. PICK registered \in {given, NoTable} : table' = Intern(Intern(table, registered), <<>>)
  BY DEF OpenBundle
<1> QED
  BY <1>1, <1>2 DEF Intern

LEMMA NextTables == TextKept /\ EntriesInv /\ TableTyped /\ [Next]_recorderVars => TableTyped'
<1> SUFFICES ASSUME TextKept, EntriesInv, TableTyped, [Next]_recorderVars PROVE TableTyped'
  OBVIOUS
<1>0. table = NoTable \/ table \in Seq(Nat)
  BY DEF TableTyped
<1>e. <<>> \in Seq(Nat)
  OBVIOUS
<1>1. CASE OpenRecording /\ record
  <2>1. line_lengths(program.text) \in Seq(Nat)
    BY TextRoundTrips DEF TextKept
  <2>2. UNCHANGED replayVars
    BY <1>1 DEF record
  <2>3. table' = table \/ table' \in Seq(Nat)
    BY <1>0, <1>1, <2>1, OpenedWithLengths DEF OpenRecording, Fail, Aside
  <2> QED
    BY <2>2, <2>3 DEF TableTyped, replayVars
<1>2. CASE record /\ ~OpenRecording
  <2>1. UNCHANGED <<replayVars, table>>
    <3> USE DEF Aside, Fail, Write
    <3>1. UNCHANGED replayVars
      BY <1>2 DEF record
    <3>2. CASE read_to_string \/ Compile \/ LeaveRoot \/ TellPanic \/ StartProbe \/ ProbeStep \/ Run \/ CallRoot
      BY <3>1, <3>2 DEF read_to_string, Compile, LeaveRoot, TellPanic, StartProbe, ProbeStep, Run, CallRoot
    <3>3. CASE Derive
      BY <3>1, <3>3 DEF Derive
    <3>4. CASE WalkRoot
      BY <3>1, <3>4 DEF WalkRoot, WalkLine, EnterLoop, LoopTurn, LoopLine, LoopTurned
    <3> QED
      BY <1>2, <3>2, <3>3, <3>4 DEF record
  <2> QED
    BY <2>1 DEF TableTyped, replayVars
<1>3. CASE trace_starknet
  <2>1. UNCHANGED replayVars /\ command = "trace_starknet"
    BY <1>3 DEF trace_starknet
  <2>2. CASE OpenSnforge
    <3>1. (IF file = Unreadable THEN <<>> ELSE read_line_lengths_for_path(file.text)) \in Seq(Nat)
      <4>1. CASE file = Unreadable
        BY <1>e, <4>1
      <4>2. CASE file # Unreadable
        <5>1. file \in Files
          BY <2>1, <4>2 DEF EntriesInv
        <5>2. file.text \in Seq(ToSet(file.text)) /\ file.text # Unreadable
          BY <5>1, FilesAssumption
        <5> QED
          BY <4>2, <5>2, TextRoundTrips
      <4> QED
        BY <4>1, <4>2
    <3>2. table' = table \/ table' \in Seq(Nat)
      BY <1>0, <2>2, <3>1, OpenedWithLengths DEF OpenSnforge, Fail, Aside
    <3> QED
      BY <2>1, <3>2 DEF TableTyped, replayVars
  <2>3. CASE parse_snforge_trace \/ entry_contract \/ WriteEntry \/ EntriesWritten
    <3>1. table' = table
      BY <2>3 DEF parse_snforge_trace, entry_contract, WriteEntry, EntriesWritten, Write, Aside, Fail
    <3> QED
      BY <2>1, <3>1 DEF TableTyped, replayVars
  <2> QED
    BY <1>3, <2>2, <2>3 DEF trace_starknet
<1>4. CASE replay
  <2>1. CASE SourceTrace(command = "replay_live") \/ WriteDiff \/ DiffsWritten \/ ReturnInvocation
    BY <2>1 DEF SourceTrace, WriteDiff, DiffsWritten, ReturnInvocation, Write, Aside, Fail, TableTyped, replayVars
  <2>2. CASE Reexecute
    <3>1. rerun' \in {"ran", "skipped"}
      BY <2>2 DEF Reexecute, reexecute_entry_point
    <3> QED
      BY <2>2, <3>1 DEF Reexecute, Aside, TableTyped
  <2>3. CASE OpenReplay
    <3>1. table' = table \/ table' \in Seq(Nat)
      BY <1>0, <1>e, <2>3, OpenedWithLengths DEF OpenReplay, Fail, Aside
    <3> QED
      BY <2>3, <3>1 DEF OpenReplay, TableTyped, replayVars
  <2>4. CASE write_invocation
    <3>1. lines' = lines + 1 /\ table' = table /\ rerun' = rerun
      BY <2>4 DEF write_invocation, Visit, Write
    <3> QED
      BY <3>1 DEF TableTyped
  <2> QED
    BY <1>4, <2>1, <2>2, <2>3, <2>4 DEF replay
<1>5. CASE Locate \/ CheckDisabled \/ MakeFolder \/ CloseBundleFiles \/ Environment \/ UNCHANGED recorderVars
  <2>1. CASE Locate \/ CheckDisabled \/ MakeFolder
    BY <2>1 DEF Locate, CheckDisabled, MakeFolder, create_dir_all, Fail, Aside, TableTyped, replayVars
  <2>2. CASE CloseBundleFiles
    BY <2>2 DEF CloseBundleFiles, Close, Fail, Aside, TableTyped, replayVars
  <2>3. CASE Environment \/ UNCHANGED recorderVars
    BY <2>3 DEF Environment, FileChanges, bundleVars, recorderVars, TableTyped, replayVars
  <2> QED
    BY <1>5, <2>1, <2>2, <2>3
<1> QED
  BY <1>1, <1>2, <1>3, <1>4, <1>5 DEF Next, main

LEMMA DiskIsAStage == PhasesInv => \E i \in DOMAIN Stages : disk = Stages[i]
<1>1. DOMAIN Stages = 1..6
  BY DEF Stages
<1>2. /\ Stages[1] = "nothing" /\ Stages[2] = "folder" /\ Stages[3] = "begun"
      /\ Stages[4] = "ended" /\ Stages[5] = "described" /\ Stages[6] = "closed"
  BY DEF Stages
<1>3. 1 \in 1..6 /\ 2 \in 1..6 /\ 3 \in 1..6 /\ 4 \in 1..6 /\ 5 \in 1..6 /\ 6 \in 1..6
  OBVIOUS
<1> QED
  BY <1>1, <1>2, <1>3 DEF PhasesInv, BundleByPhase

(* Every variable of the recorder has its type (src/src/main.rs), for any  *)
(* programs, trace files and node answers: a bundle holds only events of   *)
(* the five kinds, and the counters of loops and entries are in range.     *)
THEOREM RecorderTypeCorrect == Spec => []TypeOK
<1> DEFINE All == RecorderInv /\ EntriesInv /\ TextKept /\ LoopTyped /\ TableTyped
<1>1. Init => All
  BY InitRecorder, InitEntries, InitText, InitTypes
<1>2. All /\ [Next]_recorderVars => All'
  <2>1. RecorderInv => PhasesInv /\ CallsAreOpen /\ ProgramKept
    BY DEF RecorderInv
  <2>2. TextKept /\ [Next]_recorderVars => TextKept'
    BY ProgramStays DEF TextKept
  <2> QED
    BY <2>1, <2>2, NextRecorder, NextEntries, NextLoop, NextTables
<1>3. All => TypeOK
  <2> SUFFICES ASSUME All PROVE TypeOK
    OBVIOUS
  <2>1. \E i \in DOMAIN Stages : disk = Stages[i]
    BY DiskIsAStage DEF RecorderInv
  <2>2. disabled \in BOOLEAN /\ command \in Commands
    BY DEF RecorderInv, PhasesInv, DisabledByPhase
  <2>3. \A i \in DOMAIN out : out[i].ev \in {"step", "value", "call", "return", "special"}
    BY DEF RecorderInv, CallsAreOpen, OfKinds
  <2>4. BundleTypeOK
    BY <2>1, <2>2, <2>3 DEF BundleTypeOK, TableTyped
  <2> QED
    BY <2>2, <2>4 DEF TypeOK, LoopTyped, TableTyped, EntriesInv
<1> HIDE DEF All
<1> QED
  BY <1>1, <1>2, <1>3, PTL DEF Spec

-----------------------------------------------------------------------------
(***************************************************************************)
(* The loops.  What the walk of a function tells of its loops is compared  *)
(* with an execution of its lines; the first lemmas unfold that.           *)
(***************************************************************************)
AtFirst == [at |-> 1, vars |-> <<>>, told |-> <<>>]

ExecuteNext(f, n) ==
  IF n = 0 THEN AtFirst ELSE IF f[n - 1].at > Len(body) THEN f[n - 1] ELSE ExecuteLine(f[n - 1])

LEMMA MostLinesIsNat == body \in Seq(ToSet(body)) => MostLines \in Nat
<1> SUFFICES ASSUME body \in Seq(ToSet(body)) PROVE MostLines \in Nat
  OBVIOUS
<1>1. Len(body) \in Nat /\ MaxIters \in Nat
  BY MaxItersAssumption
<1> QED
  BY <1>1 DEF MostLines

LEMMA ExecutionUnfolds ==
  ASSUME body \in Seq(ToSet(body))
  PROVE  execution[0] = AtFirst /\ \A n \in 1..MostLines : execution[n] = ExecuteNext(execution, n)
<1> DEFINE N == MostLines
           Upto(k) == \E f : f = [n \in 0..k |-> ExecuteNext(f, n)]
           Holding == {k \in Nat : Upto(k)}
<1>1. N \in Nat
  BY MostLinesIsNat
<1> HIDE DEF N
<1>2. Upto(0)
  <2>1. [n \in 0..0 |-> AtFirst] = [n \in 0..0 |-> ExecuteNext([m \in 0..0 |-> AtFirst], n)]
    BY DEF ExecuteNext
  <2> QED
    BY <2>1
<1>3. ASSUME NEW k \in Nat, Upto(k)
      PROVE  Upto(k + 1)
  <2>1. PICK f : f = [n \in 0..k |-> ExecuteNext(f, n)]
    BY <1>3
  <2> DEFINE g == [n \in 0..(k + 1) |-> IF n = k + 1 THEN ExecuteNext(f, n) ELSE f[n]]
  <2>2. ASSUME NEW n \in 0..(k + 1) PROVE g[n] = ExecuteNext(g, n)
    <3>1. n # 0 => n - 1 \in 0..k /\ n - 1 \in 0..(k + 1) /\ n - 1 # k + 1
      OBVIOUS
    <3>2. n # 0 => g[n - 1] = f[n - 1]
      BY <3>1
    <3>3. ExecuteNext(g, n) = ExecuteNext(f, n)
      <4> HIDE DEF g
      <4>1. CASE n = 0
        BY <4>1 DEF ExecuteNext
      <4>2. CASE n # 0
        BY <3>2, <4>2, Zenon DEF ExecuteNext
      <4> QED BY <4>1, <4>2
    <3>4. n # k + 1 => n \in 0..k
      OBVIOUS
    <3>5. n # k + 1 => f[n] = ExecuteNext(f, n)
      BY <3>4, <2>1
    <3> QED
      BY <3>3, <3>5
  <2>3. g = [n \in 0..(k + 1) |-> g[n]]
    OBVIOUS
  <2>4. g = [n \in 0..(k + 1) |-> ExecuteNext(g, n)]
    <3> HIDE DEF g
    <3> QED BY <2>2, <2>3
  <2> QED
    <3> HIDE DEF g
    <3> QED BY <2>4
<1>4. Upto(N)
  <2>1. 0 \in Holding /\ \A k \in Holding : k + 1 \in Holding
    BY <1>2, <1>3
  <2>2. Holding = Nat
    <3> HIDE DEF Holding
    <3>1. Holding \in SUBSET Nat
      BY DEF Holding
    <3> QED BY <2>1, <3>1, Induction
  <2> QED
    BY <1>1, <2>2
<1>5. PICK f : f = [n \in 0..N |-> ExecuteNext(f, n)]
  BY <1>4
<1>6. execution = [n \in 0..N |-> ExecuteNext(execution, n)]
  BY <1>5 DEF execution, ExecuteNext, AtFirst, N
<1> HIDE DEF Upto, Holding
<1>7. \A n \in 0..N : execution[n] = ExecuteNext(execution, n)
  BY <1>6, Zenon
<1>8. 0 \in 0..N /\ \A n \in 1..N : n \in 0..N
  BY <1>1
<1> QED
  BY <1>7, <1>8 DEF ExecuteNext, N

StepOf(k) == IF Stepping(k) THEN <<StepEv(k)>> ELSE <<>>
ValueOf(k, vars) == IF InLoop(k) /\ body[k].do = "set" THEN <<ValueEv(k, body[k].x, vars[body[k].x])>> ELSE <<>>

LEMMA LineExecuted ==
  ASSUME NEW before
  PROVE  /\ ExecuteLine(before).at = After(body, before.at, before.vars)
         /\ ExecuteLine(before).vars = Assigned(body[before.at], before.vars)
         /\ ExecuteLine(before).told = before.told \o StepOf(before.at)
                                       \o ValueOf(before.at, Assigned(body[before.at], before.vars))
<1> DEFINE a == After(body, before.at, before.vars)
           vars == Assigned(body[before.at], before.vars)
           told == before.told \o StepOf(before.at) \o ValueOf(before.at, vars)
<1>1. ExecuteLine(before) = [at |-> a, vars |-> vars, told |-> told]
  BY Zenon DEF ExecuteLine, StepOf, ValueOf
<1> HIDE DEF a, vars, told
<1>2. ExecuteLine(before).at = a /\ ExecuteLine(before).vars = vars /\ ExecuteLine(before).told = told
  BY <1>1
<1> QED
  BY <1>2 DEF a, vars, told

(* What is told after each line goes on from what was told before it.      *)
LEMMA TellsMore ==
  ASSUME body \in Seq(ToSet(body)), NEW n \in 1..MostLines, IsSequence(execution[n - 1].told)
  PROVE  \E w : IsSequence(w) /\ execution[n].told = execution[n - 1].told \o w
<1>1. execution[n] = IF execution[n - 1].at > Len(body) THEN execution[n - 1] ELSE ExecuteLine(execution[n - 1])
  BY ExecutionUnfolds, MostLinesIsNat DEF ExecuteNext
<1> DEFINE before == execution[n - 1]
<1>2. CASE before.at > Len(body)
  <2>1. before.told = before.told \o <<>> /\ IsSequence(<<>>)
    BY Tuples, ConcatEmptySeq DEF IsSequence
  <2> QED
    BY <1>1, <1>2, <2>1
<1>3. CASE ~(before.at > Len(body))
  <2> DEFINE v == StepOf(before.at)
             u == ValueOf(before.at, Assigned(body[before.at], before.vars))
  <2>1. execution[n].told = (before.told \o v) \o u
    <3>1. execution[n] = ExecuteLine(before)
      BY <1>1, <1>3
    <3> HIDE DEF before
    <3>2. ExecuteLine(before).told = (before.told \o v) \o u
      BY LineExecuted
    <3> QED
      BY <3>1, <3>2
  <2>2. IsSequence(v) /\ IsSequence(u)
    BY Tuples DEF StepOf, ValueOf
  <2> HIDE DEF v, u
  <2>3. PICK S : before.told \in Seq(S) /\ v \in Seq(S) /\ u \in Seq(S)
    BY <2>2, ThreeSequences
  <2> DEFINE w == before.told
  <2>0. w \in Seq(S)
    BY <2>3
  <2> HIDE DEF w
  <2>4. (w \o v) \o u = w \o (v \o u)
    BY <2>0, <2>3, ConcatAssociative
  <2>5. IsSequence(v \o u)
    BY <2>2, Concatenation
  <2> QED
    BY <2>1, <2>4, <2>5 DEF w
<1> QED
  BY <1>2, <1>3

(* For sequences, a prefix is the same element by element.                 *)
LEMMA PrefixByElements ==
  ASSUME NEW s, NEW t, IsSequence(s), IsSequence(t)
  PROVE  IsPrefix(s, t) <=> Len(s) <= Len(t) /\ \A i \in 1..Len(s) : s[i] = t[i]
<1>1. PICK S : s \in Seq(S) /\ t \in Seq(S)
  BY ThreeSequences
<1>2. SubSeq(s, 1, Len(s)) = s
  BY <1>1, SubSeqFull
<1>3. Len(s) <= Len(t) => /\ SubSeq(t, 1, Len(s)) \in Seq(S) /\ Len(SubSeq(t, 1, Len(s))) = Len(s)
                         /\ \A i \in 1..Len(s) : SubSeq(t, 1, Len(s))[i] = t[i]
  <2> SUFFICES ASSUME Len(s) <= Len(t)
               PROVE  /\ SubSeq(t, 1, Len(s)) \in Seq(S) /\ Len(SubSeq(t, 1, Len(s))) = Len(s)
                      /\ \A i \in 1..Len(s) : SubSeq(t, 1, Len(s))[i] = t[i]
    OBVIOUS
  <2>1. Len(s) \in Nat /\ \A i \in 1..Len(s) : t[i] \in S
    BY <1>1
  <2> QED
    BY <2>1, SubSeqProperties
<1>4. CASE Len(s) <= Len(t)
  <2> DEFINE p == SubSeq(t, 1, Len(s))
  <2>1. p \in Seq(S) /\ Len(p) = Len(s) /\ \A i \in 1..Len(s) : p[i] = t[i]
    BY <1>3, <1>4
  <2>2. IsPrefix(s, t) <=> s = p
    BY <1>2, <1>4 DEF IsPrefix
  <2> HIDE DEF p
  <2>3. s = p <=> \A i \in 1..Len(s) : s[i] = p[i]
    BY <1>1, <2>1, SeqEqual
  <2> QED
    BY <1>4, <2>1, <2>2, <2>3
<1> QED
  BY <1>4 DEF IsPrefix

LEMMA PrefixOfMore ==
  ASSUME NEW r, NEW s, NEW t, IsSequence(r), IsSequence(s), IsSequence(t), IsPrefix(r, s)
  PROVE  IsPrefix(r, s \o t)
<1>1. Len(r) <= Len(s) /\ \A i \in 1..Len(r) : r[i] = s[i]
  BY PrefixByElements
<1>2. /\ IsSequence(s \o t) /\ Len(s \o t) = Len(s) + Len(t) /\ Len(s) \in Nat /\ Len(t) \in Nat
      /\ \A i \in 1..Len(s) : (s \o t)[i] = s[i]
  BY Concatenation
<1>3. Len(r) \in Nat
  BY DEF IsSequence
<1>4. Len(r) <= Len(s \o t) /\ \A i \in 1..Len(r) : r[i] = (s \o t)[i]
  BY <1>1, <1>2, <1>3
<1> QED
  BY <1>2, <1>4, PrefixByElements

LEMMA ToldBefore ==
  ASSUME body \in Seq(ToSet(body)), NEW n \in 0..MostLines
  PROVE  IsPrefix(execution[n].told, Executed) /\ IsSequence(execution[n].told)
<1> DEFINE N == MostLines
           told(k) == execution[k].told
           Sequences == {k \in Nat : k <= N => IsSequence(told(k))}
           Later == {k \in Nat : n + k <= N => IsPrefix(told(n), told(n + k))}
<1>1. N \in Nat
  BY MostLinesIsNat
<1>2. Sequences = Nat
  <2>1. 0 \in Sequences
    <3>1. execution[0].told = <<>>
      BY ExecutionUnfolds DEF AtFirst
    <3>2. IsSequence(<<>>)
      BY Tuples
    <3> QED
      BY <3>1, <3>2
  <2>2. ASSUME NEW k \in Sequences PROVE k + 1 \in Sequences
    <3> SUFFICES ASSUME k + 1 <= N PROVE IsSequence(told(k + 1))
      OBVIOUS
    <3>1. k + 1 \in 1..N /\ (k + 1) - 1 = k /\ IsSequence(told(k))
      BY <1>1, <2>2
    <3>2. PICK w : IsSequence(w) /\ told(k + 1) = told(k) \o w
      BY <3>1, TellsMore
    <3> QED
      BY <3>1, <3>2, Concatenation
  <2> HIDE DEF Sequences
  <2>3. Sequences \in SUBSET Nat
    BY DEF Sequences
  <2> QED
    BY <2>1, <2>2, <2>3, Induction
<1>3. Later = Nat
  <2>1. 0 \in Later
    <3>1. IsSequence(told(n)) /\ n + 0 = n
      BY <1>1, <1>2
    <3>2. IsPrefix(told(n), told(n))
      BY <3>1, PrefixByElements DEF IsSequence
    <3> QED
      BY <3>1, <3>2
  <2>2. ASSUME NEW k \in Later PROVE k + 1 \in Later
    <3> SUFFICES ASSUME n + (k + 1) <= N PROVE IsPrefix(told(n), told(n + (k + 1)))
      OBVIOUS
    <3>1. n + (k + 1) \in 1..N /\ (n + (k + 1)) - 1 = n + k /\ n + k \in Nat /\ n + k <= N /\ n \in Nat /\ n <= N
      BY <1>1, <2>2
    <3>2. IsSequence(told(n + k)) /\ IsPrefix(told(n), told(n + k)) /\ IsSequence(told(n))
      BY <1>2, <2>2, <3>1
    <3>3. PICK w : IsSequence(w) /\ told(n + (k + 1)) = told(n + k) \o w
      <4> HIDE DEF N
      <4> DEFINE j == n + (k + 1)
      <4>1. j \in 1..MostLines /\ IsSequence(execution[j - 1].told) /\ execution[j - 1].told = told(n + k)
        BY <3>1, <3>2 DEF N
      <4> HIDE DEF j
      <4>2. \E w : IsSequence(w) /\ execution[j].told = execution[j - 1].told \o w
        BY <4>1, TellsMore
      <4> QED
        BY <4>1, <4>2 DEF j
    <3> HIDE DEF told
    <3> QED
      BY <3>2, <3>3, PrefixOfMore
  <2> HIDE DEF Later
  <2>3. Later \in SUBSET Nat
    BY DEF Later
  <2> QED
    BY <2>1, <2>2, <2>3, Induction
<1>4. N - n \in Nat /\ n + (N - n) = N
  BY <1>1
<1>5. IsPrefix(told(n), told(n + (N - n)))
  <2>1. N - n \in Later
    BY <1>3, <1>4
  <2> QED
    BY <1>4, <2>1
<1>6. IsSequence(told(n))
  BY <1>1, <1>2
<1> QED
  BY <1>4, <1>5, <1>6 DEF Executed

(* Every loop of the function is within the simulator's means.             *)
AllWithinMeans == \A k \in Branches : \E l \in parse_while_loops(body) : k = l.header /\ WithinMeans(l)

ClosingOf(h) == ClosingLine(body, h)

(* Such a loop is a while, and the first brace after it closes it.         *)
LEMMA LoopShape ==
  ASSUME body \in Seq(ToSet(body)), AllWithinMeans, NEW h \in Branches
  PROVE  /\ h \in 1..Len(body) /\ body[h].do = "while"
         /\ ClosingOf(h) \in (h + 1)..Len(body) /\ body[ClosingOf(h)].do = "close"
         /\ \A k \in (h + 1)..(ClosingOf(h) - 1) : body[k].do = "set"
         /\ Matching(body, h) = ClosingOf(h)
         /\ WithinMeans([header |-> h, closing |-> ClosingOf(h)])
         /\ [header |-> h, closing |-> ClosingOf(h)] \in parse_while_loops(body)
<1> DEFINE c == ClosingOf(h)
           opened(j) == {i \in h..j : Opens(body[i])}
           closed(j) == {i \in h..j : Closes(body[i])}
<1>1. PICK l \in parse_while_loops(body) : h = l.header /\ WithinMeans(l)
  BY DEF AllWithinMeans
<1>2. PICK k \in DOMAIN body : IsLoop(body, k) /\ l = [header |-> k, closing |-> ClosingLine(body, k)]
  BY <1>1 DEF parse_while_loops
<1>3. k = h /\ l = [header |-> h, closing |-> c]
  BY <1>1, <1>2 DEF ClosingOf
<1>4. Len(body) \in Nat /\ h \in 1..Len(body) /\ IsLoop(body, h) /\ body[h].do = "while"
  BY <1>2, <1>3 DEF IsLoop, parse_expr
<1> DEFINE balanced == {j \in (h + 1)..Len(body) : Opened(body, h, j) = Closed(body, h, j)}
<1>5. c \in balanced
  <2>1. balanced # {} /\ balanced \in SUBSET Nat
    BY <1>4 DEF IsLoop, ClosingLine
  <2> QED
    BY <2>1, NatMin DEF ClosingOf, ClosingLine
<1>6. \A i \in (h + 1)..(c - 1) : body[i].do = "set"
  <2>1. \A i \in (l.header + 1)..(l.closing - 1) : body[i].do = "set"
    BY <1>1 DEF WithinMeans
  <2> QED
    BY <1>3, <2>1
<1> HIDE DEF c
<1>7. c \in (h + 1)..Len(body) /\ c \in Nat /\ Opened(body, h, c) = Closed(body, h, c)
  BY <1>4, <1>5
<1>8. \A j \in Nat : /\ IsFiniteSet(opened(j)) /\ IsFiniteSet(closed(j))
                     /\ Opened(body, h, j) = Cardinality(opened(j)) /\ Closed(body, h, j) = Cardinality(closed(j))
  <2> TAKE j \in Nat
  <2>1. IsFiniteSet(h..j)
    BY <1>4, FS_Interval
  <2>2. IsFiniteSet(opened(j)) /\ IsFiniteSet(closed(j))
    BY <2>1, FS_Subset
  <2> QED
    BY <2>2 DEF Opened, Closed
<1>9. \A j \in Nat : j >= h => Cardinality(opened(j)) \in Nat \ {0}
  <2> TAKE j \in Nat
  <2> SUFFICES ASSUME j >= h PROVE Cardinality(opened(j)) \in Nat \ {0}
    OBVIOUS
  <2>1. h \in opened(j)
    BY <1>4 DEF Opens
  <2> HIDE DEF opened
  <2> QED
    BY <1>8, <2>1, FS_EmptySet, FS_CardinalityType
<1>10. ASSUME NEW j \in (h + 1)..(c - 1) PROVE Opened(body, h, j) > Closed(body, h, j)
  <2>1. j \in Nat /\ j >= h
    BY <1>4
  <2>2. closed(j) = {}
    <3>1. ASSUME NEW i \in h..j PROVE ~Closes(body[i])
      <4>1. CASE i = h
        BY <1>4, <4>1 DEF Closes
      <4>2. CASE i # h
        <5>1. i \in (h + 1)..(c - 1)
          BY <1>4, <1>7, <4>2
        <5> QED
          BY <1>6, <5>1 DEF Closes
      <4> QED
        BY <4>1, <4>2
    <3> QED
      BY <3>1
  <2>3. Cardinality(closed(j)) = 0
    BY <2>2, FS_EmptySet
  <2> HIDE DEF opened, closed
  <2> QED
    BY <1>8, <1>9, <2>1, <2>3
<1>11. body[c].do = "close"
  <2>1. Cardinality(closed(c)) # 0
    <3> HIDE DEF opened, closed
    <3>1. c >= h
      BY <1>4, <1>7
    <3> QED
      BY <1>7, <1>8, <1>9, <3>1
  <2>2. closed(c) # {}
    <3> HIDE DEF closed
    <3> QED
      BY <2>1, FS_EmptySet
  <2>3. PICK i \in h..c : Closes(body[i])
    BY <2>2
  <2>4. i \notin (h + 1)..(c - 1) /\ i # h
    BY <1>4, <1>6, <2>3 DEF Closes
  <2>5. i = c
    BY <1>4, <1>7, <2>3, <2>4
  <2> QED
    BY <2>3, <2>5 DEF Closes
<1>12. Matching(body, h) = c
  <2> DEFINE Matches(j) == /\ body[j].do = "close" /\ Opened(body, h, j) = Closed(body, h, j)
                           /\ \A m \in (h + 1)..(j - 1) : Opened(body, h, m) > Closed(body, h, m)
  <2>1. Matches(c)
    BY <1>7, <1>10, <1>11
  <2>2. ASSUME NEW j \in (h + 1)..Len(body), Matches(j) PROVE j = c
    <3>1. j \notin (h + 1)..(c - 1)
      BY <1>6, <2>2
    <3>2. c \notin (h + 1)..(j - 1)
      <4>1. ASSUME c \in (h + 1)..(j - 1) PROVE FALSE
        <5>1. Opened(body, h, c) > Closed(body, h, c) /\ Opened(body, h, c) = Closed(body, h, c)
          BY <1>7, <2>2, <4>1
        <5>2. Closed(body, h, c) \in Nat
          <6> HIDE DEF closed, opened
          <6> QED BY <1>7, <1>8, FS_CardinalityType
        <5> QED
          BY <5>1, <5>2
      <4> QED
        BY <4>1
    <3> QED
      BY <1>4, <1>7, <3>1, <3>2
  <2>3. Matching(body, h) = CHOOSE j \in (h + 1)..Len(body) : Matches(j)
    BY DEF Matching
  <2> HIDE DEF Matches
  <2> QED
    BY <1>7, <2>1, <2>2, <2>3
<1> QED
  BY <1>1, <1>3, <1>4, <1>6, <1>7, <1>11, <1>12 DEF c

LEMMA LoopsAreBranches ==
  ASSUME body \in Seq(ToSet(body)), NEW l \in parse_while_loops(body)
  PROVE  l.header \in Branches /\ l.closing = ClosingOf(l.header)
<1>1. PICK k \in DOMAIN body : IsLoop(body, k) /\ l = [header |-> k, closing |-> ClosingLine(body, k)]
  BY DEF parse_while_loops
<1> QED
  BY <1>1 DEF Branches, IsLoop, ClosingOf

(* Loops lie apart.                                                        *)
LEMMA LoopsApart ==
  ASSUME body \in Seq(ToSet(body)), AllWithinMeans, NEW h \in Branches, NEW j \in Branches, j # h
  PROVE  ~(j \in h..ClosingOf(h)) /\ ClosingOf(j) # ClosingOf(h)
<1>1. ASSUME NEW a \in Branches, NEW b \in Branches, b # a PROVE ~(b \in a..ClosingOf(a))
  <2>1. /\ a \in 1..Len(body) /\ ClosingOf(a) \in (a + 1)..Len(body) /\ body[ClosingOf(a)].do = "close"
        /\ \A k \in (a + 1)..(ClosingOf(a) - 1) : body[k].do = "set"
    BY LoopShape
  <2>2. b \in 1..Len(body) /\ body[b].do = "while"
    BY LoopShape
  <2>3. b # ClosingOf(a) /\ b \notin (a + 1)..(ClosingOf(a) - 1)
    BY <2>1, <2>2
  <2> QED
    BY <1>1, <2>1, <2>2, <2>3
<1>2. ClosingOf(h) \in (h + 1)..Len(body) /\ ClosingOf(j) \in (j + 1)..Len(body)
      /\ h \in 1..Len(body) /\ j \in 1..Len(body)
  BY LoopShape
<1>3. ~(j \in h..ClosingOf(h)) /\ ~(h \in j..ClosingOf(j))
  BY <1>1
<1> QED
  BY <1>2, <1>3

LEMMA InLoopMeans ==
  ASSUME body \in Seq(ToSet(body)), AllWithinMeans, NEW k
  PROVE  InLoop(k) <=> \E h \in Branches : k \in (h + 1)..(ClosingOf(h) - 1)
<1>1. ASSUME NEW h \in Branches, k \in (h + 1)..(ClosingOf(h) - 1) PROVE InLoop(k)
  <2>1. [header |-> h, closing |-> ClosingOf(h)] \in parse_while_loops(body)
    BY LoopShape
  <2> QED
    BY <1>1, <2>1 DEF InLoop
<1>2. ASSUME InLoop(k) PROVE \E h \in Branches : k \in (h + 1)..(ClosingOf(h) - 1)
  <2>1. PICK l \in parse_while_loops(body) : k \in (l.header + 1)..(l.closing - 1)
    BY <1>2 DEF InLoop
  <2> QED
    BY <2>1, LoopsAreBranches
<1> QED
  BY <1>1, <1>2

(* The walk follows the execution: after as many lines as were executed it *)
(* is at the same line, has told the same, and what the simulator knows of *)
(* a variable that nothing it cannot see was assigned to is so.            *)
Trusted(k, x) == \A j \in 1..(k - 1) : ~InLoop(j) /\ body[j].do \in {"set", "add", "get"} => body[j].x # x

Agrees(k, e, vars) ==
  /\ \A j \in 1..(k - 1) : body[j].do = "let" => body[j].x \in DOMAIN e
  /\ \A x \in DOMAIN e : Trusted(k, x) => x \in DOMAIN vars /\ vars[x] = e[x]

Outside(k) == k \in Nat \ {0} /\ \A h \in Branches : k \notin (h + 1)..ClosingOf(h)

(* No more lines were executed than the turns of the loops account for.    *)
Paced(n, ln, lp, it) ==
  IF lp = 0 THEN n <= (ln - 1) * MaxIters
  ELSE n <= (lp - 1) * MaxIters + it * (ClosingOf(lp) - lp + 1) + (ln - lp)

Follows(n, told, ln, lp, it, e) ==
  /\ n \in 0..MostLines /\ execution[n].at = ln /\ execution[n].told = told
  /\ Paced(n, ln, lp, it)
  /\ IF lp = 0 THEN Outside(ln) ELSE lp \in Branches /\ ln \in lp..ClosingOf(lp) /\ it \in 0..(MaxIters - 1)
  /\ Agrees(IF lp = 0 THEN ln ELSE lp, e, execution[n].vars)

LEMMA Times ==
  ASSUME NEW a \in Nat, NEW b \in Nat, NEW m \in Nat
  PROVE  /\ a * m \in Nat /\ (a + 1) * m = a * m + m /\ 0 * m = 0
         /\ a <= b => a * m <= b * m
         /\ (a + b) * m = a * m + b * m /\ a * b = b * a
OBVIOUS

LEMMA LineOfExecution ==
  ASSUME body \in Seq(ToSet(body)), NEW n \in Nat, n + 1 <= MostLines,
         NEW ln, execution[n].at = ln, ~(ln > Len(body))
  PROVE  /\ execution[n + 1].at = After(body, ln, execution[n].vars)
         /\ execution[n + 1].vars = Assigned(body[ln], execution[n].vars)
         /\ execution[n + 1].told = execution[n].told \o StepOf(ln) \o ValueOf(ln, execution[n + 1].vars)
<1>1. n + 1 \in 1..MostLines /\ (n + 1) - 1 = n /\ n + 1 # 0
  BY MostLinesIsNat
<1>2. execution[n + 1] = ExecuteNext(execution, n + 1)
  BY <1>1, ExecutionUnfolds
<1>3. ExecuteNext(execution, n + 1) = ExecuteLine(execution[n])
  BY <1>1 DEF ExecuteNext
<1> DEFINE before == execution[n]
<1>4. execution[n + 1] = ExecuteLine(before) /\ before.at = ln
  BY <1>2, <1>3
<1> HIDE DEF before
<1>5. /\ execution[n + 1].at = After(body, ln, before.vars)
      /\ execution[n + 1].vars = Assigned(body[ln], before.vars)
      /\ execution[n + 1].told = before.told \o StepOf(ln) \o ValueOf(ln, Assigned(body[ln], before.vars))
  BY <1>4, LineExecuted
<1> QED
  BY <1>5 DEF before

(* What a loop reads the simulator knows, and knows right.                 *)
LEMMA LoopIsKnown ==
  ASSUME body \in Seq(ToSet(body)), AllWithinMeans, NEW h \in Branches, NEW k \in h..(ClosingOf(h) - 1),
         NEW x \in Reads(k), NEW e, NEW vars, Agrees(h, e, vars)
  PROVE  x \in DOMAIN e /\ x \in DOMAIN vars /\ vars[x] = e[x]
<1> DEFINE l == [header |-> h, closing |-> ClosingOf(h)]
<1>1. WithinMeans(l) /\ l.header = h /\ l.closing = ClosingOf(h)
  BY LoopShape
<1> HIDE DEF l
<1>2. x \in UNION {Reads(j) : j \in l.header..(l.closing - 1)}
  BY <1>1
<1>3. /\ \E j \in 1..(h - 1) : body[j].do = "let" /\ body[j].x = x
      /\ \A j \in 1..(h - 1) : ~InLoop(j) /\ body[j].do \in {"set", "add", "get"} => body[j].x # x
  BY <1>1, <1>2 DEF WithinMeans
<1>4. x \in DOMAIN e
  BY <1>3 DEF Agrees
<1>5. Trusted(h, x)
  BY <1>3 DEF Trusted
<1> QED
  BY <1>4, <1>5 DEF Agrees

LEMMA MoreLinesLeft ==
  ASSUME body \in Seq(ToSet(body)), NEW n \in Nat, NEW ln \in 1..Len(body), n + 1 <= ln * MaxIters
  PROVE  n + 1 <= MostLines
<1>1. Len(body) \in Nat /\ MaxIters \in Nat
  BY MaxItersAssumption
<1>2. ln * MaxIters <= Len(body) * MaxIters /\ ln * MaxIters \in Nat /\ Len(body) * MaxIters \in Nat
  BY <1>1, Times
<1> QED
  BY <1>2 DEF MostLines

(* Lines outside loops, one at a time.                                     *)
LEMMA WalkFollows ==
  ASSUME body \in Seq(ToSet(body)), AllWithinMeans, NEW n, NEW told,
         Follows(n, told, line, loop, iters, env), WalkLine
  PROVE  Follows(n + 1, told \o StepOf(line), line', loop', iters', env')
<1>0. /\ loop = 0 /\ line <= Len(body) /\ line' = line + 1 /\ loop' = 0
      /\ env' = parse_let_int_init(body[line])
  BY DEF WalkLine
<1>1. /\ n \in Nat /\ execution[n].at = line /\ execution[n].told = told
      /\ n <= (line - 1) * MaxIters /\ line \in 1..Len(body) /\ Len(body) \in Nat
      /\ Outside(line) /\ Agrees(line, env, execution[n].vars)
  BY <1>0 DEF Follows, Paced, Outside
<1>2. line \notin Branches
  <2> SUFFICES ASSUME line \in Branches PROVE FALSE
    OBVIOUS
  <2>1. /\ [header |-> line, closing |-> ClosingOf(line)] \in parse_while_loops(body)
        /\ line \in line..(ClosingOf(line) - 1)
    BY LoopShape
  <2>2. body[line].x \in Reads(line)
    BY DEF Reads
  <2>3. body[line].x \in DOMAIN env
    BY <1>1, <2>1, <2>2, LoopIsKnown
  <2>4. AtLoop
    BY <2>1, <2>3 DEF AtLoop, eval_expr, Known
  <2> QED
    BY <2>4 DEF WalkLine
<1>3. body[line].do \notin {"if", "wild", "while"}
  BY <1>1, <1>2 DEF Branches
<1>4. ~InLoop(line)
  <2>1. ASSUME NEW h \in Branches PROVE line \notin (h + 1)..(ClosingOf(h) - 1)
    <3>1. h \in 1..Len(body) /\ ClosingOf(h) \in (h + 1)..Len(body)
      BY LoopShape
    <3>2. line \notin (h + 1)..ClosingOf(h)
      BY <1>1 DEF Outside
    <3> QED
      BY <1>1, <3>1, <3>2
  <2> QED
    BY <2>1, InLoopMeans
<1>5. n + 1 <= line * MaxIters
  <2>1. MaxIters \in Nat \ {0} /\ line - 1 \in Nat /\ (line - 1) + 1 = line
    BY <1>1, MaxItersAssumption
  <2>2. line * MaxIters = (line - 1) * MaxIters + MaxIters /\ (line - 1) * MaxIters \in Nat
    BY <2>1, Times
  <2> QED
    BY <1>1, <2>1, <2>2
<1>6. n + 1 <= MostLines
  BY <1>1, <1>5, MoreLinesLeft
<1>7. /\ execution[n + 1].at = After(body, line, execution[n].vars)
      /\ execution[n + 1].vars = Assigned(body[line], execution[n].vars)
      /\ execution[n + 1].told = told \o StepOf(line) \o ValueOf(line, execution[n + 1].vars)
  <2>1. ~(line > Len(body))
    BY <1>1
  <2> QED
    BY <1>1, <1>6, <2>1, LineOfExecution
<1>8. execution[n + 1].at = line + 1
  <2> DEFINE opener == {h \in 1..(line - 1) : body[h].do = "while" /\ Matching(body, h) = line}
  <2>1. opener = {}
    <3> SUFFICES ASSUME NEW h \in 1..(line - 1), body[h].do = "while", Matching(body, h) = line PROVE FALSE
      OBVIOUS
    <3>1. h \in Branches
      BY <1>1 DEF Branches
    <3>2. ClosingOf(h) = line /\ line \in (h + 1)..Len(body)
      BY <3>1, LoopShape
    <3> QED
      BY <1>1, <3>1, <3>2 DEF Outside
  <2>2. body[line].do # "wild" /\ body[line].do # "while" /\ body[line].do # "if"
    BY <1>3
  <2> DEFINE e == execution[n].vars
  <2> HIDE DEF e
  <2>3. After(body, line, e) = line + 1
    BY <2>1, <2>2 DEF After
  <2> QED
    BY <1>7, <2>3 DEF e
<1>9. execution[n + 1].told = told \o StepOf(line)
  <2>1. ValueOf(line, execution[n + 1].vars) = <<>>
    BY <1>4 DEF ValueOf
  <2>2. IsSequence(told) /\ IsSequence(StepOf(line))
    <3>1. n \in 0..MostLines
      BY DEF Follows
    <3> QED
      BY <1>1, <3>1, ToldBefore, Tuples DEF StepOf
  <2>3. IsSequence(told \o StepOf(line))
    BY <2>2, Concatenation
  <2> QED
    BY <1>7, <2>1, <2>3, ConcatEmptySeq DEF IsSequence
<1>10. Outside(line + 1)
  <2>1. ASSUME NEW h \in Branches PROVE line + 1 \notin (h + 1)..ClosingOf(h)
    <3>1. h \in 1..Len(body) /\ ClosingOf(h) \in (h + 1)..Len(body)
      BY LoopShape
    <3>2. line \notin (h + 1)..ClosingOf(h) /\ line # h
      BY <1>1, <1>2 DEF Outside
    <3> QED
      BY <1>1, <3>1, <3>2
  <2> QED
    BY <1>1, <2>1 DEF Outside
<1>11. Agrees(line + 1, env', execution[n + 1].vars)
  <2> DEFINE vars == execution[n].vars
             l == body[line]
  <2>0. env' = IF l.do = "let" THEN With(env, l.x, l.n) ELSE env
    BY <1>0 DEF parse_let_int_init
  <2>a. \A k \in 1..((line + 1) - 1) : k \in 1..(line - 1) \/ k = line
    BY <1>1
  <2>1. ASSUME NEW k \in 1..((line + 1) - 1), body[k].do = "let" PROVE body[k].x \in DOMAIN env'
    <3>1. CASE k \in 1..(line - 1)
      BY <1>1, <2>0, <2>1, <3>1 DEF Agrees, With
    <3>2. CASE k = line
      BY <2>0, <2>1, <3>2 DEF With
    <3> QED
      BY <2>a, <3>1, <3>2
  <2>2. ASSUME NEW x, Trusted(line + 1, x) PROVE Trusted(line, x) /\ (l.do \in {"set", "add", "get"} => l.x # x)
    <3>1. line \in 1..((line + 1) - 1) /\ \A k \in 1..(line - 1) : k \in 1..((line + 1) - 1)
      BY <1>1
    <3> QED
      BY <1>4, <2>2, <3>1 DEF Trusted
  <2>3. ASSUME NEW x \in DOMAIN env', Trusted(line + 1, x)
        PROVE  x \in DOMAIN execution[n + 1].vars /\ execution[n + 1].vars[x] = env'[x]
    <3>1. Trusted(line, x) /\ (l.do \in {"set", "add", "get"} => l.x # x)
      BY <2>2, <2>3
    <3>2. x \in DOMAIN env => x \in DOMAIN vars /\ vars[x] = env[x]
      BY <1>1, <3>1 DEF Agrees
    <3> HIDE DEF vars, l
    <3>v. execution[n + 1].vars = Assigned(l, vars)
      BY <1>7 DEF l, vars
    <3>3. CASE l.do = "let"
      <4>1. env' = With(env, l.x, l.n) /\ execution[n + 1].vars = With(vars, l.x, l.n)
        BY <2>0, <3>v, <3>3 DEF Assigned
      <4> QED
        BY <2>3, <3>2, <4>1 DEF With
    <3>4. CASE l.do \in {"set", "add", "get"}
      <4>1. env' = env /\ l.x # x /\ \E v : execution[n + 1].vars = With(vars, l.x, v)
        BY <2>0, <3>1, <3>v, <3>4 DEF Assigned
      <4> QED
        BY <2>3, <3>2, <4>1 DEF With
    <3>5. CASE l.do \notin {"let", "set", "add", "get"}
      <4>1. env' = env /\ execution[n + 1].vars = vars
        BY <2>0, <3>v, <3>5 DEF Assigned
      <4> QED
        BY <2>3, <3>2, <4>1
    <3> QED
      BY <3>3, <3>4, <3>5
  <2> QED
    BY <2>1, <2>3 DEF Agrees
<1>12. Paced(n + 1, line', loop', iters')
  BY <1>0, <1>1, <1>5 DEF Paced
<1> QED
  BY <1>0, <1>1, <1>6, <1>8, <1>9, <1>10, <1>11, <1>12, MostLinesIsNat DEF Follows

(* A loop that may be entered.                                             *)
LEMMA EnterFollows ==
  ASSUME body \in Seq(ToSet(body)), AllWithinMeans, NEW n, NEW told,
         Follows(n, told, line, loop, iters, env), EnterLoop
  PROVE  Follows(n, told, line', loop', iters', env')
<1>0. loop = 0 /\ loop' = line /\ iters' = 0 /\ line' = line /\ env' = env /\ AtLoop
  BY DEF EnterLoop
<1>1. line \in Branches
  <2>1. PICK l \in parse_while_loops(body) : l.header = line
    BY <1>0 DEF AtLoop
  <2> QED
    BY <2>1, LoopsAreBranches
<1>2. line \in 1..Len(body) /\ ClosingOf(line) \in (line + 1)..Len(body) /\ Len(body) \in Nat
  <2>1. line \in 1..Len(body) /\ ClosingOf(line) \in (line + 1)..Len(body)
    BY <1>1, LoopShape
  <2> QED
    BY <2>1
<1>3. /\ n \in 0..MostLines /\ execution[n].at = line /\ execution[n].told = told
      /\ n <= (line - 1) * MaxIters /\ Agrees(line, env, execution[n].vars)
  BY <1>0 DEF Follows, Paced
<1>4. Paced(n, line, line, 0)
  <2> DEFINE w == ClosingOf(line) - line + 1
             m == (line - 1) * MaxIters
  <2>1. w \in Nat /\ line # 0 /\ line - line = 0
    BY <1>2
  <2>2. m \in Nat
    BY <1>2, MaxItersAssumption, Times
  <2>3. n \in Nat
    BY <1>3, MostLinesIsNat
  <2> HIDE DEF w, m
  <2>4. n <= m + 0 * w + 0
    BY <1>3, <2>1, <2>2, <2>3 DEF m
  <2> QED
    BY <2>1, <2>4 DEF Paced, w, m
<1>5. line \in line..ClosingOf(line) /\ 0 \in 0..(MaxIters - 1) /\ line # 0
  BY <1>2, MaxItersAssumption
<1> QED
  BY <1>0, <1>1, <1>3, <1>4, <1>5 DEF Follows

(* In a loop there is always a line left to execute.                       *)
LEMMA LoopPaced ==
  ASSUME body \in Seq(ToSet(body)), AllWithinMeans, NEW h \in Branches, NEW n \in Nat,
         NEW ln \in h..ClosingOf(h), NEW it \in 0..(MaxIters - 1), Paced(n, ln, h, it)
  PROVE  n + 1 <= ClosingOf(h) * MaxIters /\ n + 1 <= MostLines
<1> DEFINE c == ClosingOf(h)
           w == c - h + 1
           m == MaxIters
<1>1. h \in 1..Len(body) /\ c \in (h + 1)..Len(body) /\ Len(body) \in Nat /\ m \in Nat \ {0}
  <2>1. h \in 1..Len(body) /\ c \in (h + 1)..Len(body)
    BY LoopShape
  <2>2. Len(body) \in Nat
    OBVIOUS
  <2> QED
    BY <2>1, <2>2, MaxItersAssumption
<1>2. n <= (h - 1) * m + it * w + (ln - h)
  BY <1>1 DEF Paced
<1>3. ln \in h..c /\ it \in 0..(m - 1)
  OBVIOUS
<1> HIDE DEF c, m
<1>4. w \in Nat \ {0} /\ (h - 1) \in Nat /\ ln - h \in Nat /\ ln - h <= w - 1 /\ it \in Nat /\ it <= m - 1 /\ (h - 1) + w = c
      /\ m - 1 \in Nat /\ (m - 1) + 1 = m
  BY <1>1, <1>3
<1> HIDE DEF w
<1>5. /\ it * w <= (m - 1) * w /\ it * w \in Nat /\ (m - 1) * w \in Nat
      /\ m * w = (m - 1) * w + w /\ m * w = w * m /\ w * m \in Nat
  BY <1>4, <1>1, Times
<1>6. (h - 1) * m \in Nat /\ c * m = (h - 1) * m + w * m
  BY <1>4, <1>1, Times
<1>7. n + 1 <= c * m
  BY <1>1, <1>2, <1>4, <1>5, <1>6
<1>8. c \in 1..Len(body)
  BY <1>1
<1> QED
  BY <1>7, <1>8, MoreLinesLeft DEF c, m

(* Past a loop the walk is outside all of them.                            *)
LEMMA PastLoop ==
  ASSUME body \in Seq(ToSet(body)), AllWithinMeans, NEW h \in Branches
  PROVE  Outside(ClosingOf(h) + 1)
<1> DEFINE c == ClosingOf(h)
<1>1. h \in 1..Len(body) /\ c \in (h + 1)..Len(body) /\ body[c].do = "close"
  BY LoopShape
<1>2. ASSUME NEW j \in Branches PROVE c + 1 \notin (j + 1)..ClosingOf(j)
  <2>1. /\ j \in 1..Len(body) /\ ClosingOf(j) \in (j + 1)..Len(body) /\ body[j].do = "while"
        /\ \A k \in (j + 1)..(ClosingOf(j) - 1) : body[k].do = "set"
    BY LoopShape
  <2>2. CASE j = h
    BY <1>1, <2>1, <2>2
  <2>3. CASE j # h
    <3>1. ClosingOf(j) # c
      BY <2>3, LoopsApart
    <3>2. c # j /\ c \notin (j + 1)..(ClosingOf(j) - 1)
      BY <1>1, <2>1
    <3> HIDE DEF c
    <3> QED
      BY <1>1, <2>1, <3>1, <3>2
  <2> QED
    BY <2>2, <2>3
<1> QED
  BY <1>1, <1>2 DEF Outside

(* Nothing a line outside every loop, or a header or a brace, assigns is   *)
(* told.                                                                   *)
LEMMA NoValueTold ==
  ASSUME body \in Seq(ToSet(body)), NEW n \in 0..MostLines, NEW k, NEW vars, body[k].do # "set"
  PROVE  execution[n].told \o StepOf(k) \o ValueOf(k, vars) = execution[n].told \o StepOf(k)
<1>1. ValueOf(k, vars) = <<>>
  BY DEF ValueOf
<1> DEFINE t == execution[n].told
<1>2. IsSequence(t) /\ IsSequence(StepOf(k))
  BY ToldBefore, Tuples DEF StepOf
<1> HIDE DEF t
<1>3. IsSequence(t \o StepOf(k))
  BY <1>2, Concatenation
<1>4. t \o StepOf(k) \o ValueOf(k, vars) = t \o StepOf(k)
  BY <1>1, <1>3, ConcatEmptySeq DEF IsSequence
<1> QED
  BY <1>4 DEF t

(* The header, at every turn.                                              *)
LEMMA TurnFollows ==
  ASSUME body \in Seq(ToSet(body)), AllWithinMeans, NEW n, NEW told,
         Follows(n, told, line, loop, iters, env), LoopTurn
  PROVE  Follows(n + 1, told \o StepOf(line), line', loop', iters', env')
<1> DEFINE c == ClosingOf(loop)
           vars == execution[n].vars
           x == body[loop].x
<1>0. /\ loop # 0 /\ line = loop /\ iters' = iters /\ env' = env
      /\ IF Holds(body[loop]) THEN line' = line + 1 /\ loop' = loop ELSE line' = c + 1 /\ loop' = 0
  BY DEF LoopTurn, ClosingOf, Closing
<1>1. /\ n \in 0..MostLines /\ execution[n].at = loop /\ execution[n].told = told
      /\ Paced(n, loop, loop, iters) /\ Agrees(loop, env, vars)
      /\ loop \in Branches /\ iters \in 0..(MaxIters - 1)
  BY <1>0 DEF Follows
<1>2. /\ loop \in 1..Len(body) /\ c \in (loop + 1)..Len(body) /\ Len(body) \in Nat
      /\ body[loop].do = "while" /\ Matching(body, loop) = c /\ n \in Nat /\ MaxIters \in Nat \ {0}
      /\ body[c].do = "close" /\ \A k \in (loop + 1)..(c - 1) : body[k].do = "set"
  <2>1. /\ loop \in 1..Len(body) /\ c \in (loop + 1)..Len(body)
        /\ body[loop].do = "while" /\ Matching(body, loop) = c
        /\ body[c].do = "close" /\ \A k \in (loop + 1)..(c - 1) : body[k].do = "set"
    BY <1>1, LoopShape
  <2>2. Len(body) \in Nat /\ n \in Nat /\ MaxIters \in Nat \ {0}
    BY <1>1, MostLinesIsNat, MaxItersAssumption
  <2> QED
    BY <2>1, <2>2
<1>3. n + 1 <= c * MaxIters /\ n + 1 <= MostLines
  <2>1. loop \in loop..ClosingOf(loop)
    BY <1>2
  <2> QED
    BY <1>1, <1>2, <2>1, LoopPaced
<1>4. vars[x] = env[x]
  <2>1. loop \in loop..(ClosingOf(loop) - 1)
    BY <1>2
  <2>2. x \in Reads(loop)
    BY DEF Reads
  <2> QED
    BY <1>1, <2>1, <2>2, LoopIsKnown
<1>5. /\ execution[n + 1].at = After(body, loop, vars)
      /\ execution[n + 1].vars = Assigned(body[loop], vars)
      /\ execution[n + 1].told = told \o StepOf(loop) \o ValueOf(loop, execution[n + 1].vars)
  <2>1. ~(loop > Len(body))
    BY <1>2
  <2> QED
    BY <1>1, <1>2, <1>3, <2>1, LineOfExecution
<1> HIDE DEF c, vars
<1>6. execution[n + 1].vars = vars
  BY <1>2, <1>5 DEF Assigned
<1>7. execution[n + 1].told = told \o StepOf(line)
  <2>1. body[loop].do # "set"
    BY <1>2
  <2> QED
    BY <1>0, <1>1, <1>5, <2>1, NoValueTold
<1>8. n + 1 \in 0..MostLines
  BY <1>2, <1>3, MostLinesIsNat
<1>9. CASE Holds(body[loop])
  <2>1. line' = loop + 1 /\ loop' = loop
    BY <1>0, <1>9
  <2>2. execution[n + 1].at = loop + 1
    <3>1. vars[x] < body[loop].n
      BY <1>4, <1>9 DEF Holds
    <3> QED
      BY <1>2, <1>5, <3>1 DEF After
  <2>3. Paced(n + 1, loop + 1, loop, iters)
    <3> DEFINE p == (loop - 1) * MaxIters + iters * (ClosingOf(loop) - loop + 1)
    <3>1. p \in Nat
      <4>1. loop - 1 \in Nat /\ iters \in Nat /\ ClosingOf(loop) - loop + 1 \in Nat
        BY <1>1, <1>2 DEF c
      <4>2. (loop - 1) * MaxIters \in Nat /\ iters * (ClosingOf(loop) - loop + 1) \in Nat
        BY <1>2, <4>1, Times
      <4> QED
        BY <4>2
    <3>2. n <= p + (loop - loop)
      BY <1>0, <1>1 DEF Paced
    <3> HIDE DEF p
    <3>3. n + 1 <= p + ((loop + 1) - loop)
      BY <1>2, <3>1, <3>2
    <3> QED
      BY <1>0, <3>3 DEF Paced, p
  <2>4. loop + 1 \in loop..ClosingOf(loop)
    BY <1>2 DEF c
  <2> QED
    BY <1>0, <1>1, <1>6, <1>7, <1>8, <2>1, <2>2, <2>3, <2>4 DEF Follows, vars
<1>10. CASE ~Holds(body[loop])
  <2>1. line' = c + 1 /\ loop' = 0
    BY <1>0, <1>10
  <2>2. execution[n + 1].at = c + 1
    <3>1. ~(vars[x] < body[loop].n)
      BY <1>4, <1>10 DEF Holds
    <3> QED
      BY <1>2, <1>5, <3>1 DEF After
  <2>3. Paced(n + 1, c + 1, 0, iters)
    <3>1. (c + 1) - 1 = c
      BY <1>2
    <3> QED
      BY <1>3, <3>1 DEF Paced
  <2>4. Outside(c + 1)
    BY <1>1, PastLoop DEF c
  <2>5. Agrees(c + 1, env, vars)
    <3>1. ASSUME NEW j \in 1..((c + 1) - 1), body[j].do = "let" PROVE body[j].x \in DOMAIN env
      <4>1. j # loop /\ j # c /\ j \notin (loop + 1)..(c - 1)
        BY <1>2, <3>1
      <4>2. j \in 1..(loop - 1)
        BY <1>2, <4>1
      <4> QED
        BY <1>1, <3>1, <4>2 DEF Agrees
    <3>2. ASSUME NEW y \in DOMAIN env, Trusted(c + 1, y) PROVE y \in DOMAIN vars /\ vars[y] = env[y]
      <4>1. \A j \in 1..(loop - 1) : j \in 1..((c + 1) - 1)
        BY <1>2
      <4>2. Trusted(loop, y)
        BY <3>2, <4>1 DEF Trusted
      <4> QED
        BY <1>1, <4>2 DEF Agrees
    <3> QED
      BY <3>1, <3>2 DEF Agrees
  <2> QED
    BY <1>0, <1>6, <1>7, <1>8, <2>1, <2>2, <2>3, <2>4, <2>5 DEF Follows
<1> QED
  BY <1>9, <1>10

(* The lines of a loop, with the values they assign.                       *)
LEMMA LineFollows ==
  ASSUME body \in Seq(ToSet(body)), AllWithinMeans, NEW n, NEW told,
         Follows(n, told, line, loop, iters, env), LoopLine
  PROVE  \E w : /\ IsSequence(w) /\ Write(w)
                /\ Follows(n + 1, told \o w, line', loop', iters', env')
<1> DEFINE c == ClosingOf(loop)
           vars == execution[n].vars
           l == body[line]
           v == env[l.y] + l.n
           told1 == execution[n + 1].told
<1>0. loop # 0 /\ line > loop /\ line < c /\ line' = line + 1 /\ loop' = loop /\ iters' = iters
  BY DEF LoopLine, ClosingOf, Closing
<1>1. /\ n \in 0..MostLines /\ execution[n].at = line /\ execution[n].told = told
      /\ Paced(n, line, loop, iters) /\ Agrees(loop, env, vars)
      /\ loop \in Branches /\ iters \in 0..(MaxIters - 1) /\ line \in loop..c
  BY <1>0 DEF Follows
<1>2. /\ loop \in 1..Len(body) /\ c \in (loop + 1)..Len(body)
      /\ Len(body) \in Nat /\ n \in Nat /\ MaxIters \in Nat \ {0}
  <2>1. loop \in 1..Len(body) /\ c \in (loop + 1)..Len(body)
    BY <1>1, LoopShape
  <2>2. Len(body) \in Nat /\ n \in Nat /\ MaxIters \in Nat \ {0}
    BY <1>1, MostLinesIsNat, MaxItersAssumption
  <2> QED
    BY <2>1, <2>2
<1>3. line \in (loop + 1)..(c - 1) /\ l.do = "set"
  <2>1. line \in (loop + 1)..(c - 1)
    BY <1>0, <1>1, <1>2
  <2>2. \A k \in (loop + 1)..(c - 1) : body[k].do = "set"
    BY <1>1, LoopShape
  <2> QED
    BY <2>1, <2>2
<1>4. n + 1 <= c * MaxIters /\ n + 1 <= MostLines
  BY <1>1, <1>2, LoopPaced
<1>5. l.y \in DOMAIN env /\ vars[l.y] = env[l.y]
  <2>1. line \in loop..(ClosingOf(loop) - 1)
    BY <1>2, <1>3
  <2>2. l.y \in Reads(line)
    BY <1>3 DEF Reads
  <2> QED
    BY <1>1, <2>1, <2>2, LoopIsKnown
<1>6. env' = With(env, l.x, v) /\ Write(<<StepEv(line), ValueEv(line, l.x, v)>>)
  <2>1. parse_assignment_statement(l) /\ Known(l.y)
    BY <1>3, <1>5 DEF parse_assignment_statement, parse_expr, Known
  <2> HIDE DEF v, l
  <2> QED
    BY <2>1 DEF LoopLine, l, v
<1>7. /\ execution[n + 1].at = After(body, line, vars)
      /\ execution[n + 1].vars = Assigned(body[line], vars)
      /\ told1 = told \o StepOf(line) \o ValueOf(line, execution[n + 1].vars)
  <2>1. ~(line > Len(body))
    BY <1>2, <1>3
  <2> QED
    BY <1>1, <1>2, <1>4, <2>1, LineOfExecution
<1> HIDE DEF c, vars, told1
<1>8. execution[n + 1].at = line + 1
  BY <1>3, <1>7 DEF After
<1>9. execution[n + 1].vars = With(vars, l.x, v)
  BY <1>3, <1>5, <1>7 DEF Assigned
<1> HIDE DEF v
<1>10. told1 = told \o <<StepEv(line), ValueEv(line, l.x, v)>>
  <2>1. execution[n + 1].vars[l.x] = v
    BY <1>9 DEF With
  <2>2. StepOf(line) = <<StepEv(line)>>
    BY <1>3 DEF StepOf, Stepping
  <2>3. InLoop(line)
    BY <1>1, <1>3, InLoopMeans DEF c
  <2>4. ValueOf(line, execution[n + 1].vars) = <<ValueEv(line, l.x, v)>>
    BY <1>3, <2>1, <2>3 DEF ValueOf
  <2> DEFINE s == StepEv(line)
             u == ValueEv(line, l.x, v)
  <2> HIDE DEF s, u
  <2>5. IsSequence(told) /\ IsSequence(<<s>>) /\ IsSequence(<<u>>)
    BY <1>1, ToldBefore, Tuples
  <2>6. PICK S : told \in Seq(S) /\ <<s>> \in Seq(S) /\ <<u>> \in Seq(S)
    BY <2>5, ThreeSequences
  <2>7. told \o <<s>> \o <<u>> = told \o (<<s>> \o <<u>>)
    BY <2>6, ConcatAssociative
  <2>8. <<s>> \o <<u>> = <<s, u>>
    BY TwoInOrder
  <2> QED
    BY <1>7, <2>2, <2>4, <2>7, <2>8 DEF s, u
<1>11. Agrees(loop, env', execution[n + 1].vars)
  <2>1. ASSUME NEW j \in 1..(loop - 1), body[j].do = "let" PROVE body[j].x \in DOMAIN env'
    BY <1>1, <1>6, <2>1 DEF Agrees, With
  <2>2. ASSUME NEW y \in DOMAIN env', Trusted(loop, y)
        PROVE  y \in DOMAIN execution[n + 1].vars /\ execution[n + 1].vars[y] = env'[y]
    <3>1. y \in DOMAIN env => y \in DOMAIN vars /\ vars[y] = env[y]
      BY <1>1, <2>2 DEF Agrees
    <3> HIDE DEF l
    <3> QED
      BY <1>6, <1>9, <2>2, <3>1 DEF With
  <2> QED
    BY <2>1, <2>2 DEF Agrees
<1>12. Paced(n + 1, line + 1, loop, iters)
  <2> DEFINE p == (loop - 1) * MaxIters + iters * (ClosingOf(loop) - loop + 1)
  <2>1. p \in Nat
    <3>1. loop - 1 \in Nat /\ iters \in Nat /\ ClosingOf(loop) - loop + 1 \in Nat
      BY <1>1, <1>2 DEF c
    <3>2. (loop - 1) * MaxIters \in Nat /\ iters * (ClosingOf(loop) - loop + 1) \in Nat
      BY <1>2, <3>1, Times
    <3> QED
      BY <3>2
  <2>2. n <= p + (line - loop)
    BY <1>0, <1>1 DEF Paced
  <2> HIDE DEF p
  <2>3. n + 1 <= p + ((line + 1) - loop)
    BY <1>2, <1>3, <2>1, <2>2
  <2> QED
    BY <1>0, <2>3 DEF Paced, p
<1>13. Follows(n + 1, told1, line', loop', iters', env')
  <2>1. line + 1 \in loop..ClosingOf(loop)
    BY <1>2, <1>3 DEF c
  <2>2. n + 1 \in 0..MostLines
    BY <1>2, <1>4, MostLinesIsNat
  <2> QED
    BY <1>0, <1>1, <1>8, <1>11, <1>12, <2>1, <2>2 DEF Follows, told1
<1> DEFINE w == <<StepEv(line), ValueEv(line, l.x, v)>>
<1>14. IsSequence(w)
  BY Tuples
<1> HIDE DEF w
<1>15. Write(w) /\ told1 = told \o w
  BY <1>6, <1>10 DEF w
<1> QED
  BY <1>13, <1>14, <1>15

(* The closing brace, with another turn to take.                           *)
LEMMA TurnedFollows ==
  ASSUME body \in Seq(ToSet(body)), AllWithinMeans, NEW n, NEW told,
         Follows(n, told, line, loop, iters, env), LoopTurned, ~capped'
  PROVE  Follows(n + 1, told, line', loop', iters', env')
<1> DEFINE c == ClosingOf(loop)
           vars == execution[n].vars
<1>0. loop # 0 /\ line = c /\ iters' = iters + 1 /\ env' = env
      /\ ~(iters + 1 >= MaxIters) /\ line' = loop /\ loop' = loop
  BY DEF LoopTurned, ClosingOf, Closing
<1>1. /\ n \in 0..MostLines /\ execution[n].at = c /\ execution[n].told = told
      /\ Paced(n, c, loop, iters) /\ Agrees(loop, env, vars)
      /\ loop \in Branches /\ iters \in 0..(MaxIters - 1) /\ c \in loop..c
  BY <1>0 DEF Follows
<1>2. /\ loop \in 1..Len(body) /\ c \in (loop + 1)..Len(body) /\ body[c].do = "close" /\ body[loop].do = "while"
      /\ Matching(body, loop) = c
      /\ Len(body) \in Nat /\ n \in Nat /\ MaxIters \in Nat \ {0}
  <2>1. /\ loop \in 1..Len(body) /\ c \in (loop + 1)..Len(body) /\ body[c].do = "close" /\ body[loop].do = "while"
        /\ Matching(body, loop) = c
    BY <1>1, LoopShape
  <2>2. Len(body) \in Nat /\ n \in Nat /\ MaxIters \in Nat \ {0}
    BY <1>1, MostLinesIsNat, MaxItersAssumption
  <2> QED
    BY <2>1, <2>2
<1>4. n + 1 <= c * MaxIters /\ n + 1 <= MostLines
  BY <1>1, <1>2, LoopPaced
<1>5. /\ execution[n + 1].at = After(body, c, vars)
      /\ execution[n + 1].vars = Assigned(body[c], vars)
      /\ execution[n + 1].told = told \o StepOf(c) \o ValueOf(c, execution[n + 1].vars)
  <2>1. ~(c > Len(body))
    BY <1>2
  <2> QED
    BY <1>1, <1>2, <1>4, <2>1, LineOfExecution
<1>6. execution[n + 1].at = loop
  <2> DEFINE opener == {h \in 1..(c - 1) : body[h].do = "while" /\ Matching(body, h) = c}
  <2>1. loop \in opener
    BY <1>2
  <2>2. ASSUME NEW h \in opener PROVE h = loop
    <3>1. h \in Branches
      BY <1>2 DEF Branches
    <3>2. ClosingOf(h) = c
      BY <3>1, LoopShape
    <3> QED
      BY <1>1, <3>1, <3>2, LoopsApart
  <2>3. opener = {loop}
    <3> HIDE DEF opener
    <3> QED
      BY <2>1, <2>2
  <2>4. (CHOOSE h \in {loop} : TRUE) = loop
    OBVIOUS
  <2>5. body[c].do # "wild" /\ body[c].do \notin {"while", "if"}
    BY <1>2
  <2> HIDE DEF c, vars
  <2>6. After(body, c, vars) = CHOOSE h \in opener : TRUE
    BY <1>2, <2>1, <2>5 DEF After
  <2> HIDE DEF opener
  <2> QED
    BY <1>5, <2>3, <2>4, <2>6
<1>7. execution[n + 1].vars = vars
  <2> HIDE DEF c, vars
  <2> QED
    BY <1>2, <1>5 DEF Assigned
<1>8. execution[n + 1].told = told
  <2>1. StepOf(c) = <<>> /\ body[c].do # "set"
    BY <1>2 DEF StepOf, Stepping
  <2>2. execution[n + 1].told = told \o StepOf(c)
    <3> HIDE DEF c
    <3> QED
      BY <1>1, <1>5, <2>1, NoValueTold
  <2>3. IsSequence(told)
    BY <1>1, ToldBefore
  <2> HIDE DEF c
  <2> QED
    BY <2>1, <2>2, <2>3, ConcatEmptySeq DEF IsSequence
<1>9. Paced(n + 1, loop, loop, iters + 1)
  <2> DEFINE w == ClosingOf(loop) - loop + 1
             m == (loop - 1) * MaxIters
  <2>1. w \in Nat /\ m \in Nat /\ iters \in Nat /\ w = (c - loop) + 1 /\ c - loop \in Nat
    <3>1. loop - 1 \in Nat
      BY <1>2
    <3>2. m \in Nat
      BY <1>2, <3>1, Times
    <3> QED
      BY <1>1, <1>2, <3>2
  <2>2. n <= m + iters * w + (c - loop)
    BY <1>0, <1>1 DEF Paced
  <2> HIDE DEF w, m, c
  <2>3. (iters + 1) * w = iters * w + w /\ iters * w \in Nat
    BY <2>1, Times
  <2>4. n + 1 <= m + (iters + 1) * w + (loop - loop)
    BY <1>2, <2>1, <2>2, <2>3
  <2> QED
    BY <1>0, <2>4 DEF Paced, w, m
<1>10. n + 1 \in 0..MostLines /\ loop \in loop..ClosingOf(loop) /\ iters + 1 \in 0..(MaxIters - 1)
  BY <1>0, <1>1, <1>2, <1>4, MostLinesIsNat
<1> QED
  BY <1>0, <1>1, <1>6, <1>7, <1>8, <1>9, <1>10 DEF Follows

(* While a function is walked its text stays, and its execution with it.   *)
LEMMA ExecutionKept ==
  ASSUME body' = body
  PROVE  execution' = execution /\ (AllWithinMeans' <=> AllWithinMeans) /\ Executed' = Executed
<1>1. execution' = execution
  BY SMT DEF execution, MostLines, ExecuteLine, Stepping, InLoop
<1>2. MostLines' = MostLines
  BY DEF MostLines
<1>3. \A k_ : InLoop(k_)' <=> InLoop(k_)
  BY DEF InLoop
<1>4. \A k_ : Reads(k_)' = Reads(k_)
  BY DEF Reads
<1>5. \A l_ : WithinMeans(l_)' <=> WithinMeans(l_)
  BY <1>3, <1>4 DEF WithinMeans
<1>6. Branches' = Branches
  BY DEF Branches
<1>7. AllWithinMeans' <=> AllWithinMeans
  BY <1>5, <1>6 DEF AllWithinMeans
<1>8. Executed' = Executed
  BY <1>1, <1>2 DEF Executed
<1> QED
  BY <1>1, <1>7, <1>8

LEMMA FollowsKept ==
  ASSUME body' = body, NEW n, NEW told, NEW ln, NEW lp, NEW it, NEW e
  PROVE  Follows(n, told, ln, lp, it, e)' <=> Follows(n, told, ln, lp, it, e)
<1>1. execution' = execution
  BY ExecutionKept
<1>2. MostLines' = MostLines
  BY DEF MostLines
<1>3. \A k_ : InLoop(k_)' <=> InLoop(k_)
  BY DEF InLoop
<1>4. Branches' = Branches
  BY DEF Branches
<1>5. \A k_ : ClosingOf(k_)' = ClosingOf(k_)
  BY DEF ClosingOf
<1>6. \A k_, x_ : Trusted(k_, x_)' <=> Trusted(k_, x_)
  BY <1>3 DEF Trusted
<1>7. \A k_, e_, v_ : Agrees(k_, e_, v_)' <=> Agrees(k_, e_, v_)
  BY <1>6 DEF Agrees
<1>8. \A k_ : Outside(k_)' <=> Outside(k_)
  BY <1>4, <1>5 DEF Outside
<1>9. Paced(n, ln, lp, it)' <=> Paced(n, ln, lp, it)
  BY <1>5 DEF Paced
<1>10. Agrees(IF lp = 0 THEN ln ELSE lp, e, execution[n].vars)' <=> Agrees(IF lp = 0 THEN ln ELSE lp, e, execution[n].vars)
  BY <1>1, <1>7
<1> QED
  BY <1>1, <1>2, <1>4, <1>5, <1>8, <1>9, <1>10 DEF Follows

LEMMA TailOfMore ==
  ASSUME NEW s, NEW w, IsSequence(s), IsSequence(w), s # <<>>
  PROVE  Tail(s \o w) = Tail(s) \o w /\ s \o w # <<>> /\ IsSequence(s \o w)
<1>1. PICK S : s \in Seq(S) /\ w \in Seq(S)
  BY ThreeSequences
<1>2. /\ s \o w \in Seq(S) /\ Len(s \o w) = Len(s) + Len(w)
      /\ \A i \in 1..Len(s \o w) : (s \o w)[i] = IF i <= Len(s) THEN s[i] ELSE w[i - Len(s)]
  BY <1>1, ConcatProperties
<1>3. Len(s) \in Nat \ {0} /\ Len(w) \in Nat
  BY <1>1
<1>4. s \o w # <<>>
  BY <1>2, <1>3
<1> DEFINE p == s \o w
           t == Tail(s)
<1>5. t \in Seq(S) /\ Len(t) = Len(s) - 1 /\ \A i \in 1..Len(t) : t[i] = s[i + 1]
  BY <1>1, HeadTailProperties
<1> HIDE DEF p, t
<1>6. Tail(p) \in Seq(S) /\ Len(Tail(p)) = Len(p) - 1 /\ \A i \in 1..Len(Tail(p)) : Tail(p)[i] = p[i + 1]
  BY <1>2, <1>4, HeadTailProperties DEF p
<1>7. /\ t \o w \in Seq(S) /\ Len(t \o w) = Len(t) + Len(w)
      /\ \A i \in 1..Len(t \o w) : (t \o w)[i] = IF i <= Len(t) THEN t[i] ELSE w[i - Len(t)]
  <2>1. t \in Seq(S) /\ w \in Seq(S)
    BY <1>1, <1>5
  <2> QED
    BY <2>1, ConcatProperties
<1>8. Len(p) = Len(s) + Len(w) /\ \A i \in 1..Len(p) : p[i] = IF i <= Len(s) THEN s[i] ELSE w[i - Len(s)]
  BY <1>2, Zenon DEF p
<1> DEFINE q == t \o w
           r == Tail(p)
<1>9. Len(r) = Len(q) /\ Len(q) = Len(t) + Len(w)
  BY <1>3, <1>5, <1>6, <1>7, <1>8
<1>10. ASSUME NEW i \in 1..Len(q) PROVE r[i] = q[i]
  <2>1. r[i] = p[i + 1] /\ i + 1 \in 1..Len(p) /\ Len(t) = Len(s) - 1 /\ i \in Nat
    BY <1>3, <1>5, <1>6, <1>8, <1>9
  <2>2. q[i] = IF i <= Len(t) THEN t[i] ELSE w[i - Len(t)]
    BY <1>7
  <2>3. p[i + 1] = IF i + 1 <= Len(s) THEN s[i + 1] ELSE w[(i + 1) - Len(s)]
    BY <1>8, <2>1
  <2> HIDE DEF q, r
  <2>4. CASE i <= Len(t)
    <3>1. i \in 1..Len(t) /\ i + 1 <= Len(s)
      BY <1>3, <2>1, <2>4
    <3> QED
      BY <1>5, <2>1, <2>2, <2>3, <2>4, <3>1
  <2>5. CASE ~(i <= Len(t))
    <3>1. ~(i + 1 <= Len(s)) /\ (i + 1) - Len(s) = i - Len(t)
      BY <1>3, <2>1, <2>5
    <3> QED
      BY <2>1, <2>2, <2>3, <2>5, <3>1
  <2> QED
    BY <2>4, <2>5
<1>11. r = q
  <2>1. r \in Seq(S) /\ q \in Seq(S)
    BY <1>6, <1>7
  <2> HIDE DEF q, r
  <2> QED
    BY <1>9, <1>10, <2>1, SeqEqual
<1> QED
  BY <1>1, <1>2, <1>4, <1>11, AnyIsSequence DEF p, t

(* Where the walk is, and that it follows the execution.                   *)
BeforeWalk == Early \cup Preparing \cup {"derive"}

WalkNotBegun ==
  /\ command # "record" \/ at \in BeforeWalk => line = 1 /\ loop = 0 /\ env = <<>>
  /\ at = "derive" => out = <<>>

WalkFollowed ==
  command = "record" /\ at = "walk" /\ ~capped /\ AllWithinMeans =>
    /\ IsSequence(out) /\ out # <<>>
    /\ \E n : Follows(n, Tail(out), line, loop, iters, env)

LoopsInv == WalkNotBegun /\ WalkFollowed

LEMMA InitLoops == Init => LoopsInv
BY DEF Init, RecordInit, LoopInit, BundleInit, LoopsInv, WalkNotBegun, WalkFollowed, Early

(* The steps of record, by the phases they lead from and to.               *)
LEMMA RecordPhases ==
  ASSUME PhasesInv, [Next]_recorderVars, command = "record"
  PROVE  /\ at' \in BeforeWalk => at \in BeforeWalk
         /\ at' = "derive" => at \in {"derive", "open"} /\ out' = out
         /\ at' = "walk" => CallRoot \/ WalkRoot \/ UNCHANGED recorderVars
<1> USE DEF BeforeWalk, Early, Preparing, Goto, Stay, Finish, Fail, Aside
<1>1. CASE record
  <2>1. CASE read_to_string \/ Compile \/ StartProbe \/ ProbeStep \/ Run
    BY <2>1 DEF read_to_string, Compile, StartProbe, ProbeStep, Run, WalkRoot
  <2>2. CASE OpenRecording \/ Derive
    BY <2>2 DEF OpenRecording, OpenBundle, Derive, WalkRoot
  <2>3. CASE CallRoot \/ WalkRoot \/ LeaveRoot \/ TellPanic
    BY <2>3 DEF CallRoot, WalkRoot, LeaveRoot, TellPanic
  <2> QED
    BY <1>1, <2>1, <2>2, <2>3 DEF record
<1>2. CASE Locate \/ CheckDisabled \/ MakeFolder \/ CloseBundleFiles
  BY <1>2 DEF Locate, CheckDisabled, MakeFolder, CloseBundleFiles, Close, WalkRoot
<1>3. CASE trace_starknet \/ replay \/ Environment
  BY <1>3 DEF trace_starknet, replay, Environment
<1>4. CASE UNCHANGED recorderVars
  BY <1>4 DEF recorderVars, bundleVars, WalkRoot, WalkLine, EnterLoop, LoopTurn, LoopLine, LoopTurned, recordVars, loopVars
<1> QED
  BY <1>1, <1>2, <1>3, <1>4 DEF Next, main

LEMMA OtherCommands ==
  ASSUME [Next]_recorderVars, command # "record"
  PROVE  UNCHANGED loopVars
<1>1. CASE trace_starknet \/ replay
  BY <1>1 DEF trace_starknet, replay, recordVars
<1>2. CASE Locate \/ CheckDisabled \/ MakeFolder \/ CloseBundleFiles \/ Environment \/ UNCHANGED recorderVars
  BY <1>2 DEF Locate, CheckDisabled, MakeFolder, CloseBundleFiles, Environment, recorderVars, recordVars
<1> QED
  BY <1>1, <1>2 DEF Next, main, record

LEMMA NextNotBegun == PhasesInv /\ WalkNotBegun /\ [Next]_recorderVars => WalkNotBegun'
<1> SUFFICES ASSUME PhasesInv, WalkNotBegun, [Next]_recorderVars PROVE WalkNotBegun'
  OBVIOUS
<1>0. command' = command
  BY ProgramStays
<1>1. CASE command # "record"
  <2>1. line' = line /\ loop' = loop /\ env' = env
    BY <1>1, OtherCommands DEF loopVars
  <2>2. at' # "derive"
    <3>1. PhasesInv'
      BY NextPhases
    <3> QED
      BY <1>0, <1>1, <3>1 DEF PhasesInv, PhaseByCommand
  <2> QED
    BY <1>0, <1>1, <2>1, <2>2 DEF WalkNotBegun
<1>2. CASE command = "record"
  <2>1. /\ at' \in BeforeWalk => at \in BeforeWalk
        /\ at' = "derive" => at \in {"derive", "open"} /\ out' = out
    BY <1>2, RecordPhases
  <2>2. at' \in BeforeWalk => line' = line /\ loop' = loop /\ env' = env
    <3>1. at \in BeforeWalk => ~WalkRoot
      BY DEF WalkRoot, BeforeWalk, Early, Preparing
    <3> QED
      BY <2>1, <3>1, LoopsStay DEF loopVars
  <2>3. at = "open" => out = <<>>
    BY DEF PhasesInv, BundleByPhase, Preparing
  <2> QED
    BY <1>0, <1>2, <2>1, <2>2, <2>3 DEF WalkNotBegun
<1> QED
  BY <1>1, <1>2

LEMMA StartFollows ==
  ASSUME body \in Seq(ToSet(body)), AllWithinMeans
  PROVE  Follows(0, <<>>, 1, 0, iters, <<>>)
<1>1. execution[0].at = 1 /\ execution[0].told = <<>> /\ execution[0].vars = <<>>
  BY ExecutionUnfolds DEF AtFirst
<1>2. Paced(0, 1, 0, iters)
  BY MaxItersAssumption DEF Paced
<1>3. Outside(1)
  <2>1. ASSUME NEW h \in Branches PROVE 1 \notin (h + 1)..ClosingOf(h)
    <3>1. h \in 1..Len(body)
      BY LoopShape
    <3> QED
      BY <3>1
  <2> QED
    BY <2>1 DEF Outside
<1>4. Agrees(1, <<>>, execution[0].vars)
  BY DEF Agrees
<1>5. 0 \in 0..MostLines
  BY MostLinesIsNat
<1> QED
  BY <1>1, <1>2, <1>3, <1>4, <1>5 DEF Follows

LEMMA OneAlone == ASSUME NEW c PROVE <<c>> # <<>> /\ Tail(<<c>>) = <<>>
<1>1. <<c>> \in Seq({c}) /\ <<c>> # <<>> /\ Len(<<c>>) = 1
  OBVIOUS
<1>2. Tail(<<c>>) \in Seq({c}) /\ Len(Tail(<<c>>)) = 0
  BY <1>1, HeadTailProperties
<1>3. Tail(<<c>>) = <<>>
  BY <1>2, EmptySeq
<1> QED
  BY <1>1, <1>3

LEMMA WalkStepFollows ==
  ASSUME body \in Seq(ToSet(body)), AllWithinMeans, NEW n, ~capped',
         IsSequence(out), out # <<>>, Follows(n, Tail(out), line, loop, iters, env), WalkRoot
  PROVE  /\ IsSequence(out') /\ out' # <<>>
         /\ \E m : Follows(m, Tail(out'), line', loop', iters', env')
<1> DEFINE told == Tail(out)
<1>0. Follows(n, told, line, loop, iters, env)
  OBVIOUS
<1> HIDE DEF told
<1>1. CASE WalkLine
  <2>1. out' = out \o StepOf(line) /\ IsSequence(StepOf(line))
    <3>1. StepOf(line) = IF body[line].do \in {"blank", "close"} THEN <<>> ELSE <<StepEv(line)>>
      BY DEF StepOf, Stepping
    <3> QED
      BY <1>1, <3>1, Tuples DEF WalkLine, Write
  <2>2. Follows(n + 1, told \o StepOf(line), line', loop', iters', env')
    BY <1>0, <1>1, WalkFollows
  <2>3. Tail(out') = told \o StepOf(line) /\ out' # <<>> /\ IsSequence(out')
    BY <2>1, TailOfMore DEF told
  <2> QED
    BY <2>2, <2>3
<1>2. CASE EnterLoop
  <2>1. out' = out
    BY <1>2 DEF EnterLoop
  <2>2. Follows(n, told, line', loop', iters', env')
    BY <1>0, <1>2, EnterFollows
  <2> QED
    BY <2>1, <2>2 DEF told
<1>3. CASE LoopTurn
  <2>1. line = loop /\ loop \in Branches
    BY <1>3 DEF LoopTurn, Follows
  <2>2. body[line].do = "while"
    BY <2>1, LoopShape
  <2>3. out' = out \o StepOf(line) /\ IsSequence(StepOf(line))
    BY <1>3, <2>1, <2>2, Tuples DEF LoopTurn, HeaderStep, Write, StepOf, Stepping
  <2>4. Follows(n + 1, told \o StepOf(line), line', loop', iters', env')
    BY <1>0, <1>3, TurnFollows
  <2>5. Tail(out') = told \o StepOf(line) /\ out' # <<>> /\ IsSequence(out')
    BY <2>3, TailOfMore DEF told
  <2> QED
    BY <2>4, <2>5
<1>4. CASE LoopLine
  <2>1. PICK w : IsSequence(w) /\ Write(w) /\ Follows(n + 1, told \o w, line', loop', iters', env')
    BY <1>0, <1>4, LineFollows
  <2>2. out' = out \o w
    BY <2>1 DEF Write
  <2>3. Tail(out') = told \o w /\ out' # <<>> /\ IsSequence(out')
    BY <2>1, <2>2, TailOfMore DEF told
  <2> QED
    BY <2>1, <2>3
<1>5. CASE LoopTurned
  <2>1. out' = out
    BY <1>5 DEF LoopTurned
  <2>2. Follows(n + 1, told, line', loop', iters', env')
    BY <1>0, <1>5, TurnedFollows
  <2> QED
    BY <2>1, <2>2 DEF told
<1> QED
  BY <1>1, <1>2, <1>3, <1>4, <1>5 DEF WalkRoot

LEMMA NextFollowed == PhasesInv /\ ProgramKept /\ LoopsInv /\ [Next]_recorderVars => WalkFollowed'
<1> SUFFICES ASSUME PhasesInv, ProgramKept, LoopsInv, [Next]_recorderVars PROVE WalkFollowed'
  OBVIOUS
<1>0. command' = command /\ body' = body /\ body \in Seq(ToSet(body))
  BY ProgramStays DEF ProgramKept
<1>1. AllWithinMeans' <=> AllWithinMeans
  BY <1>0, ExecutionKept
<1> SUFFICES ASSUME command = "record", at' = "walk", ~capped', AllWithinMeans
             PROVE  /\ IsSequence(out') /\ out' # <<>>
                    /\ \E n : Follows(n, Tail(out'), line', loop', iters', env')
  <2>1. \A n, told, ln, lp, it, e : Follows(n, told, ln, lp, it, e)' <=> Follows(n, told, ln, lp, it, e)
    BY <1>0, FollowsKept
  <2> QED
    BY <1>0, <1>1, <2>1 DEF WalkFollowed
<1>2. CASE CallRoot
  <2>1. at = "derive" /\ UNCHANGED loopVars /\ out' = out \o <<CallEv(0, Root, <<>>)>>
    BY <1>2 DEF CallRoot, Goto, Write
  <2>2. out = <<>> /\ line' = 1 /\ loop' = 0 /\ env' = <<>> /\ iters' = iters
    BY <2>1 DEF LoopsInv, WalkNotBegun, BeforeWalk, loopVars
  <2> DEFINE c == CallEv(0, Root, <<>>)
  <2> HIDE DEF c
  <2>3. out' = <<c>>
    BY <2>1, <2>2 DEF c
  <2>4. IsSequence(out') /\ out' # <<>> /\ Tail(out') = <<>>
    BY <2>3, Tuples, OneAlone
  <2>5. Follows(0, <<>>, 1, 0, iters, <<>>)
    BY <1>0, StartFollows
  <2> QED
    BY <2>2, <2>4, <2>5
<1>3. CASE WalkRoot
  <2>1. at = "walk"
    BY <1>3 DEF WalkRoot
  <2>2. ~capped
    BY <1>3 DEF WalkRoot, WalkLine, EnterLoop, LoopTurn, LoopLine, LoopTurned
  <2>3. /\ IsSequence(out) /\ out # <<>>
        /\ \E n : Follows(n, Tail(out), line, loop, iters, env)
    BY <2>1, <2>2 DEF LoopsInv, WalkFollowed
  <2> QED
    BY <1>0, <1>3, <2>3, WalkStepFollows
<1>4. CASE UNCHANGED recorderVars
  <2>1. UNCHANGED <<at, out, line, loop, iters, env, capped>>
    BY <1>4 DEF recorderVars, bundleVars, recordVars, loopVars
  <2> QED
    BY <2>1 DEF LoopsInv, WalkFollowed
<1> QED
  BY <1>2, <1>3, <1>4, RecordPhases

(* Where every loop is one the simulator can follow, the walk of a         *)
(* function tells its lines as they are executed, turn by turn, with the   *)
(* values the loops assign, for every text and however many turns the      *)
(* loops take below the cap (tracer.rs:1012-1091, simulate_while_loop).    *)
THEOREM LoopsAlwaysRunAsExecuted == Spec => []LoopsRunAsExecuted
<1> DEFINE Inv == PhasesInv /\ ProgramKept /\ LoopsInv
<1>1. Init => Inv
  BY InitPhases, InitProgram, InitLoops
<1>2. Inv /\ [Next]_recorderVars => Inv'
  BY NextPhases, NextProgram, NextNotBegun, NextFollowed DEF LoopsInv
<1>3. Inv => LoopsRunAsExecuted
  <2> SUFFICES ASSUME Inv, at = "walk", line > 1, ~capped, AllWithinMeans
               PROVE  IsPrefix(Recorded, Executed)
    BY DEF LoopsRunAsExecuted, AllWithinMeans
  <2>1. command = "record"
    <3>1. ~(line > 1) \/ line # 1
      OBVIOUS
    <3> QED
      BY <3>1 DEF LoopsInv, WalkNotBegun
  <2>2. PICK n : Follows(n, Tail(out), line, loop, iters, env)
    BY <2>1 DEF LoopsInv, WalkFollowed
  <2>3. n \in 0..MostLines /\ execution[n].told = Recorded
    BY <2>2 DEF Follows, Recorded
  <2>4. body \in Seq(ToSet(body))
    BY DEF ProgramKept
  <2> QED
    BY <2>3, <2>4, ToldBefore
<1> QED
  BY <1>1, <1>2, <1>3, PTL DEF Spec

-----------------------------------------------------------------------------
(***************************************************************************)
(* What functions return (ReturnValues).  The call that returned what the  *)
(* widest last line names is one whose result is the run's, so that the    *)
(* variables seeded from this are that call's; what is told of functions   *)
(* from them is then told of calls.                                        *)
(***************************************************************************)
LEMMA TableIs ==
  ASSUME IsTable(fns)
  PROVE  /\ Len(fns) \in Nat /\ DOMAIN fns = 1..Len(fns)
         /\ \A i \in DOMAIN fns : fns[i].lets \in Seq(ToSet(fns[i].lets))
         /\ \A i \in DOMAIN fns : fns[i].tail.is \in {"tuple", "name"} =>
              Len(fns[i].tail.of) \in Nat \ {0} /\ DOMAIN fns[i].tail.of = 1..Len(fns[i].tail.of)
<1>1. Len(fns) \in Nat /\ DOMAIN fns = 1..Len(fns)
  BY DEF IsTable
<1>2. ASSUME NEW i \in DOMAIN fns PROVE fns[i].lets \in Seq(ToSet(fns[i].lets))
  BY DEF IsTable
<1>3. ASSUME NEW i \in DOMAIN fns, fns[i].tail.is \in {"tuple", "name"}
      PROVE  Len(fns[i].tail.of) \in Nat \ {0} /\ DOMAIN fns[i].tail.of = 1..Len(fns[i].tail.of)
  <2> DEFINE of == fns[i].tail.of
  <2>1. of \in Seq(ToSet(of)) /\ of # <<>>
    BY <1>3 DEF IsTable
  <2> HIDE DEF of
  <2>2. Len(of) \in Nat \ {0} /\ DOMAIN of = 1..Len(of)
    BY <2>1, EmptySeq
  <2> QED
    BY <2>2 DEF of
<1> QED
  BY <1>1, <1>2, <1>3

KnownSeq(s) == s \in Seq(ToSet(s)) /\ Unknown \notin ToSet(s)

LEMMA CallIs ==
  ASSUME IsRun(fns, run), NEW k \in DOMAIN run
  PROVE  /\ KnownSeq(run[k].result)
         /\ run[k].tail # 0 => /\ run[k].tail \in DOMAIN run /\ run[k].result = run[run[k].tail].result
                               /\ run[k].fn \in DOMAIN fns /\ fns[run[k].fn].tail.is = "call"
                               /\ run[run[k].tail].name = fns[run[k].fn].tail.of[1]
         /\ run[k].fn # 0 => run[k].fn \in DOMAIN fns /\ run[k].name = fns[run[k].fn].name
         /\ run[k].held # <<>> => run[k].fn # 0 /\ fns[run[k].fn].tail.is \in {"tuple", "name"}
<1> DEFINE Later == {0} \cup (k + 1)..Len(run)
<1>1. /\ run[k].result \in Seq(ToSet(run[k].result)) /\ Unknown \notin ToSet(run[k].result)
      /\ run[k].tail \in Later /\ run[k].fn \in {0} \cup DOMAIN fns
      /\ run[k].fn = 0 => run[k].held = <<>> /\ run[k].tail = 0
  BY DEF IsRun
<1>2. run[k].fn # 0 => LET f == fns[run[k].fn] IN
        /\ run[k].name = f.name
        /\ run[k].held # <<>> => f.tail.is \in {"tuple", "name"}
        /\ run[k].tail # 0 => f.tail.is = "call" /\ run[run[k].tail].name = f.tail.of[1]
                              /\ run[k].result = run[run[k].tail].result
  BY DEF IsRun
<1>3. Len(run) \in Nat /\ DOMAIN run = 1..Len(run)
  BY DEF IsRun
<1>4. run[k].tail # 0 => run[k].tail \in DOMAIN run
  <2>1. k \in Nat /\ k >= 1
    BY <1>3
  <2> QED
    BY <1>1, <1>3, <2>1
<1> QED
  BY <1>1, <1>2, <1>4 DEF KnownSeq

(* What names are last lines' and what calls are of which function.        *)
LEMMA CallOf ==
  ASSUME IsRun(fns, run), NamesDistinct, NEW i \in DOMAIN fns, NEW k \in DOMAIN run, run[k].name = fns[i].name
  PROVE  run[k].fn = i
<1>1. run[k].fn # 0
  BY DEF NamesDistinct, Names
<1>2. run[k].fn \in DOMAIN fns /\ run[k].name = fns[run[k].fn].name
  BY <1>1, CallIs
<1> QED
  BY <1>2 DEF NamesDistinct

LEMMA DelegatesReturn ==
  ASSUME IsRun(fns, run), 1 \in DOMAIN run, NEW k \in Delegates
  PROVE  /\ k \in DOMAIN run /\ run[k].result = run[1].result
         /\ run[1].tail = 0 => k = 1
         /\ run[1].tail # 0 /\ run[run[1].tail].tail = 0 => k \in {1, run[1].tail}
<1>1. k \in DOMAIN run
  BY DEF Delegates
<1>2. \A S \in SUBSET DOMAIN run : 1 \in S /\ (\A l \in S : run[l].tail # 0 => run[l].tail \in S) => k \in S
  BY DEF Delegates
<1>3. run[k].result = run[1].result
  <2> DEFINE S == {l \in DOMAIN run : run[l].result = run[1].result}
  <2>1. 1 \in S
    OBVIOUS
  <2>2. ASSUME NEW l \in S, run[l].tail # 0 PROVE run[l].tail \in S
    BY <2>2, CallIs
  <2>3. k \in S
    BY <1>2, <2>1, <2>2
  <2> QED
    BY <2>3
<1>4. ASSUME run[1].tail = 0 PROVE k = 1
  <2>1. {1} \in SUBSET DOMAIN run /\ 1 \in {1} /\ \A l \in {1} : run[l].tail # 0 => run[l].tail \in {1}
    BY <1>4
  <2>2. k \in {1}
    BY <1>2, <2>1
  <2> QED
    BY <2>2
<1>5. ASSUME run[1].tail # 0, run[run[1].tail].tail = 0 PROVE k \in {1, run[1].tail}
  <2> DEFINE S == {1, run[1].tail}
  <2>1. S \in SUBSET DOMAIN run /\ 1 \in S
    BY <1>5, CallIs
  <2>2. \A l \in S : run[l].tail # 0 => run[l].tail \in S
    BY <1>5
  <2> HIDE DEF S
  <2>3. k \in S
    BY <1>2, <2>1, <2>2
  <2> QED
    BY <2>3 DEF S
<1> QED
  BY <1>1, <1>3, <1>4, <1>5

Apt == ~panicked /\ NamesDistinct /\ run # <<>> /\ run[1].name = "main" /\ MainReturnsWidest

WidestCall(k) ==
  LET call == run[k] IN
    /\ k \in Delegates
    /\ call.held # <<>> /\ fns[call.fn].tail.of = parse_return_expression
    /\ \A j \in DOMAIN call.held : Len(call.held[j]) = 1
    /\ \A m \in DOMAIN fns[call.fn].lets, j \in DOMAIN call.held : LET b == fns[call.fn].lets[m] IN
         b.calls # NoFn /\ b.x = fns[call.fn].tail.of[j]
           => call.made[m] # 0 /\ call.held[j] = run[call.made[m]].result

LEMMA WidestIs == Apt => \E k : WidestCall(k)
BY DEF Apt, MainReturnsWidest, WidestCall

(* That call's function, its last line and what this names held.           *)
LEMMA FirstCall == IsRun(fns, run) /\ run # <<>> => 1 \in DOMAIN run
<1> SUFFICES ASSUME IsRun(fns, run), run # <<>> PROVE 1 \in DOMAIN run
  OBVIOUS
<1>1. run \in Seq(ToSet(run))
  BY DEF IsRun
<1>2. Len(run) \in Nat \ {0} /\ DOMAIN run = 1..Len(run)
  BY <1>1, EmptySeq
<1> QED
  BY <1>2

WidestFacts(k, W) ==
  /\ k \in DOMAIN run /\ run[k].fn \in DOMAIN fns /\ run[k].name = fns[run[k].fn].name
  /\ fns[run[k].fn].tail.is \in {"tuple", "name"} /\ fns[run[k].fn].tail.of = W
  /\ Len(W) \in Nat \ {0} /\ DOMAIN W = 1..Len(W)
  /\ Len(run[k].held) = Len(W) /\ DOMAIN run[k].held = 1..Len(W)
  /\ \A j \in 1..Len(W) : run[k].held[j] = <<run[k].held[j][1]>>
  /\ run[k].result = [j \in 1..Len(W) |-> run[k].held[j][1]]
  /\ run[k].result = run[1].result /\ KnownSeq(run[k].result)

LEMMA WidestCallIs ==
  ASSUME IsTable(fns), IsRun(fns, run), Apt, NEW k, WidestCall(k)
  PROVE  WidestFacts(k, parse_return_expression)
<1> DEFINE W == parse_return_expression
           held == run[k].held
           i == run[k].fn
<1>1. k \in DOMAIN run /\ run[k].result = run[1].result
  BY FirstCall, DelegatesReturn DEF WidestCall, Apt
<1>2. i \in DOMAIN fns /\ run[k].name = fns[i].name /\ fns[i].tail.is \in {"tuple", "name"} /\ KnownSeq(run[k].result)
  BY <1>1, CallIs DEF WidestCall
<1>3. fns[i].tail.of = W /\ held # <<>> /\ \A j \in DOMAIN held : Len(held[j]) = 1
  BY DEF WidestCall
<1>4. Len(W) \in Nat \ {0} /\ DOMAIN W = 1..Len(W)
  BY <1>2, <1>3, TableIs
<1>5. /\ held \in Seq(ToSet(held)) /\ Len(held) = Len(W) /\ run[k].result = FlattenSeq(held)
      /\ \A felts \in ToSet(held) : felts \in Seq(ToSet(felts))
  <2>1. run[k].fn # 0
    BY <1>1, <1>3, CallIs
  <2> QED
    BY <1>1, <1>3, <2>1 DEF IsRun
<1> HIDE DEF W, held, i
<1>6. DOMAIN held = 1..Len(W)
  BY <1>5
<1>7. ASSUME NEW j \in 1..Len(W) PROVE held[j] = <<held[j][1]>>
  <2>1. held[j] \in ToSet(held) /\ Len(held[j]) = 1
    BY <1>3, <1>6, <1>7 DEF ToSet
  <2> DEFINE felts == held[j]
  <2>2. felts \in Seq(ToSet(felts)) /\ Len(felts) = 1
    BY <1>5, <2>1
  <2> HIDE DEF felts
  <2>3. felts = <<felts[1]>>
    BY <2>2
  <2> QED
    BY <2>3 DEF felts
<1>8. FlattenSeq(held) = [j \in 1..Len(W) |-> held[j][1]]
  <2> DEFINE e == [j \in 1..Len(W) |-> held[j][1]]
  <2>1. Len(W) \in Nat /\ Len(W) # 0 /\ Len(held) = Len(W) /\ \A j \in 1..Len(W) : held[j] = <<e[j]>>
    BY <1>4, <1>5, <1>7
  <2> HIDE DEF e
  <2>2. FlattenSeq(held) = [j \in 1..Len(W) |-> e[j]]
    BY <2>1, FlattenOfOnes
  <2>3. [j \in 1..Len(W) |-> e[j]] = [j \in 1..Len(W) |-> held[j][1]]
    BY DEF e
  <2> QED
    BY <2>2, <2>3
<1>9. run[k].result = [j \in 1..Len(W) |-> held[j][1]]
  BY <1>5, <1>8
<1> QED
  BY <1>1, <1>2, <1>3, <1>4, <1>5, <1>6, <1>7, <1>9 DEF WidestFacts, W, held, i

(* The variables hold what the names of that last line held.               *)
HoldsOf(k, W) ==
  /\ DOMAIN var_values = ToSet(W)
  /\ \A x \in DOMAIN var_values :
       /\ var_values[x] # Unknown
       /\ \E j \in 1..Len(W) : W[j] = x /\ run[k].held[j] = <<var_values[x]>>
  /\ var_values[Last(W)] = LastFelt(k)

VariablesHold == \E k : WidestCall(k) /\ HoldsOf(k, parse_return_expression)

LEMMA SeededOf ==
  ASSUME NEW k, NEW W, WidestFacts(k, W),
         var_values = LET slots == DOMAIN run[1].result \cap DOMAIN W IN
                        [x \in {W[i] : i \in slots} |-> run[1].result[Max({i \in slots : W[i] = x})]]
  PROVE  HoldsOf(k, W)
<1> DEFINE values == run[1].result
           slots == DOMAIN values \cap DOMAIN W
           here(x) == {i \in slots : W[i] = x}
           seeded == [x \in {W[i] : i \in slots} |-> values[Max(here(x))]]
<1>1. Len(W) \in Nat \ {0} /\ DOMAIN W = 1..Len(W)
  BY DEF WidestFacts
<1>2. values = [j \in 1..Len(W) |-> run[k].held[j][1]] /\ \A j \in 1..Len(W) : run[k].held[j] = <<run[k].held[j][1]>>
  BY DEF WidestFacts
<1>3. values = run[k].result /\ values \in Seq(ToSet(values)) /\ Unknown \notin ToSet(values)
  BY DEF WidestFacts, KnownSeq
<1>4. var_values = seeded
  OBVIOUS
<1> HIDE DEF values
<1>5. slots = 1..Len(W)
  BY <1>1, <1>2
<1>6. DOMAIN seeded = ToSet(W)
  BY <1>1, <1>5 DEF ToSet
<1>7. ASSUME NEW x \in ToSet(W) PROVE Max(here(x)) \in 1..Len(W) /\ W[Max(here(x))] = x
                                      /\ \A i \in here(x) : Max(here(x)) >= i
  <2> DEFINE S == here(x)
  <2>1. S # {} /\ S \in SUBSET (0..Len(W))
    BY <1>1, <1>5, <1>7 DEF ToSet
  <2>2. Max(S) \in S /\ \A i \in S : Max(S) >= i
    <3> HIDE DEF S
    <3>1. PICK q \in S : \A i \in S : i <= q
      BY <1>1, <2>1, NatMax
    <3>2. \A i \in S : i \in Nat
      BY <2>1
    <3>3. \E p \in S : \A i \in S : p >= i
      BY <3>1, <3>2
    <3> QED
      BY <3>3 DEF Max
  <2>3. \A i \in S : i \in 1..Len(W) /\ W[i] = x
    BY <1>5
  <2> HIDE DEF S
  <2>4. Max(S) \in 1..Len(W) /\ W[Max(S)] = x
    BY <2>2, <2>3
  <2> QED
    BY <2>2, <2>4 DEF S
<1>8. ASSUME NEW x \in ToSet(W) PROVE seeded[x] = values[Max(here(x))]
  <2>1. x \in {W[i] : i \in slots}
    BY <1>6, <1>8
  <2> QED
    BY <2>1
<1>9. ASSUME NEW x \in ToSet(W)
      PROVE  /\ seeded[x] # Unknown
             /\ \E j \in 1..Len(W) : W[j] = x /\ run[k].held[j] = <<seeded[x]>>
  <2> DEFINE j == Max(here(x))
  <2>1. j \in 1..Len(W) /\ W[j] = x /\ seeded[x] = values[j]
    BY <1>7, <1>8
  <2> HIDE DEF j, seeded
  <2>2. values[j] = run[k].held[j][1] /\ run[k].held[j] = <<run[k].held[j][1]>>
    BY <1>2, <2>1
  <2>3. values[j] \in ToSet(values)
    BY <1>2, <2>1 DEF ToSet
  <2> QED
    BY <1>3, <2>1, <2>2, <2>3
<1>10. seeded[Last(W)] = LastFelt(k)
  <2> DEFINE n == Len(W)
             x == Last(W)
  <2>1. n \in 1..Len(W) /\ x = W[n] /\ x \in ToSet(W)
    BY <1>1 DEF Last, ToSet
  <2>2. n \in here(x)
    BY <1>5, <2>1
  <2>3. Max(here(x)) >= n /\ Max(here(x)) \in 1..n
    BY <1>7, <2>1, <2>2
  <2>4. Max(here(x)) = n
    BY <1>1, <2>3
  <2>5. seeded[x] = values[n]
    BY <1>8, <2>1, <2>4
  <2>6. Len(values) = n /\ values # <<>>
    <3>1. DOMAIN values = 1..n
      BY <1>2
    <3>2. n \in DOMAIN values
      BY <2>1, <3>1
    <3> QED
      BY <1>1, <1>3, <3>1, <3>2
  <2>7. LastFelt(k) = values[n]
    BY <1>3, <2>6 DEF LastFelt, Last
  <2> QED
    BY <2>5, <2>7
<1> HIDE DEF seeded, slots
<1> QED
  BY <1>4, <1>6, <1>9, <1>10 DEF HoldsOf

LEMMA SeededHold ==
  ASSUME IsTable(fns), IsRun(fns, run), Apt, var_values = VariablesOf(VMValues)
  PROVE  VariablesHold
<1>1. PICK k : WidestCall(k)
  BY WidestIs
<1>2. WidestFacts(k, parse_return_expression)
  BY <1>1, WidestCallIs
<1>3. VMValues = run[1].result
  BY DEF VMValues, Apt
<1>4. var_values = LET slots == DOMAIN run[1].result \cap DOMAIN parse_return_expression IN
                     [x \in {parse_return_expression[i] : i \in slots} |->
                        run[1].result[Max({i \in slots : parse_return_expression[i] = x})]]
  BY <1>3 DEF VariablesOf
<1>5. HoldsOf(k, parse_return_expression)
  <2> DEFINE W == parse_return_expression
  <2>1. WidestFacts(k, W)
    BY <1>2
  <2>2. var_values = LET slots == DOMAIN run[1].result \cap DOMAIN W IN
                       [x \in {W[i] : i \in slots} |-> run[1].result[Max({i \in slots : W[i] = x})]]
    BY <1>4
  <2> HIDE DEF W
  <2>3. HoldsOf(k, W)
    BY <2>1, <2>2, SeededOf
  <2> QED
    BY <2>3 DEF W
<1> QED
  BY <1>1, <1>5 DEF VariablesHold

-----------------------------------------------------------------------------
(* What a function is said to return is the last felt some call of it      *)
(* returned; of a function that ends in a call only if the run is steady.  *)
CallsOf(f) == {k \in DOMAIN run : run[k].name = f}
Answerable(f) ==
  CallsOf(f) # {} /\ (Steady \/ \A i \in DOMAIN fns : fns[i].name = f => fns[i].tail.is # "call")

Theirs(known) ==
  \A f : Has(known, f) /\ Answerable(f) => \E k \in CallsOf(f) : known[f] = LastFelt(k)

(* A name with a value that a function binds is bound by the widest one.   *)
LEMMA BoundByWidest ==
  ASSUME Apt, NEW k, NEW W, WidestFacts(k, W), NEW i \in DOMAIN fns, NEW m \in DOMAIN fns[i].lets,
         fns[i].lets[m].x \in ToSet(W), IsTable(fns)
  PROVE  i = run[k].fn
<1> DEFINE w == run[k].fn
<1>1. w \in DOMAIN fns /\ fns[w].tail.is \in {"tuple", "name"} /\ fns[w].tail.of = W
  BY DEF WidestFacts
<1>2. ToSet(W) \subseteq {b.x : b \in ToSet(fns[w].lets)}
  BY <1>1 DEF Apt, NamesDistinct
<1>3. PICK b \in ToSet(fns[w].lets) : b.x = fns[i].lets[m].x
  BY <1>2
<1>4. PICK n \in DOMAIN fns[w].lets : fns[w].lets[n] = b
  <2>1. ToSet(fns[w].lets) = {fns[w].lets[n] : n \in DOMAIN fns[w].lets}
    BY DEF ToSet
  <2> QED
    BY <1>3, <2>1
<1> HIDE DEF w
<1>5. i = w
  BY <1>1, <1>3, <1>4 DEF Apt, NamesDistinct
<1> QED
  BY <1>5 DEF w

(* What a binding that calls a function tells of it.                       *)
LEMMA BindingCalled ==
  ASSUME IsTable(fns), IsRun(fns, run), Apt, NEW k, WidestCall(k), HoldsOf(k, parse_return_expression),
         NEW i \in DOMAIN fns, NEW m \in DOMAIN fns[i].lets, fns[i].lets[m].calls # NoFn,
         fns[i].lets[m].x \in DOMAIN var_values
  PROVE  \E l \in CallsOf(fns[i].lets[m].calls) : var_values[fns[i].lets[m].x] = LastFelt(l)
<1> DEFINE W == parse_return_expression
           b == fns[i].lets[m]
           l == run[k].made[m]
<1>1. WidestFacts(k, W)
  BY WidestCallIs
<1>2. b.x \in ToSet(W)
  BY DEF HoldsOf
<1>3. i = run[k].fn
  BY <1>1, <1>2, BoundByWidest
<1>4. PICK j \in 1..Len(W) : W[j] = b.x /\ run[k].held[j] = <<var_values[b.x]>>
  BY DEF HoldsOf
<1>5. j \in DOMAIN run[k].held /\ fns[i].tail.of = W /\ k \in DOMAIN run
  BY <1>1, <1>3 DEF WidestFacts
<1>6. l # 0 /\ run[k].held[j] = run[l].result
  BY <1>3, <1>4, <1>5 DEF WidestCall
<1>7. l \in DOMAIN run /\ run[l].name = b.calls
  <2>1. run[k].fn # 0
    <3>1. run[k].held # <<>>
      BY DEF WidestCall
    <3> QED
      BY <1>5, <3>1, CallIs
  <2>2. run[k].made \in [DOMAIN fns[i].lets -> {0} \cup (k + 1)..Len(run)]
    BY <1>3, <1>5, <2>1 DEF IsRun
  <2>3. l # 0 => run[l].name = b.calls
    BY <1>3, <1>5, <2>1 DEF IsRun
  <2>4. Len(run) \in Nat /\ DOMAIN run = 1..Len(run)
    BY DEF IsRun
  <2>5. l \in (k + 1)..Len(run)
    BY <1>6, <2>2
  <2> HIDE DEF l
  <2> QED
    BY <1>5, <1>6, <2>3, <2>4, <2>5
<1> HIDE DEF l, b
<1>8. LastFelt(l) = var_values[b.x]
  <2>1. run[l].result = <<var_values[b.x]>>
    BY <1>4, <1>6
  <2> DEFINE v == var_values[b.x]
  <2> HIDE DEF v
  <2>2. <<v>> # <<>> /\ Last(<<v>>) = v
    BY DEF Last
  <2> QED
    BY <2>1, <2>2 DEF LastFelt, v
<1> QED
  BY <1>7, <1>8 DEF CallsOf, b

LEMMA BindingsTell ==
  ASSUME IsTable(fns), IsRun(fns, run), Apt, VariablesHold, FromBindings
  PROVE  Theirs(fn_returns')
<1> DEFINE lets == FlattenSeq([i \in DOMAIN fns |-> fns[i].lets])
           telling == {k \in DOMAIN lets : lets[k].calls # NoFn /\ Has(var_values, lets[k].x)}
           all == [f \in {lets[k].calls : k \in telling} |->
                     var_values[lets[Min({k \in telling : lets[k].calls = f})].x]]
           V == UNION {ToSet(fns[i].lets) : i \in DOMAIN fns}
<1>1. fn_returns' = all
  BY DEF FromBindings
<1>2. lets \in Seq(V)
  <2> DEFINE seqs == [i \in DOMAIN fns |-> fns[i].lets]
  <2>0. Len(fns) \in Nat /\ DOMAIN fns = 1..Len(fns)
    BY TableIs
  <2>1. CASE Len(fns) = 0
    <3>1. DOMAIN fns = {} /\ seqs = <<>>
      BY <2>0, <2>1
    <3>2. FlattenSeq(<<>>) = <<>>
      BY DEF FlattenSeq
    <3> HIDE DEF seqs, V
    <3>4. FlattenSeq(seqs) = <<>>
      BY Zenon, <3>1, <3>2
    <3>5. <<>> \in Seq(V)
      OBVIOUS
    <3>3. FlattenSeq(seqs) \in Seq(V)
      BY Zenon, <3>4, <3>5
    <3> QED BY <3>3 DEF seqs
  <2>2. CASE Len(fns) # 0
    <3>1. ASSUME NEW i \in DOMAIN fns PROVE seqs[i] \in Seq(V)
      <4>1. fns[i].lets \in Seq(ToSet(fns[i].lets))
        BY TableIs
      <4>2. ToSet(fns[i].lets) \subseteq V
        OBVIOUS
      <4> HIDE DEF V
      <4> QED BY <4>1, <4>2
    <3>2. Len(seqs) = Len(fns)
      BY <2>0
    <3> HIDE DEF seqs, V
    <3>3. PICK h : Flattens(h, seqs, Len(fns), V)
      BY <2>0, <2>2, <3>1, <3>2, Flattened
    <3>4. FlattenSeq(seqs) \in Seq(V)
      BY <2>0, <2>2, <3>3 DEF Flattens
    <3> QED BY <3>4 DEF seqs
  <2> QED BY <2>1, <2>2
<1> HIDE DEF lets
<1>3. DOMAIN lets \in SUBSET Nat /\ \A k \in DOMAIN lets : \E i \in DOMAIN fns : lets[k] \in ToSet(fns[i].lets)
  <2>1. DOMAIN lets \in SUBSET Nat /\ \A k \in DOMAIN lets : lets[k] \in V
    <3> HIDE DEF V
    <3> QED BY <1>2
  <2> QED BY <2>1
<1>4. ASSUME NEW f \in DOMAIN all PROVE \E l \in CallsOf(f) : all[f] = LastFelt(l)
  <2> DEFINE tells == {k \in telling : lets[k].calls = f}
  <2>1. tells # {} /\ tells \in SUBSET Nat
    BY <1>3, <1>4
  <2>2. Min(tells) \in tells
    <3> HIDE DEF tells
    <3> QED BY <2>1, MinIsIn
  <2>3. all[f] = var_values[lets[Min(tells)].x]
    BY <1>4
  <2> DEFINE b == lets[Min(tells)]
  <2>4. b.calls = f /\ b.calls # NoFn /\ b.x \in DOMAIN var_values
    BY <2>2 DEF Has
  <2>5. PICK i \in DOMAIN fns : b \in ToSet(fns[i].lets)
    BY <1>3, <2>2
  <2> HIDE DEF b, tells, telling, all
  <2>6. PICK m \in DOMAIN fns[i].lets : fns[i].lets[m] = b
    <3>1. ToSet(fns[i].lets) = {fns[i].lets[m] : m \in DOMAIN fns[i].lets}
      BY DEF ToSet
    <3> QED
      BY <2>5, <3>1
  <2>7. PICK k : WidestCall(k) /\ HoldsOf(k, parse_return_expression)
    BY DEF VariablesHold
  <2>8. PICK l \in CallsOf(f) : var_values[b.x] = LastFelt(l)
    BY <2>4, <2>6, <2>7, BindingCalled
  <2> QED
    BY <2>3, <2>8 DEF b
<1> HIDE DEF all
<1> QED
  BY <1>1, <1>4 DEF Theirs, Has

(* The passes over the functions.                                          *)
LEMMA PassedUnfolds ==
  ASSUME IsTable(fns)
  PROVE  Passed = [n \in 0..Len(fns) |-> IF n = 0 THEN fn_returns ELSE FromTail(Passed[n - 1], fns[n])]
<1> DEFINE N == Len(fns)
           Upto(k) == \E d : d = [n \in 0..k |-> IF n = 0 THEN fn_returns ELSE FromTail(d[n - 1], fns[n])]
           So == {k \in Nat : Upto(k)}
<1>1. N \in Nat
  BY TableIs
<1>2. 0 \in So
  <2> DEFINE d == [n \in 0..0 |-> fn_returns]
  <2>1. d = [n \in 0..0 |-> IF n = 0 THEN fn_returns ELSE FromTail(d[n - 1], fns[n])]
    OBVIOUS
  <2> HIDE DEF d
  <2> QED BY <2>1
<1>3. ASSUME NEW k \in Nat, Upto(k) PROVE Upto(k + 1)
  <2>1. PICK d : d = [n \in 0..k |-> IF n = 0 THEN fn_returns ELSE FromTail(d[n - 1], fns[n])]
    BY <1>3
  <2> DEFINE e == [n \in 0..(k + 1) |-> IF n = k + 1 THEN FromTail(d[k], fns[n]) ELSE d[n]]
  <2>2. ASSUME NEW n \in 0..(k + 1) PROVE e[n] = IF n = 0 THEN fn_returns ELSE FromTail(e[n - 1], fns[n])
    <3>1. CASE n = k + 1
      <4>1. n # 0 /\ n - 1 = k /\ k \in 0..(k + 1) /\ k # k + 1
        BY <3>1
      <4>2. e[k] = d[k] /\ e[n] = FromTail(d[k], fns[n])
        BY <3>1, <4>1
      <4> HIDE DEF e
      <4> QED BY <4>1, <4>2
    <3>2. CASE n # k + 1
      <4>1. n \in 0..k /\ (n # 0 => n - 1 \in 0..(k + 1) /\ n - 1 # k + 1)
        BY <2>2, <3>2
      <4>2. e[n] = d[n] /\ (n # 0 => e[n - 1] = d[n - 1])
        BY <3>2, <4>1
      <4>3. d[n] = IF n = 0 THEN fn_returns ELSE FromTail(d[n - 1], fns[n])
        BY <2>1, <4>1
      <4> HIDE DEF e
      <4> QED BY <4>2, <4>3
    <3> QED BY <3>1, <3>2
  <2>3. e = [n \in 0..(k + 1) |-> e[n]]
    OBVIOUS
  <2> HIDE DEF e
  <2> QED BY <2>2, <2>3
<1>4. So = Nat
  <2> HIDE DEF Upto
  <2>1. So \in SUBSET Nat /\ \A k \in So : k + 1 \in So
    BY <1>3
  <2> HIDE DEF So
  <2> QED BY <1>2, <2>1, Induction
<1>5. Upto(N)
  BY <1>1, <1>4
<1> QED
  BY <1>5 DEF Passed

(* The value is that of the last felt of some call, where it can be.       *)
LastOf(f, v) == Answerable(f) => \E k \in CallsOf(f) : v = LastFelt(k)

LEMMA NamesTell ==
  ASSUME IsTable(fns), IsRun(fns, run), Apt, VariablesHold, NEW i \in DOMAIN fns,
         fns[i].tail.is \in {"tuple", "name"}, Last(fns[i].tail.of) \in DOMAIN var_values
  PROVE  LastOf(fns[i].name, var_values[Last(fns[i].tail.of)])
<1> DEFINE W == parse_return_expression
           x == Last(fns[i].tail.of)
<1>1. PICK k : WidestCall(k) /\ HoldsOf(k, W)
  BY DEF VariablesHold
<1>2. WidestFacts(k, W)
  BY <1>1, WidestCallIs
<1>3. x \in ToSet(W)
  BY <1>1 DEF HoldsOf
<1>4. x \in ToSet(fns[i].tail.of)
  BY TableIs DEF Last, ToSet
<1>5. PICK m \in DOMAIN fns[i].lets : fns[i].lets[m].x = x
  <2>1. ToSet(fns[i].tail.of) \subseteq {b.x : b \in ToSet(fns[i].lets)}
    BY DEF Apt, NamesDistinct
  <2>2. ToSet(fns[i].lets) = {fns[i].lets[m] : m \in DOMAIN fns[i].lets}
    BY DEF ToSet
  <2> QED
    BY <1>4, <2>1, <2>2
<1>6. i = run[k].fn
  BY <1>2, <1>3, <1>5, BoundByWidest
<1>7. k \in CallsOf(fns[i].name) /\ fns[i].tail.of = W
  BY <1>2, <1>6 DEF WidestFacts, CallsOf
<1>8. var_values[Last(W)] = LastFelt(k)
  BY <1>1 DEF HoldsOf
<1> QED
  BY <1>7, <1>8 DEF LastOf

LEMMA CallTells ==
  ASSUME IsRun(fns, run), Apt, NEW i \in DOMAIN fns, fns[i].tail.is = "call",
         NEW known, Theirs(known), Has(known, fns[i].tail.of[1])
  PROVE  LastOf(fns[i].name, known[fns[i].tail.of[1]])
<1> DEFINE f == fns[i].name
           g == fns[i].tail.of[1]
<1> SUFFICES ASSUME Answerable(f)
             PROVE  \E k \in CallsOf(f) : known[g] = LastFelt(k)
  BY DEF LastOf
<1>1. Steady
  BY DEF Answerable
<1>2. PICK k \in DOMAIN run : run[k].name = f
  BY DEF Answerable, CallsOf
<1>3. run[k].fn = i /\ i # 0
  <2>1. run[k].fn = i
    BY <1>2, CallOf DEF Apt
  <2>2. run[k].fn # 0
    BY <1>2 DEF Apt, NamesDistinct, Names
  <2> QED
    BY <2>1, <2>2
<1>4. run[k].tail # 0
  BY <1>1, <1>3 DEF Steady
<1> DEFINE l == run[k].tail
<1>5. l \in DOMAIN run /\ run[k].result = run[l].result /\ run[l].name = g
  BY <1>3, <1>4, CallIs
<1>6. l \in CallsOf(g)
  BY <1>5 DEF CallsOf
<1>7. PICK q \in CallsOf(g) : known[g] = LastFelt(q)
  BY <1>1, <1>6 DEF Theirs, Answerable
<1> HIDE DEF l
<1>8. LastFelt(q) = LastFelt(l)
  <2>1. q \in DOMAIN run /\ run[q].name = g
    BY <1>7 DEF CallsOf
  <2> QED
    BY <1>1, <1>5, <2>1 DEF Steady
<1>9. LastFelt(k) = LastFelt(l)
  BY <1>5 DEF LastFelt
<1>10. k \in CallsOf(f)
  BY <1>2 DEF CallsOf
<1> QED
  BY <1>7, <1>8, <1>9, <1>10

(* A function in a pass: what was known stays, what becomes known is       *)
(* theirs, and a last line that tells does.                                *)
LEMMA TailTells ==
  ASSUME IsTable(fns), IsRun(fns, run), Apt, VariablesHold, NEW i \in DOMAIN fns, NEW known, Theirs(known)
  PROVE  LET f == fns[i]  next == FromTail(known, f) IN
         /\ Theirs(next)
         /\ \A g : Has(known, g) => Has(next, g)
         /\ f.tail.is \in {"tuple", "name"} /\ Has(var_values, Last(f.tail.of)) => Has(next, f.name)
         /\ f.tail.is = "call" /\ Has(known, f.tail.of[1]) => Has(next, f.name)
<1> DEFINE f == fns[i]  next == FromTail(known, f)  of == f.tail.of
           Good(n) == /\ Theirs(n) /\ \A g : Has(known, g) => Has(n, g)
                      /\ f.tail.is \in {"tuple", "name"} /\ Has(var_values, Last(of)) => Has(n, f.name)
                      /\ f.tail.is = "call" /\ Has(known, of[1]) => Has(n, f.name)
<1>1. /\ f.tail.is \in {"tuple", "name"} /\ Has(var_values, Last(of)) => LastOf(f.name, var_values[Last(of)])
      /\ f.tail.is = "call" /\ Has(known, of[1]) => LastOf(f.name, known[of[1]])
  <2>1. f.tail.is \in {"tuple", "name"} /\ Has(var_values, Last(of)) => LastOf(f.name, var_values[Last(of)])
    BY NamesTell DEF Has
  <2>2. f.tail.is = "call" /\ Has(known, of[1]) => LastOf(f.name, known[of[1]])
    BY CallTells
  <2> QED BY <2>1, <2>2
<1>2. ASSUME NEW v, ~Has(known, f.name), v # Unknown, LastOf(f.name, v)
      PROVE  Good(Put(known, f.name, v))
  <2> DEFINE n == Put(known, f.name, v)
  <2>1. DOMAIN n = DOMAIN known \cup {f.name} /\ n[f.name] = v /\ \A y \in DOMAIN known : y # f.name => n[y] = known[y]
    <3> DEFINE x == f.name
    <3> HIDE DEF x
    <3>1. /\ DOMAIN Put(known, x, v) = DOMAIN known \cup {x} /\ Put(known, x, v)[x] = v
          /\ \A y \in DOMAIN known : y # x => Put(known, x, v)[y] = known[y]
      BY DEF Put
    <3> QED BY <3>1 DEF x
  <2> HIDE DEF n, f
  <2>2. Has(n, f.name)
    BY <1>2, <2>1 DEF Has
  <2>3. ASSUME NEW g, Has(known, g) PROVE Has(n, g)
    BY <1>2, <2>1, <2>3 DEF Has
  <2>4. ASSUME NEW g, Has(n, g), Answerable(g) PROVE \E k \in CallsOf(g) : n[g] = LastFelt(k)
    <3>1. CASE g = f.name
      BY <1>2, <2>1, <2>4, <3>1 DEF LastOf
    <3>2. CASE g # f.name
      <4>1. Has(known, g) /\ n[g] = known[g]
        BY <2>1, <2>4, <3>2 DEF Has
      <4> QED BY <2>4, <4>1 DEF Theirs
    <3> QED BY <3>1, <3>2
  <2> QED BY <2>2, <2>3, <2>4 DEF Theirs, n
<1>3. CASE Has(known, f.name)
  <2>1. next = known
    BY <1>3 DEF FromTail
  <2>2. Good(known)
    BY <1>3
  <2> HIDE DEF f
  <2> QED BY <2>1, <2>2 DEF f
<1>4. CASE ~Has(known, f.name) /\ f.tail.is \in {"tuple", "name"} /\ Has(var_values, Last(of))
  <2>1. next = Put(known, f.name, var_values[Last(of)])
    BY <1>4 DEF FromTail
  <2>2. LastOf(f.name, var_values[Last(of)]) /\ var_values[Last(of)] # Unknown
    BY <1>1, <1>4 DEF Has
  <2>3. Good(Put(known, f.name, var_values[Last(of)]))
    <3> HIDE DEF Good
    <3> QED BY <1>2, <1>4, <2>2
  <2> QED BY <2>1, <2>3
<1>5. CASE ~Has(known, f.name) /\ f.tail.is = "call" /\ Has(known, of[1])
  <2>1. next = Put(known, f.name, known[of[1]])
    BY <1>5 DEF FromTail
  <2>2. LastOf(f.name, known[of[1]]) /\ known[of[1]] # Unknown
    BY <1>1, <1>5 DEF Has
  <2>3. Good(Put(known, f.name, known[of[1]]))
    <3> HIDE DEF Good
    <3> QED BY <1>2, <1>5, <2>2
  <2> QED BY <2>1, <2>3
<1>6. CASE /\ ~Has(known, f.name)
           /\ ~(f.tail.is \in {"tuple", "name"} /\ Has(var_values, Last(of)))
           /\ ~(f.tail.is = "call" /\ Has(known, of[1]))
  <2>1. next = PutNew(known, f.name, Unknown)
    BY <1>6 DEF FromTail
  <2> DEFINE p == PutNew(known, f.name, Unknown)
  <2>2. CASE f.name \in DOMAIN known
    <3>1. p = known
      BY <2>2 DEF PutNew
    <3> QED BY <1>6, <2>1, <3>1
  <2>3. CASE f.name \notin DOMAIN known
    <3>1. p = Put(known, f.name, Unknown)
      BY <2>3 DEF PutNew
    <3>2. DOMAIN p = DOMAIN known \cup {f.name} /\ p[f.name] = Unknown /\ \A y \in DOMAIN known : y # f.name => p[y] = known[y]
      <4> DEFINE x == f.name
      <4> HIDE DEF x
      <4>1. p = Put(known, x, Unknown)
        BY <3>1 DEF x
      <4> HIDE DEF p
      <4>2. /\ DOMAIN Put(known, x, Unknown) = DOMAIN known \cup {x} /\ Put(known, x, Unknown)[x] = Unknown
            /\ \A y \in DOMAIN known : y # x => Put(known, x, Unknown)[y] = known[y]
        BY DEF Put
      <4> QED BY <4>1, <4>2 DEF x
    <3> HIDE DEF p, f
    <3>3. ASSUME NEW g PROVE (Has(p, g) <=> Has(known, g)) /\ (Has(p, g) => p[g] = known[g])
      BY <2>3, <3>2 DEF Has
    <3>4. Theirs(p)
      BY <3>3 DEF Theirs
    <3>5. Good(p)
      BY <1>6, <3>3, <3>4
    <3> QED BY <2>1, <3>5 DEF p, f
  <2> QED BY <2>2, <2>3
<1> QED
  BY <1>3, <1>4, <1>5, <1>6

TuplesTold(known) ==
  \A i \in DOMAIN fns : fns[i].tail.is \in {"tuple", "name"} /\ Has(var_values, Last(fns[i].tail.of))
                          => Has(known, fns[i].name)

LEMMA PassTells ==
  ASSUME IsTable(fns), IsRun(fns, run), Apt, VariablesHold, Theirs(fn_returns)
  PROVE  LET last == Passed[Len(fns)] IN
         /\ Theirs(last) /\ TuplesTold(last)
         /\ \A g : Has(fn_returns, g) => Has(last, g)
         /\ \A i \in DOMAIN fns : fns[i].tail.is = "call" /\ Has(fn_returns, fns[i].tail.of[1]) => Has(last, fns[i].name)
<1> DEFINE TellsBy(i, known) ==
             /\ fns[i].tail.is \in {"tuple", "name"} /\ Has(var_values, Last(fns[i].tail.of)) => Has(known, fns[i].name)
             /\ fns[i].tail.is = "call" /\ Has(fn_returns, fns[i].tail.of[1]) => Has(known, fns[i].name)
           Good(n) == /\ Theirs(Passed[n]) /\ \A g : Has(fn_returns, g) => Has(Passed[n], g)
                      /\ \A i \in 1..n : TellsBy(i, Passed[n])
           So == {n \in Nat : n \in 0..Len(fns) => Good(n)}
<1>1. Len(fns) \in Nat /\ DOMAIN fns = 1..Len(fns)
  BY TableIs
<1>2. Passed = [n \in 0..Len(fns) |-> IF n = 0 THEN fn_returns ELSE FromTail(Passed[n - 1], fns[n])]
  BY PassedUnfolds
<1>3. 0 \in So
  <2>1. 0 \in 0..Len(fns)
    BY <1>1
  <2>2. Passed[0] = fn_returns
    BY <1>2, <2>1
  <2>3. \A i : i \notin 1..0
    OBVIOUS
  <2>4. Good(0)
    <3> HIDE DEF TellsBy
    <3> QED BY <2>2, <2>3
  <2> HIDE DEF Good
  <2> QED BY <2>4
<1>4. ASSUME NEW n \in Nat, n + 1 \in 0..Len(fns), Good(n) PROVE Good(n + 1)
  <2> DEFINE i == n + 1  next == FromTail(Passed[n], fns[i])
  <2>1. i \in DOMAIN fns /\ i # 0 /\ i - 1 = n
    BY <1>1, <1>4
  <2>2. Passed[i] = next
    BY <1>2, <1>4, <2>1
  <2>3. Theirs(Passed[n]) /\ \A g : Has(fn_returns, g) => Has(Passed[n], g)
    BY <1>4
  <2>4. /\ Theirs(next)
        /\ \A g : Has(Passed[n], g) => Has(next, g)
        /\ fns[i].tail.is \in {"tuple", "name"} /\ Has(var_values, Last(fns[i].tail.of)) => Has(next, fns[i].name)
        /\ fns[i].tail.is = "call" /\ Has(Passed[n], fns[i].tail.of[1]) => Has(next, fns[i].name)
    <3> HIDE DEF i, next
    <3> QED BY <2>1, <2>3, TailTells DEF next
  <2>5. \A j \in 1..n : TellsBy(j, Passed[n])
    BY <1>4
  <2> HIDE DEF next
  <2>6. ASSUME NEW j \in 1..i PROVE TellsBy(j, next)
    <3>1. CASE j = i
      BY <2>3, <2>4, <3>1
    <3>2. CASE j # i
      <4>1. j \in 1..n
        BY <1>4, <3>2
      <4> HIDE DEF i
      <4> QED BY <2>4, <2>5, <4>1
    <3> QED BY <3>1, <3>2
  <2>7. \A g : Has(fn_returns, g) => Has(next, g)
    BY <2>3, <2>4
  <2> HIDE DEF i, TellsBy
  <2>8. Good(i)
    BY <2>2, <2>4, <2>6, <2>7
  <2> QED BY <2>8 DEF i
<1>5. So = Nat
  <2> HIDE DEF Good
  <2>1. ASSUME NEW n \in So PROVE n + 1 \in So
    <3>1. n + 1 \in 0..Len(fns) => n \in 0..Len(fns)
      BY <1>1
    <3> QED BY <1>4, <3>1
  <2>2. So \in SUBSET Nat
    OBVIOUS
  <2> HIDE DEF So
  <2> QED BY <1>3, <2>1, <2>2, Induction
<1>6. Good(Len(fns))
  BY <1>1, <1>5
<1> QED
  BY <1>1, <1>6 DEF TuplesTold

-----------------------------------------------------------------------------
(***************************************************************************)
(* By the pass: the variables hold what was bound to them, then what       *)
(* functions are said to return is theirs, then those whose last line      *)
(* names a variable have their value, then those that call one of these.   *)
(***************************************************************************)
CallsTold(known) ==
  \A i, j \in DOMAIN fns :
    /\ fns[i].tail.is = "call" /\ fns[j].name = fns[i].tail.of[1]
    /\ fns[j].tail.is \in {"tuple", "name"} /\ Has(var_values, Last(fns[j].tail.of))
    => Has(known, fns[i].name)

ReturnsInv ==
  /\ passes \in Nat
  /\ Apt => /\ passes >= 1 => var_values = VariablesOf(VMValues)
            /\ passes >= 2 => Theirs(fn_returns)
            /\ passes >= 3 => TuplesTold(fn_returns)
            /\ passes >= 4 => CallsTold(fn_returns)
LEMMA InitReturns == Init => ReturnsInv
<1> SUFFICES ASSUME Init PROVE ReturnsInv
  OBVIOUS
<1>1. passes = 0
  BY DEF Init, RecordInit, ReturnsInit
<1> QED BY <1>1 DEF ReturnsInv
LEMMA ReturnsKept ==
  ASSUME UNCHANGED <<fns, run, panicked>>
  PROVE  /\ Apt' <=> Apt
         /\ VariablesOf(VMValues)' = VariablesOf(VMValues)
         /\ \A k : LastFelt(k)' = LastFelt(k)
         /\ \A f : CallsOf(f)' = CallsOf(f) /\ (Answerable(f)' <=> Answerable(f))
<1>1. Names' = Names /\ VMValues' = VMValues /\ Delegates' = Delegates
  BY DEF Names, VMValues, Delegates
<1>2. parse_return_expression' = parse_return_expression
  BY SMT DEF parse_return_expression, FoldLeft, MapThenFoldSet
<1>3. VariablesOf(VMValues)' = VariablesOf(VMValues)
  BY <1>1, <1>2 DEF VariablesOf
<1>4. MainReturnsWidest' <=> MainReturnsWidest
  BY <1>1, <1>2 DEF MainReturnsWidest
<1>5. NamesDistinct' <=> NamesDistinct
  BY <1>1 DEF NamesDistinct
<1>6. ASSUME NEW k PROVE LastFelt(k)' = LastFelt(k)
  BY DEF LastFelt
<1>7. Steady' <=> Steady
  BY <1>6 DEF Steady
<1>8. ASSUME NEW f PROVE CallsOf(f)' = CallsOf(f)
  BY DEF CallsOf
<1>9. ASSUME NEW f PROVE Answerable(f)' <=> Answerable(f)
  BY <1>7, <1>8 DEF Answerable
<1>10. Apt' <=> Apt
  BY <1>4, <1>5 DEF Apt
<1> QED
  BY <1>3, <1>6, <1>8, <1>9, <1>10

LEMMA DeriveTold ==
  ASSUME IsTable(fns), IsRun(fns, run), Apt, ReturnsInv, compute_function_return_values
  PROVE  /\ passes' = passes + 1 /\ UNCHANGED <<fns, run, panicked>>
         /\ passes = 0 => var_values' = VariablesOf(VMValues)
         /\ passes >= 1 => var_values' = var_values /\ Theirs(fn_returns')
         /\ passes >= 2 => TuplesTold(fn_returns')
         /\ passes >= 3 => CallsTold(fn_returns')
<1>0. passes' = passes + 1 /\ UNCHANGED <<fns, run, panicked>> /\ passes \in Nat
  BY DEF compute_function_return_values, ReturnsInv
<1>1. CASE SeedVariables
  <2>1. passes = 0 /\ var_values' = VariablesOf(VMValues)
    BY <1>1 DEF SeedVariables, Apt
  <2> QED BY <1>0, <2>1
<1>2. CASE FromBindings
  <2>1. passes = 1 /\ var_values' = var_values
    BY <1>2 DEF FromBindings
  <2>2. var_values = VariablesOf(VMValues)
    BY <2>1 DEF ReturnsInv
  <2>3. Theirs(fn_returns')
    BY <1>2, <2>2, SeededHold, BindingsTell
  <2> QED BY <1>0, <2>1, <2>3
<1>3. CASE FromTails
  <2>1. passes \in 2..3 /\ var_values' = var_values /\ fn_returns' = Passed[Len(fns)]
    BY <1>3 DEF FromTails, TailPasses
  <2>2. var_values = VariablesOf(VMValues) /\ Theirs(fn_returns) /\ (passes >= 3 => TuplesTold(fn_returns))
    BY <2>1 DEF ReturnsInv
  <2>3. VariablesHold
    BY <2>2, SeededHold
  <2> DEFINE last == Passed[Len(fns)]
  <2>4. /\ Theirs(last) /\ TuplesTold(last)
        /\ \A i \in DOMAIN fns : fns[i].tail.is = "call" /\ Has(fn_returns, fns[i].tail.of[1]) => Has(last, fns[i].name)
    BY <2>2, <2>3, PassTells
  <2> HIDE DEF last
  <2>5. passes >= 3 => CallsTold(last)
    BY <2>2, <2>4 DEF CallsTold, TuplesTold
  <2>6. fn_returns' = last /\ passes # 0
    BY <2>1 DEF last
  <2> QED BY <1>0, <2>1, <2>4, <2>5, <2>6
<1> QED
  BY <1>1, <1>2, <1>3 DEF compute_function_return_values

LEMMA NextReturns == ProgramKept /\ ReturnsInv /\ [Next]_recorderVars => ReturnsInv'
<1> SUFFICES ASSUME ProgramKept, ReturnsInv, [Next]_recorderVars PROVE ReturnsInv'
  OBVIOUS
<1>1. UNCHANGED <<fns, run, panicked>>
  BY ProgramStays
<1>2. /\ Apt' <=> Apt
      /\ VariablesOf(VMValues)' = VariablesOf(VMValues)
      /\ \A k : LastFelt(k)' = LastFelt(k)
      /\ \A f : CallsOf(f)' = CallsOf(f) /\ (Answerable(f)' <=> Answerable(f))
  BY <1>1, ReturnsKept
<1>3. UNCHANGED returnVars \/ Derive
  <2>1. CASE record
    <3>1. CASE read_to_string \/ Compile \/ OpenRecording \/ LeaveRoot \/ TellPanic
      BY <3>1 DEF read_to_string, Compile, OpenRecording, LeaveRoot, TellPanic, recordVars
    <3>2. CASE StartProbe \/ ProbeStep \/ Run \/ CallRoot \/ WalkRoot
      BY <3>2 DEF StartProbe, ProbeStep, Run, CallRoot, WalkRoot
    <3> QED BY <2>1, <3>1, <3>2 DEF record
  <2>2. CASE trace_starknet \/ replay
    BY <2>2 DEF trace_starknet, replay, recordVars
  <2>3. CASE Locate \/ CheckDisabled \/ MakeFolder \/ CloseBundleFiles \/ Environment
    BY <2>3 DEF Locate, CheckDisabled, MakeFolder, CloseBundleFiles, Environment, recordVars
  <2>4. CASE UNCHANGED recorderVars
    BY <2>4 DEF recorderVars, recordVars
  <2> QED
    BY <2>1, <2>2, <2>3, <2>4 DEF Next, main
<1>4. CASE UNCHANGED returnVars
  <2>1. passes' = passes /\ var_values' = var_values /\ fn_returns' = fn_returns
    BY <1>4 DEF returnVars
  <2>2. Theirs(fn_returns)' <=> Theirs(fn_returns)
    BY <1>2, <2>1 DEF Theirs, Has
  <2>3. TuplesTold(fn_returns)' <=> TuplesTold(fn_returns)
    BY <1>1, <2>1 DEF TuplesTold, Has
  <2>4. CallsTold(fn_returns)' <=> CallsTold(fn_returns)
    BY <1>1, <2>1 DEF CallsTold, Has
  <2> QED BY <1>2, <2>1, <2>2, <2>3, <2>4 DEF ReturnsInv
<1>5. CASE compute_function_return_values
  <2>1. passes \in Nat /\ passes' = passes + 1
    BY <1>5 DEF ReturnsInv, compute_function_return_values
  <2>2. CASE ~Apt
    <3>1. passes' \in Nat
      BY <2>1
    <3> QED BY <1>2, <2>2, <3>1 DEF ReturnsInv
  <2>3. CASE Apt
    <3>1. IsTable(fns) /\ IsRun(fns, run)
      BY DEF ProgramKept
    <3>2. /\ passes = 0 => var_values' = VariablesOf(VMValues)
          /\ passes >= 1 => var_values' = var_values /\ Theirs(fn_returns')
          /\ passes >= 2 => TuplesTold(fn_returns')
          /\ passes >= 3 => CallsTold(fn_returns')
      BY <1>5, <2>3, <3>1, DeriveTold
    <3>3. passes >= 1 => var_values = VariablesOf(VMValues)
      BY <2>3 DEF ReturnsInv
    <3>4. passes >= 1 => Theirs(fn_returns)'
      BY <1>2, <3>2 DEF Theirs, Has
    <3>5. passes >= 2 => TuplesTold(fn_returns)'
      <4>1. passes >= 2 => var_values' = var_values
        BY <2>1, <3>2
      <4> QED BY <1>1, <3>2, <4>1 DEF TuplesTold, Has
    <3>6. passes >= 3 => CallsTold(fn_returns)'
      <4>1. passes >= 3 => var_values' = var_values
        BY <2>1, <3>2
      <4> QED BY <1>1, <3>2, <4>1 DEF CallsTold, Has
    <3>7. var_values' = VariablesOf(VMValues)'
      BY <1>2, <2>1, <3>2, <3>3
    <3>8. passes' \in Nat /\ (passes' >= 2 => passes >= 1) /\ (passes' >= 3 => passes >= 2) /\ (passes' >= 4 => passes >= 3)
      BY <2>1
    <3> QED BY <3>4, <3>5, <3>6, <3>7, <3>8 DEF ReturnsInv
  <2> QED BY <2>2, <2>3
<1>6. CASE Derive
  BY <1>4, <1>5, <1>6 DEF Derive
<1> QED
  BY <1>3, <1>4, <1>6
LEMMA WidestIsNear ==
  ASSUME IsTable(fns), IsRun(fns, run), Apt, NEW k, WidestCall(k),
         NEW i \in DOMAIN fns, NEW j \in DOMAIN fns, fns[i].name = "main",
         fns[i].tail.is = "call" => fns[j].name = fns[i].tail.of[1] /\ fns[j].tail.is # "call"
  PROVE  IF fns[i].tail.is = "call" THEN run[k].fn = j ELSE run[k].fn = i
<1>1. 1 \in DOMAIN run /\ run[1].name = "main"
  BY FirstCall DEF Apt
<1>2. run[1].fn = i
  BY <1>1, CallOf DEF Apt
<1>3. k \in Delegates /\ WidestFacts(k, parse_return_expression)
  BY WidestCallIs DEF WidestCall
<1>4. CASE run[1].tail = 0
  <2>1. k = 1
    BY <1>1, <1>3, <1>4, DelegatesReturn
  <2>2. fns[i].tail.is \in {"tuple", "name"}
    BY <1>2, <1>3, <2>1 DEF WidestFacts
  <2> QED
    BY <1>2, <2>1, <2>2
<1>5. CASE run[1].tail # 0
  <2> DEFINE t == run[1].tail
  <2>1. t \in DOMAIN run /\ fns[i].tail.is = "call" /\ run[t].name = fns[i].tail.of[1]
    BY <1>1, <1>2, <1>5, CallIs
  <2> HIDE DEF t
  <2>2. run[t].name = fns[j].name /\ fns[j].tail.is # "call"
    BY <2>1
  <2>3. run[t].fn = j
    BY <2>1, <2>2, CallOf DEF Apt
  <2>4. run[t].tail = 0
    BY <2>1, <2>2, <2>3, CallIs
  <2>5. k \in {1, t}
    BY <1>1, <1>3, <1>5, <2>4, DelegatesReturn DEF t
  <2>6. k # 1
    BY <1>2, <1>3, <2>1 DEF WidestFacts
  <2> QED
    BY <2>1, <2>3, <2>5, <2>6
<1> QED
  BY <1>4, <1>5

LEMMA ReturnsTold == ProgramKept /\ ReturnsInv => ReturnsAreTheirs
<1> SUFFICES ASSUME ProgramKept, ReturnsInv, Derived, Apt PROVE ReturnsAreTheirs
  BY DEF ReturnsAreTheirs, Apt
<1>0. IsTable(fns) /\ IsRun(fns, run)
  BY DEF ProgramKept
<1>1. passes = 4
  BY DEF Derived, TailPasses
<1>2. var_values = VariablesOf(VMValues) /\ Theirs(fn_returns) /\ TuplesTold(fn_returns) /\ CallsTold(fn_returns)
  BY <1>1 DEF ReturnsInv
<1>3. PICK k : WidestCall(k) /\ HoldsOf(k, parse_return_expression)
  BY <1>0, <1>2, SeededHold DEF VariablesHold
<1>4. WidestFacts(k, parse_return_expression)
  BY <1>0, <1>3, WidestCallIs
<1> DEFINE w == run[k].fn
<1>5. w \in DOMAIN fns /\ fns[w].tail.is \in {"tuple", "name"} /\ Has(var_values, Last(fns[w].tail.of))
  <2> DEFINE W == parse_return_expression
  <2>1. fns[w].tail.of = W /\ Len(W) \in DOMAIN W /\ w \in DOMAIN fns /\ fns[w].tail.is \in {"tuple", "name"}
    BY <1>4 DEF WidestFacts
  <2>2. Last(W) \in ToSet(W)
    BY <2>1 DEF Last, ToSet
  <2> HIDE DEF w
  <2> QED
    BY <1>3, <2>1, <2>2 DEF HoldsOf, Has
<1>6. ASSUME NEW i \in DOMAIN fns, NEW j \in DOMAIN fns, fns[i].name = "main",
             fns[i].tail.is = "call" => fns[j].name = fns[i].tail.of[1] /\ fns[j].tail.is # "call"
      PROVE  Has(fn_returns, "main")
  <2>1. IF fns[i].tail.is = "call" THEN w = j ELSE w = i
    BY <1>0, <1>3, <1>6, WidestIsNear
  <2> HIDE DEF w
  <2>2. CASE fns[i].tail.is # "call"
    BY <1>2, <1>5, <1>6, <2>1, <2>2 DEF TuplesTold
  <2>3. CASE fns[i].tail.is = "call"
    BY <1>2, <1>5, <1>6, <2>1, <2>3 DEF CallsTold
  <2> QED
    BY <2>2, <2>3
<1>7. ASSUME NEW i \in DOMAIN fns, Has(fn_returns, fns[i].name), fns[i].tail.is # "call" \/ Steady,
             CallsOf(fns[i].name) # {}
      PROVE  \E l \in CallsOf(fns[i].name) : fn_returns[fns[i].name] = LastFelt(l)
  <2>1. \A j \in DOMAIN fns : fns[j].name = fns[i].name => j = i
    BY DEF Apt, NamesDistinct
  <2>2. Answerable(fns[i].name)
    BY <1>7, <2>1 DEF Answerable
  <2> QED
    BY <1>2, <1>7, <2>2 DEF Theirs
<1> QED
  BY <1>6, <1>7 DEF ReturnsAreTheirs, CallsOf

(***************************************************************************)
(* The values compute_function_return_values gives (tracer.rs:3164-3280,   *)
(* 3404-3480), for every table of functions, recursive ones among them,    *)
(* and every run of them, in which the calls of one function return what   *)
(* they may: where names are distinct and the run's result is what the     *)
(* widest last line names, the value given to a function is the last felt  *)
(* of what one of its calls returned, with a steady run for the functions  *)
(* that end in a call; and main has one unless it is two calls away.       *)
(***************************************************************************)
THEOREM ReturnsAreAlwaysTheirs == Spec => []ReturnsAreTheirs
<1> DEFINE Inv == ProgramKept /\ ReturnsInv
<1>1. Init => Inv
  BY InitProgram, InitReturns
<1>2. Inv /\ [Next]_recorderVars => Inv'
  BY NextProgram, NextReturns
<1>3. Inv => ReturnsAreTheirs
  BY ReturnsTold
<1> QED
  BY <1>1, <1>2, <1>3, PTL DEF Spec

-----------------------------------------------------------------------------
(***************************************************************************)
(* The order of a transaction, with the lemmas of TransactionReplayProofs: *)
(* while it is written the tree is told as far as the writer got (TreeAt). *)
(***************************************************************************)
Ended == at \in {"close", "end"} /\ outcome \in {"running", "ok"} /\ disk # "nothing"

TreeTold == tx # NoTx => Replaying /\ IsTransaction(tx) /\ TreeAt(out, lines, stack, diffed)
NotBegun == Replaying /\ at \in Early \cup {"open"} => lines = 1 /\ diffed = 0
AllTold == tx # NoTx /\ Ended => lines > 1 /\ diffed = Len(tx.diffs)

TreeInv == TreeTold /\ NotBegun /\ AllTold

LEMMA StartsTree == IsTransaction(tx) => TreeAt(<<>>, 1, <<>>, 0)
BY TreeStarts

LEMMA StartsTreeNext == (IsTransaction(tx))' => (TreeAt(<<>>, 1, <<>>, 0))'
BY StartsTree, PTL

LEMMA InitTree == Init => TreeInv
BY DEF Init, ReplayInit, TreeInv, TreeTold, NotBegun, AllTold

(* Steps that leave the walk where it is.                                  *)
LEMMA TreeUntouched ==
  ASSUME TreeInv, UNCHANGED <<command, tx, stack, lines, diffed, out>>,
         at' \in Early \cup {"open"} => at \in Early \cup {"open"},
         Ended' => Ended
  PROVE  TreeInv'
<1>1. TreeAt(out, lines, stack, diffed)' <=> TreeAt(out, lines, stack, diffed)
  <2>1. \A o, ln, open, df : TreeAt(o, ln, open, df)' <=> TreeAt(o, ln, open, df)
    BY TreeKept
  <2> QED BY <2>1
<1>2. (Replaying' <=> Replaying) /\ (IsTransaction(tx)' <=> IsTransaction(tx))
  BY DEF Replaying
<1>3. TreeTold'
  BY <1>1, <1>2 DEF TreeInv, TreeTold
<1>4. NotBegun' /\ AllTold'
  BY <1>2 DEF TreeInv, NotBegun, AllTold
<1> QED BY <1>3, <1>4 DEF TreeInv

(* Steps of the walk and of the changes: what is open, the lines and the   *)
(* changes may all go on, in the phase it is in.                           *)
LEMMA TreeGoesOn ==
  ASSUME TreeInv, UNCHANGED <<command, tx, at>>, at = "walk",
         tx # NoTx => TreeAt(out', lines', stack', diffed')
  PROVE  TreeInv'
<1>1. \A o, ln, open, df : TreeAt(o, ln, open, df)' <=> TreeAt(o, ln, open, df)
  BY TreeKept
<1>2. (Replaying' <=> Replaying) /\ (IsTransaction(tx)' <=> IsTransaction(tx))
  BY DEF Replaying
<1>3. TreeTold'
  <2> SUFFICES ASSUME tx # NoTx PROVE Replaying /\ IsTransaction(tx) /\ TreeAt(out', lines', stack', diffed')
    BY <1>1, <1>2 DEF TreeTold
  <2> QED BY DEF TreeInv, TreeTold
<1>4. NotBegun' /\ AllTold'
  BY DEF NotBegun, AllTold, Ended, Early
<1> QED BY <1>3, <1>4 DEF TreeInv

LEMMA NextTree == RecorderInv /\ TreeInv /\ [Next]_recorderVars => TreeInv'
<1> SUFFICES ASSUME RecorderInv, TreeInv, [Next]_recorderVars PROVE TreeInv'
  OBVIOUS
<1> USE DEF Goto, Stay, Finish, Aside, Fail
<1>0. command' = command /\ (Replaying' <=> Replaying)
  BY ProgramStays DEF Replaying
<1>1. PhasesInv /\ ReplayTyped
  BY DEF RecorderInv
<1>2. CASE replay
  <2>0. Replaying
    BY <1>2 DEF replay, Replaying
  <2>1. CASE SourceTrace(command = "replay_live")
    <3>1. at = "locate" /\ UNCHANGED <<stack, lines, diffed, out, disk>>
      BY <2>1 DEF SourceTrace
    <3>2. stack = <<>> /\ out = <<>> /\ lines = 1 /\ diffed = 0
      BY <1>1, <2>0, <3>1 DEF PhasesInv, BundleByPhase, ReplayTyped, TreeInv, NotBegun, Early
    <3>3. CASE tx' = tx /\ at' = "end" /\ outcome' \notin {"running", "ok"}
      BY <1>0, <3>1, <3>3, TreeUntouched DEF Ended, Early
    <3>4. CASE at' \in {"class", "disabled"} /\ (tx' # NoTx => IsTransaction(tx)')
      <4>1. tx' # NoTx => TreeAt(<<>>, 1, <<>>, 0)'
        BY <3>4, StartsTreeNext
      <4>2. out' = <<>> /\ lines' = 1 /\ stack' = <<>> /\ diffed' = 0
        BY <3>1, <3>2
      <4>3. TreeTold'
        BY <1>0, <2>0, <3>4, <4>1, <4>2 DEF TreeTold
      <4>4. NotBegun' /\ AllTold'
        BY <3>4, <4>2 DEF NotBegun, AllTold, Ended
      <4> QED BY <4>3, <4>4 DEF TreeInv
    <3>5. (tx' = tx /\ at' = "end" /\ outcome' \notin {"running", "ok"})
          \/ (at' \in {"class", "disabled"} /\ (tx' # NoTx => IsTransaction(tx)'))
      BY <2>1, FetchedIsTransaction DEF SourceTrace
    <3> QED BY <3>3, <3>4, <3>5
  <2>2. CASE Reexecute
    <3>1. UNCHANGED <<tx, stack, lines, diffed, out, disk>> /\ at = "class" /\ at' = "disabled"
      BY <2>2 DEF Reexecute
    <3> QED BY <1>0, <3>1, TreeUntouched DEF Ended, Early
  <2>3. CASE OpenReplay
    <3>1. UNCHANGED <<tx, stack, lines, diffed, out>> /\ at = "open"
      BY <2>3 DEF OpenReplay, OpenBundle, replayVars
    <3>2. at' = "walk" \/ (at' = "end" /\ outcome' = "writer")
      BY <2>3 DEF OpenReplay
    <3> QED BY <1>0, <3>1, <3>2, TreeUntouched DEF Ended, Early
  <2>4. CASE write_invocation
    <3>1. UNCHANGED <<tx, diffed, at>> /\ at = "walk"
      BY <2>4 DEF write_invocation
    <3>2. ASSUME tx # NoTx PROVE TreeAt(out', lines', stack', diffed')
      <4>1. IsTransaction(tx) /\ TreeAt(out, lines, stack, diffed)
        BY <3>2 DEF TreeInv, TreeTold
      <4>2. PICK n : /\ Visit(n)
                     /\ \/ stack = <<>> /\ lines = 1 /\ n = 1
                        \/ stack # <<>> /\ CallsLeft /\ n = calls(Top.node)[Top.next].of
        BY <2>4 DEF write_invocation
      <4>3. stack # <<>> => lines # 1
        BY <4>1 DEF TreeAt, TellsTree
      <4>4. n \in Nodes
        <5>1. CASE stack = <<>> /\ n = 1
          BY <4>1, <5>1, TraceIsATree
        <5>2. CASE stack # <<>> /\ CallsLeft /\ n = calls(Top.node)[Top.next].of
          <6> DEFINE Frames == [node : Nodes, next : Nat \ {0}]
          <6>1. stack \in Seq(Frames)
            BY <4>1 DEF TreeAt
          <6> HIDE DEF Frames
          <6>2. stack[Len(stack)] \in Frames
            BY <5>2, <6>1
          <6>3. Top.node \in Nodes /\ Top.next \in Nat \ {0} /\ Top.next <= Len(calls(Top.node))
            BY <5>2, <6>2 DEF Top, Frames, CallsLeft
          <6>4. Len(calls(Top.node)) \in Nat /\ \A k \in 1..Len(calls(Top.node)) : calls(Top.node)[k].of \in Nodes
            BY <4>1, <6>3, RestUnfolds
          <6>5. Top.next \in 1..Len(calls(Top.node))
            BY <6>3, <6>4
          <6> QED BY <5>2, <6>4, <6>5
        <5> QED BY <4>2, <5>1, <5>2
      <4>5. TreeAt(out \o Entered(n), lines + 1, Append(Moved(stack), [node |-> n, next |-> 1]), diffed)
        BY <4>1, <4>2, <4>3, <4>4, TreeEnters
      <4>6. out' = out \o Entered(n) /\ lines' = lines + 1
        BY <4>2 DEF Visit, Write
      <4>7. stack' = Append(Moved(stack), [node |-> n, next |-> 1])
        BY <4>2, Zenon DEF Visit, Moved
      <4> QED BY <3>1, <4>5, <4>6, <4>7, Zenon
    <3> QED BY <1>0, <3>1, <3>2, TreeGoesOn
  <2>5. CASE ReturnInvocation
    <3>1. UNCHANGED <<tx, diffed, at, lines>> /\ at = "walk"
      BY <2>5 DEF ReturnInvocation
    <3>2. ASSUME tx # NoTx PROVE TreeAt(out', lines', stack', diffed')
      <4>1. IsTransaction(tx) /\ TreeAt(out, lines, stack, diffed)
        BY <3>2 DEF TreeInv, TreeTold
      <4>2. stack # <<>> /\ ~CallsLeft
        BY <2>5 DEF ReturnInvocation
      <4>3. TreeAt(out \o <<Returning(lines - 1, Top.node)>>, lines, Front(stack), diffed)
        BY <4>1, <4>2, TreeReturns
      <4>4. out' = out \o <<Returning(lines - 1, Top.node)>> /\ stack' = Front(stack)
        BY <2>5 DEF ReturnInvocation, Write
      <4> QED BY <3>1, <4>3, <4>4, Zenon
    <3> QED BY <1>0, <3>1, <3>2, TreeGoesOn
  <2>6. CASE WriteDiff
    <3>1. UNCHANGED <<tx, stack, at, lines>> /\ at = "walk" /\ diffed < Len(tx.diffs) /\ diffed' = diffed + 1
      BY <2>6 DEF WriteDiff, Walked
    <3>2. ASSUME tx # NoTx PROVE TreeAt(out', lines', stack', diffed')
      <4>1. IsTransaction(tx) /\ TreeAt(out, lines, stack, diffed)
        BY <3>2 DEF TreeInv, TreeTold
      <4>2. TreeAt(out \o Changes(diffed + 1), lines, stack, diffed + 1)
        BY <3>1, <4>1, TreeChanges
      <4>3. out' = out \o Changes(diffed + 1)
        BY <2>6, Zenon DEF WriteDiff, Write, Changes
      <4> QED BY <3>1, <4>2, <4>3, Zenon
    <3> QED BY <1>0, <3>1, <3>2, TreeGoesOn
  <2>7. CASE DiffsWritten
    <3>1. /\ UNCHANGED <<tx, stack, lines, diffed, out>> /\ at = "walk" /\ at' = "close"
          /\ lines > 1 /\ diffed = Len(tx.diffs)
      BY <2>7 DEF DiffsWritten, Walked, replayVars
    <3>2. TreeAt(out, lines, stack, diffed)' <=> TreeAt(out, lines, stack, diffed)
      <4>1. \A o, ln, open, df : TreeAt(o, ln, open, df)' <=> TreeAt(o, ln, open, df)
        BY <3>1, TreeKept
      <4> QED BY <3>1, <4>1
    <3>3. TreeTold'
      BY <1>0, <3>1, <3>2 DEF TreeInv, TreeTold
    <3>4. NotBegun' /\ AllTold'
      BY <3>1 DEF NotBegun, AllTold, Early
    <3> QED BY <3>3, <3>4 DEF TreeInv
  <2> QED BY <1>2, <2>1, <2>2, <2>3, <2>4, <2>5, <2>6, <2>7 DEF replay
<1>3. CASE record \/ trace_starknet \/ Environment
  <2>1. UNCHANGED tx /\ ~Replaying
    BY <1>3 DEF record, trace_starknet, Environment, replayVars, Replaying
  <2>2. tx = NoTx
    BY <2>1 DEF TreeInv, TreeTold
  <2> QED BY <1>0, <2>1, <2>2 DEF TreeInv, TreeTold, NotBegun, AllTold
<1>4. CASE Locate \/ CheckDisabled \/ MakeFolder \/ CloseBundleFiles
  <2>1. UNCHANGED <<tx, stack, lines, diffed, out>>
    BY <1>4 DEF Locate, CheckDisabled, MakeFolder, CloseBundleFiles, Close, create_dir_all, replayVars
  <2>2. at' \in Early \cup {"open"} => at \in Early \cup {"open"}
    <3>1. CASE Locate \/ CheckDisabled \/ MakeFolder
      BY <3>1 DEF Locate, CheckDisabled, MakeFolder, Early
    <3>2. CASE CloseBundleFiles
      BY <3>2 DEF CloseBundleFiles, Close, Early
    <3> QED BY <1>4, <3>1, <3>2
  <2>3. Ended' => Ended
    <3>1. CASE Locate
      BY <3>1 DEF Locate, Ended
    <3>2. CASE CheckDisabled
      BY <1>1, <3>2 DEF CheckDisabled, Ended, PhasesInv, BundleByPhase, Early
    <3>3. CASE MakeFolder
      BY <3>3 DEF MakeFolder, Ended
    <3>4. CASE CloseBundleFiles
      <4>1. at = "close" /\ outcome = "running" /\ disk # "nothing"
        BY <1>1, <3>4 DEF CloseBundleFiles, Close, PhasesInv, BundleByPhase, OutcomeByPhase
      <4> QED BY <4>1 DEF Ended
    <3> QED BY <1>4, <3>1, <3>2, <3>3, <3>4
  <2> QED BY <1>0, <2>1, <2>2, <2>3, TreeUntouched
<1>5. CASE UNCHANGED recorderVars
  <2>1. UNCHANGED <<tx, stack, lines, diffed, out, at, outcome, disk>>
    BY <1>5 DEF recorderVars, bundleVars, replayVars
  <2> QED BY <1>0, <2>1, TreeUntouched DEF Ended
<1> QED BY <1>2, <1>3, <1>4, <1>5 DEF Next, main

LEMMA FirstPart ==
  ASSUME NEW T, NEW s \in Seq(T), NEW w \in Seq(T)
  PROVE  IsPrefix(s, s \o w)
<1>1. IsSequence(s) /\ IsSequence(w)
  BY AnyIsSequence
<1>2. Len(s) \in Nat
  OBVIOUS
<1>3. IsPrefix(s, s)
  BY <1>1, <1>2, PrefixByElements
<1> QED BY <1>1, <1>3, PrefixOfMore

LEMMA PartsOfTheWhole ==
  ASSUME NEW S, NEW T, NEW f, Adds(f, S, T), NEW s \in Seq(S), NEW w \in Seq(S)
  PROVE  IsPrefix(f[s], f[s \o w])
<1>1. f[s \o w] = f[s] \o f[w] /\ f[s] \in Seq(T) /\ f[w] \in Seq(T)
  BY DEF Adds
<1> QED BY <1>1, FirstPart

LEMMA TreeIsTold ==
  ASSUME TreeInv, ReplayTyped, PhasesInv
  PROVE  KeepsCallOrder
<1> SUFFICES ASSUME tx # NoTx
             PROVE  /\ IsPrefix(WithoutEvents(Told), WithoutEvents(Execution))
                    /\ \A n \in DOMAIN tx.nodes : IsPrefix(Emitted(Told, n), Emitted(Execution, n))
                    /\ OpenTold(Told)
                    /\ \A i \in DOMAIN Steps : Steps[i].line = i
                    /\ EventsFirst => IsPrefix(Told, Execution)
                    /\ Ended => /\ Len(Steps) = count_invocations
                                /\ Len(Where(out, IsEvmEvent)) = count_events
                                /\ Len(Where(out, IsWrite)) = count_storage_entries
  BY Zenon DEF KeepsCallOrder, Ended, OpenTold, OpenAt
<1> DEFINE E == TraceEvents
<1>1. IsTransaction(tx) /\ TreeAt(out, lines, stack, diffed) /\ Replaying
  BY DEF TreeInv, TreeTold
<1>2. Told = ToldOf(out)
  BY Zenon DEF Told, ToldOf
<1>3. /\ lines \in Nat \ {0} /\ diffed \in 0..Len(tx.diffs)
      /\ Told \in Seq(E) /\ OpenTold(Told) /\ Tallied(out, Told, lines, diffed) /\ TellsTree(Told, lines, stack)
  BY <1>1, <1>2, Zenon DEF TreeAt
<1>4. /\ 1 \in Nodes /\ Nodes = DOMAIN tx.nodes /\ Written[1] \in Seq(E)
      /\ Execution = Happened[1]
  BY <1>1, TraceIsATree, TreeTyped DEF Nodes, Execution
<1>5. Len(stack) \in Nat /\ (stack = <<>> => Len(stack) = 0)
  <2> DEFINE Frames == [node : Nodes, next : Nat \ {0}]
  <2>1. stack \in Seq(Frames)
    BY <1>1 DEF TreeAt
  <2> HIDE DEF Frames
  <2> QED BY <2>1
<1>6. PICK r \in Seq(E) : Told \o r = Written[1] /\ (lines # 1 /\ stack = <<>> => r = <<>>)
  <2>1. CASE lines = 1
    <3>1. Told = <<>>
      BY <1>3, <2>1 DEF TellsTree
    <3>2. Told \o Written[1] = Written[1]
      BY <1>4, <3>1, ConcatEmptySeq
    <3> QED BY <1>4, <2>1, <3>2
  <2>2. CASE lines # 1
    <3>1. PICK rest : StillToTell(rest, stack) /\ Told \o rest[Len(stack)] = Written[1]
      BY <1>3, <2>2, Zenon DEF TellsTree
    <3>2. rest \in [0..Len(stack) -> Seq(E)] /\ rest[0] = <<>> /\ Len(stack) \in 0..Len(stack)
      BY <1>5, <3>1 DEF StillToTell
    <3>3. rest[Len(stack)] \in Seq(E) /\ (stack = <<>> => rest[Len(stack)] = <<>>)
      BY <1>5, <3>2
    <3> QED BY <3>1, <3>3
  <2> QED BY <2>1, <2>2
<1> HIDE DEF E
<1>7. IsPrefix(WithoutEvents(Told), WithoutEvents(Execution))
  <2> DEFINE f == Each(E, Picks(E, {x \in E : IsNoSpecial(x)}))
  <2>1. Adds(f, E, E)
    BY PicksAdd
  <2>2. \A s \in Seq(E) : WithoutEvents(s) = f[s]
    BY WithoutEventsPicks
  <2> HIDE DEF f
  <2>3. IsPrefix(f[Told], f[Told \o r])
    BY <1>3, <1>6, <2>1, PartsOfTheWhole
  <2>4. WithoutEvents(Written[1]) = WithoutEvents(Execution)
    BY <1>1, <1>4, OrderIsKept
  <2>5. f[Told] = WithoutEvents(Told) /\ f[Told \o r] = WithoutEvents(Written[1])
    BY <1>3, <1>4, <1>6, <2>2
  <2> QED BY <2>3, <2>4, <2>5, Zenon
<1>8. ASSUME NEW n \in DOMAIN tx.nodes PROVE IsPrefix(Emitted(Told, n), Emitted(Execution, n))
  <2> DEFINE f == Each(E, Picks(E, {x \in E : IsSpecial(x) /\ x.of[1] = n}))
  <2>1. Adds(f, E, E)
    BY PicksAdd
  <2>2. \A s \in Seq(E) : Emitted(s, n) = f[s]
    BY EmittedPicks
  <2> HIDE DEF f
  <2>3. IsPrefix(f[Told], f[Told \o r])
    BY <1>3, <1>6, <2>1, PartsOfTheWhole
  <2>4. n \in Nodes
    BY <1>4
  <2>5. Emitted(Written[1], n) = Emitted(Execution, n)
    BY <1>1, <1>4, <2>4, EventsAreKept
  <2>6. f[Told] = Emitted(Told, n) /\ f[Told \o r] = Emitted(Written[1], n)
    BY <1>3, <1>4, <1>6, <2>2
  <2> QED BY <2>3, <2>5, <2>6, Zenon
<1>9. Steps = StepsTo(lines - 1) /\ Len(Steps) = lines - 1
  <2>1. Steps = StepsTo(lines - 1)
    BY <1>3, Zenon DEF Tallied, Steps
  <2>2. lines - 1 \in Nat
    BY <1>3
  <2>3. Len(StepsTo(lines - 1)) = lines - 1
    BY <2>2 DEF StepsTo
  <2> QED BY <2>1, <2>3
<1>10. \A i \in DOMAIN Steps : Steps[i].line = i
  BY <1>9 DEF StepsTo, StepEv
<1>11. ASSUME EventsFirst PROVE IsPrefix(Told, Execution)
  <2>1. Written[1] = Execution
    BY <1>1, <1>4, <1>11, AllIsKept
  <2>2. IsPrefix(Told, Told \o r)
    BY <1>3, <1>6, FirstPart
  <2> QED BY <1>6, <2>1, <2>2
<1>12. ASSUME Ended
       PROVE  /\ Len(Steps) = count_invocations
              /\ Len(Where(out, IsEvmEvent)) = count_events
              /\ Len(Where(out, IsWrite)) = count_storage_entries
  <2>1. lines > 1 /\ diffed = Len(tx.diffs)
    BY <1>12 DEF TreeInv, AllTold
  <2>2. stack = <<>> /\ lines # 1
    BY <1>12, <2>1, <1>3 DEF Ended, ReplayTyped
  <2>3. Told = Written[1]
    <3>1. Told \o <<>> = Told
      BY <1>3, ConcatEmptySeq
    <3> QED BY <1>6, <2>2, <3>1
  <2>4. count_invocations = CallsIn(Written[1]) /\ count_events = EventsIn(Written[1])
    BY <1>1, CountedAsWritten
  <2>5. WritesTo(diffed) = count_storage_entries
    BY <1>1, <1>3, <2>1, WritesToIsNat
  <2>6. /\ CallsIn(Told) = lines - 1 /\ Len(Where(out, IsEvmEvent)) = EventsIn(Told)
        /\ Len(Where(out, IsWrite)) = WritesTo(diffed)
    BY <1>3, Zenon DEF Tallied
  <2> QED BY <1>9, <2>3, <2>4, <2>5, <2>6, Zenon
<1> QED BY <1>3, <1>7, <1>8, <1>10, <1>11, <1>12

(***************************************************************************)
(* KeepsCallOrder: the bundle of a replayed transaction tells its calls    *)
(* and returns in the order they happened, each invocation's events in     *)
(* theirs and while it is open, one line for each invocation, all of it in *)
(* order if every invocation emits before it calls, and as many            *)
(* invocations, events and storage writes as the count functions give      *)
(* (starknet.rs:1232-1301, 1186-1217), for every trace.                    *)
(***************************************************************************)
THEOREM BundleKeepsCallOrder == Spec => []KeepsCallOrder
<1> DEFINE Inv == RecorderInv /\ TreeInv
<1>1. Init => Inv
  BY InitRecorder, InitTree
<1>2. Inv /\ [Next]_recorderVars => Inv'
  BY NextRecorder, NextTree
<1>3. Inv => KeepsCallOrder
  BY TreeIsTold DEF RecorderInv
<1> QED BY <1>1, <1>2, <1>3, PTL DEF Spec
===============================================================================
