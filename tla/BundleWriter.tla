----------------------------- MODULE BundleWriter -----------------------------
(***************************************************************************)
(* What the commands of the recorder (src/src) have in common: a sequence  *)
(* of phases, most of which can fail and end the command there, and the    *)
(* life of the trace bundle they write.  The output folder is created, the *)
(* container opened in it, the program's path interned with its table of   *)
(* line lengths, the events written, and the bundle closed in three calls  *)
(* (finish, meta.dat, close).  A failure leaves what the calls before it   *)
(* put on disk.  The writer itself is external and is modelled from these  *)
(* calls.                                                                  *)
(***************************************************************************)
EXTENDS Naturals, Sequences

CONSTANT NoTable  \* a path the writer has not interned

VARIABLES
  disabled, \* is recording disabled by the environment?
  at,       \* the phase of the command
  outcome,  \* "running", "ok", or why it failed
  disk,     \* how far the bundle on disk got
  table,    \* the line lengths the program's path was interned with
  out       \* the events written, in order

bundleVars == <<disabled, at, outcome, disk, table, out>>

Stages == <<"nothing", "folder", "begun", "ended", "described", "closed">>

BundleTypeOK ==
  /\ disabled \in BOOLEAN
  /\ \E i \in DOMAIN Stages : disk = Stages[i]
  /\ table = NoTable \/ table \in Seq(Nat)
  /\ \A i \in DOMAIN out : out[i].ev \in {"step", "value", "call", "return", "special"}

BundleInit ==
  /\ disabled \in BOOLEAN /\ at = "locate" /\ outcome = "running"
  /\ disk = "nothing" /\ table = NoTable /\ out = <<>>

(***************************************************************************)
(* Phases.                                                                 *)
(***************************************************************************)
Goto(phase) == at' = phase /\ UNCHANGED <<disabled, outcome>>
Stay == UNCHANGED <<disabled, at, outcome>>
Finish(how) == at' = "end" /\ outcome' = how /\ UNCHANGED disabled
Aside == UNCHANGED <<disk, table, out>>

(* The `?` of a call: the command ends there with its error.               *)
Fail(why) == Finish(why) /\ Aside

(***************************************************************************)
(* The bundle.                                                             *)
(***************************************************************************)
create_dir_all ==
  /\ disk' = IF disk = "nothing" THEN "folder" ELSE disk
  /\ UNCHANGED <<table, out>>

(* A path is interned once: a table given for a path that is already       *)
(* interned is dropped.                                                    *)
Intern(now, given) == IF now = NoTable THEN given ELSE now

(* begin_writing_trace_events, register_path_with_line_lengths, whose      *)
(* failure is tolerated, and start, which interns the path without a table *)
(* when nobody has.                                                        *)
OpenBundle(given) ==
  /\ disk = "folder" /\ disk' = "begun"
  /\ \E registered \in {given, NoTable} :
       table' = Intern(Intern(table, registered), <<>>)
  /\ UNCHANGED out

Write(events) == out' = out \o events /\ UNCHANGED <<disk, table>>

(* finish_writing_trace_events, write_meta_dat, close.                     *)
CloseBundle ==
  \/ disk = "begun" /\ disk' = "ended"
  \/ disk = "ended" /\ disk' = "described"
  \/ disk = "described" /\ disk' = "closed"

Close ==
  /\ at = "close"
  /\ IF disk = "closed" THEN Finish("ok") /\ Aside
     ELSE \/ CloseBundle /\ Stay /\ UNCHANGED <<table, out>>
          \/ Fail("writer")

(***************************************************************************)
(* The events, each at the line of the step before it.                     *)
(***************************************************************************)
StepEv(line) == [ev |-> "step", line |-> line]
ValueEv(line, name, value) == [ev |-> "value", line |-> line, name |-> name, value |-> value]
CallEv(line, name, args) == [ev |-> "call", line |-> line, name |-> name, args |-> args]
ReturnEv(line, value) == [ev |-> "return", line |-> line, value |-> value]
SpecialEv(line, kind, of) == [ev |-> "special", line |-> line, kind |-> kind, of |-> of]
===============================================================================
