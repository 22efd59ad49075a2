--------------------------- MODULE SourceRecording ---------------------------
(***************************************************************************)
(* What the source recorder promises of the event stream it hands to the   *)
(* trace writer (src/src/tracer.rs, the doc comment of                     *)
(* emit_source_trace): one call event per function, opened inside the      *)
(* frame that invokes it and closed innermost first, every step belonging  *)
(* to the innermost open call, and the program's return value attached at  *)
(* most once, to the very last step of the recording.                      *)
(*                                                                         *)
(* Nothing here says how the source is walked: SourceWalk does, and is     *)
(* shown to implement this specification.                                  *)
(***************************************************************************)
EXTENDS Naturals, Sequences

CONSTANTS
  Function,   \* the functions a recording can mention
  NoFunction  \* owner of the buffered step when the writer buffers none

VARIABLES
  open,       \* the calls that are open, outermost first
  called,     \* the functions a call event was written for
  buffered,   \* the frame whose step the writer still buffers
  surfaced    \* has the program's return value been attached to a step?

vars == <<open, called, buffered, surfaced>>

Innermost == open[Len(open)]

Init ==
  /\ open = <<>>
  /\ called = {}
  /\ buffered = NoFunction
  /\ surfaced = FALSE

(***************************************************************************)
(* A function is entered: for the first time, and before the last step.    *)
(***************************************************************************)
Call(f) ==
  /\ ~surfaced
  /\ f \notin called
  /\ open = <<>> => called = {}
  /\ open' = Append(open, f)
  /\ called' = called \cup {f}
  /\ UNCHANGED <<buffered, surfaced>>

(***************************************************************************)
(* The innermost call executes a line.                                     *)
(***************************************************************************)
Step ==
  /\ ~surfaced
  /\ open # <<>>
  /\ buffered' = Innermost
  /\ UNCHANGED <<open, called, surfaced>>

(***************************************************************************)
(* The innermost call returns, which flushes the buffered step.  The value *)
(* of the program can be attached just before that, if the buffered step   *)
(* is one of the returning frame.                                          *)
(***************************************************************************)
Return ==
  /\ open # <<>>
  /\ open' = SubSeq(open, 1, Len(open) - 1)
  /\ buffered' = NoFunction
  /\ \/ UNCHANGED surfaced
     \/ /\ ~surfaced
        /\ buffered = Innermost
        /\ surfaced' = TRUE
  /\ UNCHANGED called

Next ==
  \/ \E f \in Function : Call(f)
  \/ Step
  \/ Return

Spec == Init /\ [][Next]_vars
==============================================================================
