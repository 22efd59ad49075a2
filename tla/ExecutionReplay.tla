--------------------------- MODULE ExecutionReplay ----------------------------
(***************************************************************************)
(* What a container promises of the execution it records (src/onchain/src/ *)
(* record.rs, the module comment): every step in it is one instruction the *)
(* VM executed, in execution order, across every entry-point frame the     *)
(* transaction ran, and nothing is reconstructed.                          *)
(***************************************************************************)
EXTENDS Naturals, Sequences

CONSTANT Happening  \* what can happen in an execution

VARIABLES
  log,    \* what happened, in order
  shown   \* what the container shows of it

vars == <<log, shown>>

Init ==
  /\ log = <<>>
  /\ shown = <<>>

(* The container is written when the execution is over. *)
Happens(e) ==
  /\ shown = <<>>
  /\ log' = Append(log, e)
  /\ UNCHANGED shown

ShowNext ==
  /\ Len(shown) < Len(log)
  /\ shown' = Append(shown, log[Len(shown) + 1])
  /\ UNCHANGED log

Next == (\E e \in Happening : Happens(e)) \/ ShowNext

Spec == Init /\ [][Next]_vars
==============================================================================
