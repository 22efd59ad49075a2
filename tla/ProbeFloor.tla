----------------------------- MODULE ProbeFloor -----------------------------
(***************************************************************************)
(* `trace-block --probe-floor` (src/onchain/src/main.rs, probe_floor): the *)
(* lowest block the pipeline can replay, found by bisecting the blocks'    *)
(* Starknet versions with the executor's own predicate, and what the node  *)
(* answers about state at and below that block's parent.                   *)
(*                                                                         *)
(* The chain and the node are outside the sources: which blocks have a     *)
(* version the executor accepts, from which block on the node serves state,*)
(* and from which block on the long-lived contract exists are arbitrary.   *)
(* Every question may stay unanswered, which ends the probe.               *)
(***************************************************************************)
EXTENDS Integers

CONSTANT MaxTip       \* the highest tip considered
ASSUME MaxTipAssumption == MaxTip \in Nat

VARIABLES tip,        \* the chain's tip when the probe starts
          accepts,    \* block -> whether the executor has constants for its version
          horizon,    \* the first block the node serves state at
          deployed,   \* the first block that has the long-lived contract
          phase, lo, hi,
          report      \* the reading, once it is made

vars == <<tip, accepts, horizon, deployed, phase, lo, hi, report>>
chainVars == <<tip, accepts, horizon, deployed>>

NoReport == [floor |-> 0, positive |-> FALSE, negative |-> FALSE, binds |-> "none"]

Init ==
    /\ tip \in 0..MaxTip
    /\ accepts \in [0..tip -> BOOLEAN]
    /\ horizon \in 0..(tip + 1)
    /\ deployed \in 0..(tip + 1)
    /\ phase = "tip"
    /\ lo = 0 /\ hi = 0
    /\ report = NoReport

\* Mutant of AskTip: the upper end is exclusive.
AskTipExclusive ==
    /\ phase = "tip"
    /\ accepts[tip]
    /\ lo' = 0 /\ hi' = tip + 1
    /\ phase' = "genesis"
    /\ UNCHANGED <<chainVars, report>>

\* The tip's version is asked for first: without constants for it there is no floor.
AskTip ==
    /\ phase = "tip"
    /\ accepts[tip]
    /\ lo' = 0 /\ hi' = tip
    /\ phase' = "genesis"
    /\ UNCHANGED <<chainVars, report>>

\* Block 0 has no block below it to be refused, and is asked for on its own.
AskGenesis ==
    /\ phase = "genesis"
    /\ IF accepts[0] THEN hi' = 0 /\ phase' = "read" ELSE UNCHANGED hi /\ phase' = "bisect"
    /\ UNCHANGED <<chainVars, lo, report>>

Middle == lo + (hi - lo) \div 2

\* Mutant of Wide: one turn too many.
WideToTheEnd == hi > lo

\* Mutant of Wide: one turn too few.
WideByTwo == hi - lo > 2

\* `hi - lo > 1`.
Wide == hi - lo > 1

\* Mutant of Halve: the accepted half is thrown away.
HalveUp ==
    /\ phase = "bisect" /\ Wide
    /\ IF accepts[Middle] THEN lo' = Middle /\ UNCHANGED hi ELSE hi' = Middle /\ UNCHANGED lo
    /\ UNCHANGED <<chainVars, phase, report>>

\* One turn of the bisection.
Halve ==
    /\ phase = "bisect" /\ Wide
    /\ IF accepts[Middle] THEN hi' = Middle /\ UNCHANGED lo ELSE lo' = Middle /\ UNCHANGED hi
    /\ UNCHANGED <<chainVars, phase, report>>

EndBisection ==
    /\ phase = "bisect" /\ ~Wide
    /\ phase' = "read"
    /\ UNCHANGED <<chainVars, lo, hi, report>>

Parent == IF hi = 0 THEN 0 ELSE hi - 1

\* class_at: the class of the long-lived contract, or the node's error.
ClassAt(contractExists, b) ==
    IF b < horizon THEN "noState" ELSE IF contractExists THEN "class" ELSE "notFound"

\* The reading of the node's state, with its two controls, and the report.
ReadState ==
    /\ phase = "read"
    /\ LET atParent == ClassAt(Parent >= deployed, Parent)
           nothing == ClassAt(FALSE, Parent)
       IN report' = [floor |-> hi, positive |-> atParent = "class",
                     negative |-> atParent # nothing, binds |-> "executor"]
    /\ phase' = "done"
    /\ UNCHANGED <<chainVars, lo, hi>>

\* The tip is refused: no floor exists.
RefuseTip ==
    /\ phase = "tip"
    /\ ~accepts[tip]
    /\ phase' = "failed"
    /\ UNCHANGED <<chainVars, lo, hi, report>>

\* A question stays unanswered, which `?` passes on.
Fail ==
    /\ phase \in {"tip", "genesis", "bisect", "read"}
    /\ phase' = "failed"
    /\ UNCHANGED <<chainVars, lo, hi, report>>

Answered == AskTip \/ RefuseTip \/ AskGenesis \/ Halve \/ EndBisection \/ ReadState
Next == Answered \/ Fail

Spec == Init /\ [][Next]_vars

\* The probe, a single thread, takes its next step unless a question fails; no
\* question has to.
FairSpec == Spec /\ WF_vars(Answered)

-----------------------------------------------------------------------------
Reports == [floor : Nat, positive : BOOLEAN, negative : BOOLEAN, binds : {"none", "executor"}]

TypeOK ==
    /\ tip \in Nat
    /\ accepts \in [0..tip -> BOOLEAN]
    /\ horizon \in Nat /\ deployed \in Nat
    /\ phase \in {"tip", "genesis", "bisect", "read", "done", "failed"}
    /\ lo \in 0..tip /\ hi \in 0..tip
    /\ report \in Reports

\* The two controls on the executor's floor hold whatever the versions of the chain's
\* blocks are: the floor block is accepted and the block below is refused.
FloorIsABoundary ==
    phase = "done" =>
        /\ report.floor \in 0..tip
        /\ accepts[report.floor]
        /\ report.floor > 0 => ~accepts[report.floor - 1]

\* Versions only grow and the executor supports every one from its oldest on.
Monotone == \A b, c \in 0..tip : b <= c /\ accepts[b] => accepts[c]

\* On such a chain the floor is the lowest block that can be replayed.
FloorIsTheLowest ==
    phase = "done" /\ Monotone => \A b \in 0..tip : accepts[b] <=> b >= report.floor

\* The bisection ends, on every chain.
ProbeEnds == <>(phase \in {"done", "failed"})
=============================================================================
