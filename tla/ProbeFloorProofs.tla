-------------------------- MODULE ProbeFloorProofs --------------------------
(***************************************************************************)
(* What ProbeFloor promises of the floor, for chains of any length and any *)
(* predicate on their blocks.                                              *)
(***************************************************************************)
EXTENDS ProbeFloor, TLAPS

\* The two ends of the bisection: the upper one is always accepted; once block 0 is
\* known to be refused, the lower one is always refused.
Ends ==
    /\ phase \in {"genesis", "bisect", "read"} => accepts[hi]
    /\ phase = "genesis" => lo = 0
    /\ phase = "bisect" => lo < hi /\ ~accepts[lo]
    /\ phase = "read" => hi = 0 \/ ~accepts[hi - 1]
    /\ phase = "done" =>
          /\ report.floor = hi
          /\ accepts[hi]
          /\ hi = 0 \/ ~accepts[hi - 1]

IInv == TypeOK /\ Ends

LEMMA InitEnds == Init => IInv
BY MaxTipAssumption DEF Init, IInv, TypeOK, Ends, Reports, NoReport

\* Each action keeps the types and the two ends.
LEMMA NextEnds == IInv /\ [Next]_vars => IInv'
<1> SUFFICES ASSUME IInv, [Next]_vars PROVE IInv'
  OBVIOUS
<1> USE DEF IInv, TypeOK, Ends
<1>1. CASE AskTip
  BY <1>1 DEF AskTip, chainVars
<1>2. CASE AskGenesis
  <2>1. CASE accepts[0]
    BY <1>2, <2>1 DEF AskGenesis, chainVars
  <2>2. CASE ~accepts[0]
    BY <1>2, <2>2 DEF AskGenesis, chainVars
  <2> QED BY <2>1, <2>2
<1>3. CASE Halve
  <2>1. /\ Middle \in 0..tip
        /\ lo < Middle /\ Middle < hi
    BY <1>3 DEF Halve, Wide, Middle
  <2>2. CASE accepts[Middle]
    BY <1>3, <2>1, <2>2 DEF Halve, chainVars
  <2>3. CASE ~accepts[Middle]
    BY <1>3, <2>1, <2>3 DEF Halve, chainVars
  <2> QED BY <2>2, <2>3
<1>4. CASE EndBisection
  <2>1. lo = hi - 1
    BY <1>4 DEF EndBisection, Wide
  <2> QED BY <1>4, <2>1 DEF EndBisection, chainVars
<1>5. CASE ReadState
  BY <1>5 DEF ReadState, chainVars, Reports
<1>6. CASE RefuseTip \/ Fail
  BY <1>6 DEF RefuseTip, Fail, chainVars
<1>7. CASE UNCHANGED vars
  BY <1>7 DEF vars
<1> QED BY <1>1, <1>2, <1>3, <1>4, <1>5, <1>6, <1>7 DEF Next, Answered

THEOREM EndsHold == Spec => []IInv
BY InitEnds, NextEnds, PTL DEF Spec

\* The ends of the bisection stay within the chain (probe_floor's lo and hi).
THEOREM ProbeTypeCorrect == Spec => []TypeOK
<1>1. IInv => TypeOK
  BY DEF IInv
<1> QED BY <1>1, EndsHold, PTL

\* The floor block is accepted and the block below it is refused, on every chain
\* (probe_floor's two controls).
THEOREM FloorIsAlwaysABoundary == Spec => []FloorIsABoundary
<1>1. IInv => FloorIsABoundary
  BY DEF IInv, TypeOK, Ends, FloorIsABoundary
<1> QED BY <1>1, EndsHold, PTL

\* On a chain whose accepted blocks are those from some block on, the floor is that
\* block.
THEOREM FloorIsAlwaysTheLowest == Spec => []FloorIsTheLowest
<1>1. IInv => FloorIsTheLowest
  <2> SUFFICES ASSUME IInv, phase = "done", Monotone, NEW b \in 0..tip
               PROVE accepts[b] <=> b >= report.floor
    BY DEF FloorIsTheLowest
  <2>1. report.floor = hi /\ hi \in 0..tip /\ accepts[hi] /\ (hi = 0 \/ ~accepts[hi - 1])
    BY DEF IInv, TypeOK, Ends
  <2>2. CASE b >= hi
    BY <2>1, <2>2 DEF Monotone, IInv, TypeOK
  <2>3. CASE b < hi
    <3>1. hi - 1 \in 0..tip /\ b <= hi - 1 /\ ~accepts[hi - 1]
      BY <2>1, <2>3 DEF IInv, TypeOK
    <3> QED BY <2>1, <2>3, <3>1 DEF Monotone, IInv, TypeOK
  <2> QED BY <2>1, <2>2, <2>3 DEF IInv, TypeOK
<1> QED BY <1>1, EndsHold, PTL
=============================================================================
