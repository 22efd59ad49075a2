--------------------------- MODULE ContainerWriter ----------------------------
(***************************************************************************)
(* write_container of src/onchain/src/record.rs: the frames the observer   *)
(* noted (FrameSink) are turned into one event stream.  Each frame is      *)
(* walked step by step; a frame opened by a syscall is spliced in before   *)
(* the step whose instruction carried the syscall, or after the last step  *)
(* when that instruction never executed; call and ret instructions become  *)
(* internal calls and returns, and the internal calls a frame that stopped *)
(* mid-function left open are closed.                                      *)
(*                                                                         *)
(* The recursion of emit is an explicit stack of activations; an action    *)
(* writes one event or opens one activation.  Where a step is positioned   *)
(* (listing or Cairo line), names, arguments and the contract events,      *)
(* written between a frame's last step and its return, are left out.       *)
(***************************************************************************)
EXTENDS FrameSink

VARIABLES
  emitting,  \* activations of emit, outermost first
  topsDone,  \* the last frame without a parent that was emitted, or 0
  out,       \* the events handed to the trace writer
  rec,       \* the counts of Recorded
  closed     \* is the container complete?

writerVars == <<emitting, topsDone, out, rec, closed>>
vars == <<vm, history, finished, frames, stack, pending_step,
          emitting, topsDone, out, rec, closed>>

Entered(id) == [kind |-> "call", frame |-> id, index |-> 0]
Shown(id, i) == [kind |-> "step", frame |-> id, index |-> i]
Left(id) == [kind |-> "return", frame |-> id, index |-> 0]
InternalCall(id) == [kind |-> "fn", frame |-> id, index |-> 0]
InternalReturn(id) == [kind |-> "fnret", frame |-> id, index |-> 0]

(***************************************************************************)
(* The frames opened from a frame, split by where they are spliced in; of  *)
(* several, the one noted first comes first.                               *)
(***************************************************************************)
children(parent) == {k \in 1..Len(frames) : frames[k].parent = parent}

First(ids) == CHOOSE k \in ids : \A l \in ids : k <= l

(* Mutant: off by one at the end of the parent's trace. *)
InRangeInclusive(id, k) ==
  /\ frames[k].parent_step # NoStep
  /\ frames[k].parent_step <= Len(frames[id].steps)

InRange(id, k) ==
  /\ frames[k].parent_step # NoStep
  /\ frames[k].parent_step < Len(frames[id].steps)

(* Mutant: spliced in after the step of the syscall. *)
kid_after(id, i) == {k \in children(id) : InRange(id, k) /\ frames[k].parent_step + 1 = i}

kid_at(id, i) == {k \in children(id) : InRange(id, k) /\ frames[k].parent_step = i}

kid_end(id) == {k \in children(id) : ~InRange(id, k)}

(* The frames to splice in when the walk of a frame reaches step i. *)
KidsBefore(id, i) ==
  IF i < Len(frames[id].steps) THEN kid_at(id, i) ELSE kid_end(id)

-----------------------------------------------------------------------------
Activation(id) ==
  [id |-> id, i |-> 0, depth |-> 0, pending_call |-> FALSE, kids |-> KidsBefore(id, 0)]

Current == emitting[Len(emitting)]
WithCurrent(act) == [emitting EXCEPT ![Len(emitting)] = act]
StepsLeft == Current.i < Len(frames[Current.id].steps)
Emitting == emitting # <<>>

MaySpliceEarly == Current.kids # {}  \* mutant: before the pending internal call
MaySplice == (StepsLeft => ~Current.pending_call) /\ Current.kids # {}

ClosesInternalAlways(op) == op = "ret"  \* mutant: the frame's own return, too
ClosesInternal(op) == op = "ret" /\ Current.depth > 0

MayReturnEarly == ~StepsLeft /\ Current.kids = {}  \* mutant: internal calls open
MayReturn == ~StepsLeft /\ Current.kids = {} /\ Current.depth = 0

TopsLeft == {k \in children(NoParent) : k > topsDone}

AllFramesDone == topsDone = Len(frames)  \* mutant: waits for the nested frames
AllTopsDone == TopsLeft = {}

(* The next frame the transaction itself opened. *)
EmitTop ==
  /\ finished
  /\ ~Emitting
  /\ TopsLeft # {}
  /\ emitting' = <<Activation(First(TopsLeft))>>
  /\ out' = Append(out, Entered(First(TopsLeft)))
  /\ topsDone' = First(TopsLeft)
  /\ UNCHANGED <<observerVars, rec, closed>>

(* The step after a call instruction is the first of the callee. *)
OpenInternal ==
  /\ Emitting
  /\ StepsLeft
  /\ Current.pending_call
  /\ emitting' = WithCurrent([Current EXCEPT !.pending_call = FALSE, !.depth = @ + 1])
  /\ out' = Append(out, InternalCall(Current.id))
  /\ rec' = [rec EXCEPT !.internal_calls = @ + 1]
  /\ UNCHANGED <<observerVars, topsDone, closed>>

SpliceKid ==
  /\ Emitting
  /\ MaySplice
  /\ LET id == First(Current.kids)
     IN  /\ emitting' = Append(WithCurrent([Current EXCEPT !.kids = @ \ {id}]),
                               Activation(id))
         /\ out' = Append(out, Entered(id))
  /\ UNCHANGED <<observerVars, topsDone, rec, closed>>

EmitStep ==
  /\ Emitting
  /\ StepsLeft
  /\ ~Current.pending_call
  /\ Current.kids = {}
  /\ LET op == frames[Current.id].steps[Current.i + 1]
         returns == ClosesInternal(op)
         step == Append(out, Shown(Current.id, Current.i))
     IN  /\ emitting' = WithCurrent(
              [Current EXCEPT
                 !.i = @ + 1,
                 !.depth = IF returns THEN @ - 1 ELSE @,
                 !.pending_call = op = "call",
                 !.kids = KidsBefore(Current.id, Current.i + 1)])
         /\ out' = IF returns THEN Append(step, InternalReturn(Current.id)) ELSE step
  /\ rec' = [rec EXCEPT !.steps = @ + 1]
  /\ UNCHANGED <<observerVars, topsDone, closed>>

CloseInternal ==
  /\ Emitting
  /\ ~StepsLeft
  /\ Current.kids = {}
  /\ Current.depth > 0
  /\ emitting' = WithCurrent([Current EXCEPT !.depth = @ - 1])
  /\ out' = Append(out, InternalReturn(Current.id))
  /\ UNCHANGED <<observerVars, topsDone, rec, closed>>

ReturnFrame ==
  /\ Emitting
  /\ MayReturn
  /\ emitting' = Outer(emitting)
  /\ out' = Append(out, Left(Current.id))
  /\ UNCHANGED <<observerVars, topsDone, rec, closed>>

Close ==
  /\ finished
  /\ ~Emitting
  /\ ~closed
  /\ AllTopsDone
  /\ closed' = TRUE
  /\ UNCHANGED <<observerVars, emitting, topsDone, out, rec>>

Init ==
  /\ ObserverInit
  /\ emitting = <<>>
  /\ topsDone = 0
  /\ out = <<>>
  /\ rec = [steps |-> 1, internal_calls |-> 0]
  /\ closed = FALSE

WriterNext ==
  \/ EmitTop
  \/ OpenInternal
  \/ SpliceKid
  \/ EmitStep
  \/ CloseInternal
  \/ ReturnFrame
  \/ Close

Next ==
  \/ ObserverNext /\ UNCHANGED writerVars
  \/ WriterNext

Spec == Init /\ [][Next]_vars

(***************************************************************************)
(* The container is written on one thread, after the transaction.          *)
(***************************************************************************)
FairSpec == Spec /\ WF_vars(WriterNext)

-----------------------------------------------------------------------------
(***************************************************************************)
(* Every variable of the observer and of the writer stays in its domain.   *)
(***************************************************************************)
WriterTypeOK ==
  /\ SinkTypeOK
  /\ emitting \in Seq([id : 1..Len(frames), i : Nat, depth : Nat,
                       pending_call : BOOLEAN, kids : SUBSET (1..Len(frames))])
  /\ topsDone \in 0..Len(frames)
  /\ out \in Seq([kind : {"call", "step", "return", "fn", "fnret"},
                  frame : 1..Len(frames), index : Nat])
  /\ rec \in [steps : Nat, internal_calls : Nat]
  /\ closed \in BOOLEAN

(***************************************************************************)
(* "Every step in the container is one instruction the VM executed, in     *)
(* execution order, across every entry-point frame the transaction ran"    *)
(* (record.rs:4-9): without the internal calls, the container replays the  *)
(* execution, in whatever way its frames fail.                             *)
(***************************************************************************)
OfFrame(e) == e.kind \in {"call", "step", "return"}

EventsOfFrames(s) ==
  LET upTo[n \in 0..Len(s)] ==
        IF n = 0 THEN <<>>
        ELSE IF OfFrame(s[n]) THEN Append(upTo[n - 1], s[n]) ELSE upTo[n - 1]
  IN  upTo[Len(s)]

FrameEvents == EventsOfFrames(out)

Plain(e) == [kind |-> e.kind, frame |-> e.frame, index |-> e.index]

Replay ==
  INSTANCE ExecutionReplay WITH
    Happening <- [kind : {"call", "step", "return"}, frame : 1..MaxFrames,
                  index : 0..MaxSteps],
    log <- [i \in 1..Len(history) |-> Plain(history[i])],
    shown <- FrameEvents

ReplaysExecution == Replay!Spec

(* ... and all of it: nothing that happened is missing. *)
ContainerComplete ==
  closed => /\ Len(FrameEvents) = Len(history)
            /\ rec.steps = 1 + Cardinality({j \in 1..Len(history) : history[j].kind = "step"})

(***************************************************************************)
(* Internal calls follow the VM's: a step, and the call of a nested frame, *)
(* is written at the function depth the VM was at.  The exception is the   *)
(* frame a syscall opened right after a call instruction when that syscall *)
(* then stopped its parent: the call instruction has no step after it, so  *)
(* its internal call is never opened.                                      *)
(***************************************************************************)
OpenInternals(id, n) ==
  LET ofFrame(kind) == {j \in 1..n : out[j].kind = kind /\ out[j].frame = id}
  IN  Cardinality(ofFrame("fn")) - Cardinality(ofFrame("fnret"))

DepthOf(e) ==
  LET i == CHOOSE i \in 1..Len(history) : Plain(history[i]) = e
  IN  history[i].depth

StoppedAfterCall(id) ==
  LET steps == frames[id].steps IN steps # <<>> /\ steps[Len(steps)] = "call"

DepthFollowsVm ==
  finished =>
    \A n \in 1..Len(out) :
      LET e == out[n]
          within == IF e.kind = "call" THEN frames[e.frame].parent ELSE e.frame
          spliced == e.kind = "call" /\ within # NoParent
      IN  /\ e.kind = "step" => OpenInternals(e.frame, n) = DepthOf(e)
          /\ spliced => \/ OpenInternals(within, n) = DepthOf(e)
                        \/ /\ ~InRange(within, e.frame)
                           /\ StoppedAfterCall(within)

(***************************************************************************)
(* "they are closed here so the call stream stays balanced" (record.rs:    *)
(* 263-264): every return of the stream closes the innermost open call,    *)
(* and a complete container has none open.                                 *)
(***************************************************************************)
Unbalanced == [close |-> "nothing", frame |-> 0]

CallsAfter(open, e) ==
  CASE e.kind = "call" -> Append(open, [close |-> "return", frame |-> e.frame])
    [] e.kind = "fn" -> Append(open, [close |-> "fnret", frame |-> e.frame])
    [] e.kind \in {"return", "fnret"} ->
         IF open # <<>> /\ open[Len(open)] = [close |-> e.kind, frame |-> e.frame]
         THEN Outer(open) ELSE Append(open, Unbalanced)
    [] OTHER -> open

OpenCallsAfter(s) ==
  LET after[n \in 0..Len(s)] ==
        IF n = 0 THEN <<>> ELSE CallsAfter(after[n - 1], s[n])
  IN  after[Len(s)]

OpenCalls == OpenCallsAfter(out)

CallsBalanced ==
  /\ \A i \in 1..Len(OpenCalls) : OpenCalls[i] # Unbalanced
  /\ closed => OpenCalls = <<>>

(***************************************************************************)
(* Once the transaction has ended its container is written.                *)
(***************************************************************************)
ContainerWritten == finished ~> closed
==============================================================================
