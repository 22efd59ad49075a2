------------------------ MODULE ContainerWriterProofs ------------------------
(***************************************************************************)
(* Proofs about the frames the observer notes (FrameSink) and what is made *)
(* of them (ContainerWriter), for transactions of any size and shape.      *)
(*                                                                         *)
(* The container is the execution because the writer, which only has what  *)
(* the observer noted of each frame, is always at the place the execution  *)
(* was at: PlaceInv relates every activation to the prefix of the history  *)
(* shown so far.  That the next event of the history is the one that place *)
(* calls for (NextTop, NextOfCurrent) follows from the order the history   *)
(* is in (OrderInv, about the observer) and from where nested frames were  *)
(* made (SplicedWhereMade); each action then keeps the place.              *)
(*                                                                         *)
(* Its depths are the VM's because what a frame has executed determines    *)
(* how deep it is (DepthInv) and an activation has as many internal calls  *)
(* open as that says (AtDepth).  The stream is balanced because the calls  *)
(* it leaves open are those of the activations, stacked (Balanced).        *)
(***************************************************************************)
EXTENDS ContainerWriter, SequenceTheorems, FiniteSetTheorems, WellFoundedInduction, TLAPS

-----------------------------------------------------------------------------
(***************************************************************************)
(* FrameSink.  That a frame is spliced in where it was made is not         *)
(* inductive: a step executed later must not belong before it.  What makes *)
(* it so is what the observer knows of the frames that still run: how far  *)
(* their traces were when the last syscall was made, and when a frame was  *)
(* opened from them.                                                       *)
(***************************************************************************)

(* Frames are numbered in order of entry: the innermost is the newest. *)
IdsIncrease ==
  \A i, j \in 1..Len(vm) : i < j => vm[i].id < vm[j].id

(* While a syscall is handled, its step is the one noted for the frame. *)
SyscallNoted ==
  \A i \in 1..Len(vm) :
    vm[i].phase = "syscall" => pending_step[i] = Len(vm[i].trace)

(* The parent of a frame was noted before it. *)
ParentsNoted ==
  \A k \in 1..Len(frames) :
    frames[k].parent # NoParent => frames[k].parent \in 1..Len(frames)

(* A frame that runs is not behind the frames opened from it. *)
ChildrenBehind ==
  \A k \in 1..Len(frames), i \in 1..Len(vm) :
    frames[k].parent = vm[i].id =>
      /\ frames[k].parent_step \in Nat
      /\ frames[k].parent_step <= Len(vm[i].trace)

(* What happened, happened in noted frames; their steps are in the trace. *)
HistoryNoted ==
  \A j \in 1..Len(history) :
    /\ history[j].frame \in 1..Len(frames)
    /\ history[j].kind = "step" =>
         \A i \in 1..Len(vm) :
           vm[i].id = history[j].frame => history[j].index < Len(vm[i].trace)

IInv ==
  /\ SinkTypeOK
  /\ SinkFollowsVm
  /\ IdsIncrease
  /\ SyscallNoted
  /\ ParentsNoted
  /\ ChildrenBehind
  /\ HistoryNoted
  /\ SplicedWhereMade

-----------------------------------------------------------------------------
(***************************************************************************)
(* The sequences the observer works on.                                    *)
(***************************************************************************)
LEMMA OuterFacts ==
  ASSUME NEW S, NEW s \in Seq(S), s # <<>>
  PROVE  /\ Outer(s) \in Seq(S)
         /\ Len(Outer(s)) = Len(s) - 1
         /\ \A i \in 1..Len(s) - 1 : Outer(s)[i] = s[i]
<1>1. PICK n \in Nat \ {0} : n = Len(s)
  OBVIOUS
<1>2. PICK m \in Nat : m = n - 1
  BY <1>1
<1>3. \A i \in 1..m : s[i] \in S
  BY <1>1, <1>2
<1>4. /\ SubSeq(s, 1, m) \in Seq(S)
      /\ Len(SubSeq(s, 1, m)) = IF 1 <= m THEN m - 1 + 1 ELSE 0
      /\ \A i \in 1..m - 1 + 1 : SubSeq(s, 1, m)[i] = s[1 + i - 1]
  BY <1>3, SubSeqProperties
<1>5. Outer(s) = SubSeq(s, 1, m)
  BY <1>1, <1>2 DEF Outer
<1>6. PICK t : t = SubSeq(s, 1, m)
  OBVIOUS
<1>7. Len(t) = m /\ \A i \in 1..m : t[i] = s[i]
  BY <1>2, <1>4, <1>6
<1> QED BY <1>1, <1>2, <1>4, <1>5, <1>6, <1>7

LEMMA AppendFacts ==
  ASSUME NEW S, NEW s \in Seq(S), NEW e \in S
  PROVE  /\ Append(s, e) \in Seq(S)
         /\ Len(Append(s, e)) = Len(s) + 1
         /\ \A i \in 1..Len(s) : Append(s, e)[i] = s[i]
         /\ Append(s, e)[Len(s) + 1] = e
  OBVIOUS

LEMMA WithLastFacts ==
  ASSUME NEW S, NEW s \in Seq(S), s # <<>>, NEW e \in S
  PROVE  LET t == [s EXCEPT ![Len(s)] = e]
         IN  /\ t \in Seq(S)
             /\ Len(t) = Len(s)
             /\ \A i \in 1..Len(s) : t[i] = IF i = Len(s) THEN e ELSE s[i]
<1>1. Len(s) \in Nat /\ Len(s) \in 1..Len(s)
  OBVIOUS
<1> QED BY <1>1

LEMMA RunningFacts ==
  ASSUME SinkTypeOK, vm # <<>>
  PROVE  /\ Len(vm) \in Nat /\ Len(vm) >= 1
         /\ Running = vm[Len(vm)]
         /\ Running \in VmFrame
         /\ Running.id \in Nat /\ Running.depth \in Nat
         /\ Running.trace \in Seq(Op) /\ Len(Running.trace) \in Nat
<1>1. Len(vm) \in Nat /\ Len(vm) >= 1 /\ vm \in Seq(VmFrame)
  BY DEF SinkTypeOK
<1>2. Running = vm[Len(vm)] /\ Running \in VmFrame
  BY <1>1 DEF Running
<1> QED BY <1>1, <1>2 DEF VmFrame, Id

-----------------------------------------------------------------------------
(***************************************************************************)
(* A step that only changes the phase, or the outcome, of the running      *)
(* frame, or only what was noted of a frame's steps and error.             *)
(***************************************************************************)
SameShape ==
  /\ Len(vm') = Len(vm)
  /\ \A i \in 1..Len(vm) : /\ vm'[i].id = vm[i].id
                           /\ vm'[i].trace = vm[i].trace
                           /\ vm'[i].phase = "syscall" =>
                                pending_step'[i] = Len(vm[i].trace)
  /\ Len(frames') = Len(frames)
  /\ \A k \in 1..Len(frames) : /\ frames'[k].parent = frames[k].parent
                               /\ frames'[k].parent_step = frames[k].parent_step
  /\ stack' = stack
  /\ Len(pending_step') = Len(pending_step)
  /\ history' = history

LEMMA SameShapeKeepsInv ==
  ASSUME IInv, SinkTypeOK', SameShape
  PROVE  IInv'
<1> USE DEF SameShape
<1>0. Len(vm) \in Nat /\ Len(frames) \in Nat /\ Len(history) \in Nat
  BY DEF IInv, SinkTypeOK
<1>1. SinkFollowsVm'
  <2>1. Len(stack') = Len(vm') /\ Len(pending_step') = Len(vm')
    BY DEF IInv, SinkFollowsVm
  <2>2. ASSUME NEW i \in 1..Len(vm')
        PROVE  /\ stack'[i] = vm'[i].id
               /\ vm'[i].id \in 1..Len(frames')
               /\ frames'[vm'[i].id].parent = IF i = 1 THEN NoParent ELSE vm'[i - 1].id
    <3>1. /\ stack[i] = vm[i].id
          /\ vm[i].id \in 1..Len(frames)
          /\ frames[vm[i].id].parent = IF i = 1 THEN NoParent ELSE vm[i - 1].id
      BY DEF IInv, SinkFollowsVm
    <3>2. vm'[i].id = vm[i].id /\ frames'[vm[i].id].parent = frames[vm[i].id].parent
      BY <3>1
    <3>3. i # 1 => vm'[i - 1].id = vm[i - 1].id
      BY <1>0
    <3> QED BY <3>1, <3>2, <3>3
  <2> QED BY <2>1, <2>2 DEF SinkFollowsVm
<1>2. IdsIncrease'
  BY DEF IInv, IdsIncrease
<1>3. SyscallNoted'
  BY DEF IInv, SyscallNoted
<1>4. ParentsNoted'
  BY DEF IInv, ParentsNoted
<1>5. ChildrenBehind'
  BY DEF IInv, ChildrenBehind
<1>6. HistoryNoted'
  BY DEF IInv, HistoryNoted
<1>7. SplicedWhereMade'
  <2> SUFFICES ASSUME NEW i \in 1..Len(history), NEW j \in 1..Len(history),
                      history[i].kind = "call", history[j].kind = "step",
                      history[j].frame = frames'[history[i].frame].parent
               PROVE  j < i <=> history[j].index < frames'[history[i].frame].parent_step
    BY DEF SplicedWhereMade
  <2>1. history[i].frame \in 1..Len(frames)
    BY DEF IInv, HistoryNoted
  <2> QED BY <2>1 DEF IInv, SplicedWhereMade
<1> QED BY <1>1, <1>2, <1>3, <1>4, <1>5, <1>6, <1>7 DEF IInv

LEMMA PrepareFailsKeepsInv ==
  ASSUME IInv, PrepareFails
  PROVE  IInv'
<1>1. SinkTypeOK /\ vm # <<>> /\ Running.phase = "entered"
  BY DEF IInv, PrepareFails, InPhase
<1>2. PICK fr \in VmFrame : /\ fr = [Running EXCEPT !.phase = "leaving", !.error = TRUE]
                            /\ fr.id = Running.id /\ fr.trace = Running.trace
                            /\ fr.phase = "leaving"
  <2>1. PICK r \in VmFrame : r = Running
    BY <1>1, RunningFacts
  <2>2. PICK e : e = [r EXCEPT !.phase = "leaving", !.error = TRUE]
    OBVIOUS
  <2>3. e \in VmFrame /\ e.id = r.id /\ e.trace = r.trace /\ e.phase = "leaving"
    BY <2>2 DEF VmFrame
  <2> QED BY <2>1, <2>2, <2>3
<1>3. vm' = [vm EXCEPT ![Len(vm)] = fr]
  BY <1>2 DEF PrepareFails, WithRunning
<1>4. UNCHANGED <<history, finished, frames, stack, pending_step>>
  BY DEF PrepareFails
<1>5. /\ vm' \in Seq(VmFrame) /\ Len(vm') = Len(vm)
      /\ \A i \in 1..Len(vm) : vm'[i] = IF i = Len(vm) THEN fr ELSE vm[i]
  BY <1>1, <1>3, WithLastFacts DEF SinkTypeOK
<1>6. SinkTypeOK'
  BY <1>1, <1>4, <1>5 DEF SinkTypeOK
<1>7. SameShape
  BY <1>1, <1>2, <1>4, <1>5, RunningFacts DEF SameShape, IInv, SyscallNoted
<1> QED BY <1>6, <1>7, SameShapeKeepsInv

LEMMA RunFailsKeepsInv ==
  ASSUME IInv, RunFails
  PROVE  IInv'
<1>1. SinkTypeOK /\ vm # <<>>
  BY DEF IInv, RunFails, InPhase
<1>2. PICK fr \in VmFrame : /\ fr = [Running EXCEPT !.phase = "halted", !.error = TRUE]
                            /\ fr.id = Running.id /\ fr.trace = Running.trace
                            /\ fr.phase = "halted"
  <2>1. PICK r \in VmFrame : r = Running
    BY <1>1, RunningFacts
  <2>2. PICK e : e = [r EXCEPT !.phase = "halted", !.error = TRUE]
    OBVIOUS
  <2>3. e \in VmFrame /\ e.id = r.id /\ e.trace = r.trace /\ e.phase = "halted"
    BY <2>2 DEF VmFrame
  <2> QED BY <2>1, <2>2, <2>3
<1>3. vm' = [vm EXCEPT ![Len(vm)] = fr]
  BY <1>2 DEF RunFails, WithRunning
<1>4. UNCHANGED <<history, finished, frames, stack, pending_step>>
  BY DEF RunFails
<1>5. /\ vm' \in Seq(VmFrame) /\ Len(vm') = Len(vm)
      /\ \A i \in 1..Len(vm) : vm'[i] = IF i = Len(vm) THEN fr ELSE vm[i]
  BY <1>1, <1>3, WithLastFacts DEF SinkTypeOK
<1>6. SinkTypeOK'
  BY <1>1, <1>4, <1>5 DEF SinkTypeOK
<1>7. SameShape
  BY <1>1, <1>2, <1>4, <1>5, RunningFacts DEF SameShape, IInv, SyscallNoted
<1> QED BY <1>6, <1>7, SameShapeKeepsInv

LEMMA SyscallHintKeepsInv ==
  ASSUME IInv, SyscallHint
  PROVE  IInv'
<1>1. SinkTypeOK /\ vm # <<>> /\ Len(pending_step) = Len(vm)
  BY DEF IInv, SyscallHint, InPhase, SinkFollowsVm
<1>2. PICK fr \in VmFrame : /\ fr = [Running EXCEPT !.phase = "syscall", !.opened = FALSE]
                            /\ fr.id = Running.id /\ fr.trace = Running.trace
  <2>1. PICK r \in VmFrame : r = Running
    BY <1>1, RunningFacts
  <2>2. PICK e : e = [r EXCEPT !.phase = "syscall", !.opened = FALSE]
    OBVIOUS
  <2>3. e \in VmFrame /\ e.id = r.id /\ e.trace = r.trace
    BY <2>2 DEF VmFrame
  <2> QED BY <2>1, <2>2, <2>3
<1>3. PICK step \in Nat : step = Len(Running.trace)
  BY <1>1, RunningFacts
<1>4. vm' = [vm EXCEPT ![Len(vm)] = fr]
  BY <1>2 DEF SyscallHint, WithRunning
<1>5. /\ pending_step' = [pending_step EXCEPT ![Len(pending_step)] = step]
      /\ pending_step # <<>>
      /\ UNCHANGED <<history, finished, frames, stack>>
  <2>1. pending_step # <<>>
    BY <1>1, RunningFacts DEF SinkTypeOK
  <2> QED BY <1>3, <2>1 DEF SyscallHint, syscall_at
<1>6. /\ vm' \in Seq(VmFrame) /\ Len(vm') = Len(vm)
      /\ \A i \in 1..Len(vm) : vm'[i] = IF i = Len(vm) THEN fr ELSE vm[i]
  BY <1>1, <1>4, WithLastFacts DEF SinkTypeOK
<1>7. /\ pending_step' \in Seq(Nat \cup {NoStep}) /\ Len(pending_step') = Len(pending_step)
      /\ \A i \in 1..Len(pending_step) :
           pending_step'[i] = IF i = Len(pending_step) THEN step ELSE pending_step[i]
  BY <1>1, <1>5, WithLastFacts DEF SinkTypeOK
<1>8. SinkTypeOK'
  BY <1>1, <1>5, <1>6, <1>7 DEF SinkTypeOK
<1>9. SameShape
  BY <1>1, <1>2, <1>3, <1>5, <1>6, <1>7, RunningFacts DEF SameShape, IInv, SyscallNoted
<1> QED BY <1>8, <1>9, SameShapeKeepsInv

LEMMA RunEndsKeepsInv ==
  ASSUME IInv, RunEnds
  PROVE  IInv'
<1>1. SinkTypeOK /\ vm # <<>> /\ Len(stack) = Len(vm)
  BY DEF IInv, RunEnds, InPhase, SinkFollowsVm
<1>2. PICK fr \in VmFrame : /\ fr = [Running EXCEPT !.phase = "leaving"]
                            /\ fr.id = Running.id /\ fr.trace = Running.trace
                            /\ fr.phase = "leaving"
  <2>1. PICK r \in VmFrame : r = Running
    BY <1>1, RunningFacts
  <2>2. PICK e : e = [r EXCEPT !.phase = "leaving"]
    OBVIOUS
  <2>3. e \in VmFrame /\ e.id = r.id /\ e.trace = r.trace /\ e.phase = "leaving"
    BY <2>2 DEF VmFrame
  <2> QED BY <2>1, <2>2, <2>3
<1>3. PICK id \in 1..Len(frames) : id = stack[Len(stack)]
  BY <1>1, RunningFacts DEF IInv, SinkFollowsVm
<1>4. vm' = [vm EXCEPT ![Len(vm)] = fr]
  BY <1>2 DEF RunEnds, WithRunning
<1>5. /\ frames' = [frames EXCEPT ![id].steps = Running.trace]
      /\ UNCHANGED <<history, finished, stack, pending_step>>
  <2>1. stack # <<>>
    BY <1>1, RunningFacts DEF SinkTypeOK
  <2> QED BY <1>3, <2>1 DEF RunEnds, record_steps
<1>6. /\ vm' \in Seq(VmFrame) /\ Len(vm') = Len(vm)
      /\ \A i \in 1..Len(vm) : vm'[i] = IF i = Len(vm) THEN fr ELSE vm[i]
  BY <1>1, <1>4, WithLastFacts DEF SinkTypeOK
<1>7. /\ frames' \in Seq(NotedFrame) /\ Len(frames') = Len(frames)
      /\ \A k \in 1..Len(frames) : /\ frames'[k].parent = frames[k].parent
                                   /\ frames'[k].parent_step = frames[k].parent_step
  <2>1. PICK t \in Seq(Op) : t = Running.trace
    BY <1>1, RunningFacts
  <2>2. frames \in Seq(NotedFrame) /\ frames[id] \in NotedFrame
    BY <1>1 DEF SinkTypeOK
  <2>3. PICK noted : noted = [frames[id] EXCEPT !.steps = t]
    OBVIOUS
  <2>4. /\ noted \in NotedFrame /\ noted.parent = frames[id].parent
        /\ noted.parent_step = frames[id].parent_step
    BY <2>2, <2>3 DEF NotedFrame
  <2>5. frames' = [frames EXCEPT ![id] = noted]
    BY <1>5, <2>1, <2>3
  <2> QED BY <2>2, <2>4, <2>5
<1>8. SinkTypeOK'
  BY <1>1, <1>5, <1>6, <1>7 DEF SinkTypeOK
<1>9. SameShape
  BY <1>1, <1>2, <1>5, <1>6, <1>7, RunningFacts DEF SameShape, IInv, SyscallNoted
<1> QED BY <1>8, <1>9, SameShapeKeepsInv

-----------------------------------------------------------------------------
(***************************************************************************)
(* A frame is entered, over the frames that run already.                   *)
(***************************************************************************)
LEMMA EnterKeepsInv ==
  ASSUME IInv, enter, finished' = finished,
         NEW base \in Seq(VmFrame), Len(base) = Len(vm),
         \A i \in 1..Len(vm) : /\ base[i].id = vm[i].id
                               /\ base[i].trace = vm[i].trace
                               /\ base[i].phase = vm[i].phase,
         vm # <<>> => Running.phase = "syscall",
         vm' = Append(base, NewVmFrame),
         NEW depth \in Nat,
         history' = Append(history, Called(Len(frames) + 1, depth))
  PROVE  IInv'
<1>1. SinkTypeOK /\ SinkFollowsVm
  BY DEF IInv
<1>2. PICK n \in Nat : n = Len(vm)
  BY <1>1 DEF SinkTypeOK
<1>3. PICK m \in Nat : m = Len(frames)
  BY <1>1 DEF SinkTypeOK
<1>4. PICK new \in VmFrame : /\ new = NewVmFrame
                             /\ new.id = m + 1 /\ new.trace = <<>> /\ new.phase = "entered"
  <2>1. PICK x : x = NewVmFrame
    OBVIOUS
  <2>2. x = [id |-> m + 1, trace |-> <<>>, depth |-> 0,
             phase |-> "entered", opened |-> FALSE, error |-> FALSE]
    BY <1>3, <2>1 DEF NewVmFrame
  <2>3. x \in VmFrame /\ x.id = m + 1 /\ x.trace = <<>> /\ x.phase = "entered"
    BY <2>2 DEF VmFrame, Id
  <2> QED BY <2>1, <2>3
<1>5. PICK parent \in Id \cup {NoParent} :
        /\ parent = LastOf(stack, NoParent)
        /\ parent = IF n = 0 THEN NoParent ELSE vm[n].id
  BY <1>1, <1>2 DEF LastOf, SinkTypeOK, SinkFollowsVm
<1>6. PICK step \in Nat \cup {NoStep} :
        /\ step = LastOf(pending_step, NoStep)
        /\ n # 0 => step = pending_step[n]
  <2>1. pending_step \in Seq(Nat \cup {NoStep}) /\ Len(pending_step) = n
    BY <1>1, <1>2 DEF SinkTypeOK, SinkFollowsVm
  <2>2. CASE n = 0
    <3>1. LastOf(pending_step, NoStep) = NoStep
      BY <2>1, <2>2 DEF LastOf
    <3> QED BY <2>2, <3>1
  <2>3. CASE n # 0
    <3>1. LastOf(pending_step, NoStep) = pending_step[n]
      BY <2>1, <2>3 DEF LastOf
    <3>2. pending_step[n] \in Nat \cup {NoStep}
      BY <2>1, <2>3
    <3> QED BY <3>1, <3>2
  <2> QED BY <2>2, <2>3
<1>7. n # 0 => step \in Nat /\ step = Len(vm[n].trace)
  <2>1. ASSUME n # 0 PROVE step \in Nat /\ step = Len(vm[n].trace)
    <3>1. vm # <<>> /\ Running = vm[n]
      BY <1>1, <1>2, <2>1 DEF SinkTypeOK, Running
    <3>2. vm[n].phase = "syscall" /\ n \in 1..Len(vm)
      BY <1>2, <2>1, <3>1
    <3>3. pending_step[n] = Len(vm[n].trace)
      BY <3>2 DEF IInv, SyscallNoted
    <3> QED BY <1>1, <1>6, <2>1, <3>1, <3>3, RunningFacts
  <2> QED BY <2>1
<1>8. PICK noted \in NotedFrame :
        /\ noted = [parent |-> parent, parent_step |-> step, steps |-> <<>>, error |-> FALSE]
        /\ noted.parent = parent /\ noted.parent_step = step
  <2>1. PICK x : x = [parent |-> parent, parent_step |-> step, steps |-> <<>>, error |-> FALSE]
    OBVIOUS
  <2>2. <<>> \in Seq(Op)
    OBVIOUS
  <2>3. x \in NotedFrame /\ x.parent = parent /\ x.parent_step = step
    BY <2>1, <2>2 DEF NotedFrame
  <2> QED BY <2>1, <2>3
<1>9. /\ vm' \in Seq(VmFrame) /\ Len(vm') = n + 1
      /\ vm'[n + 1] = new
      /\ \A i \in 1..n : vm'[i].id = vm[i].id /\ vm'[i].trace = vm[i].trace
                        /\ vm'[i].phase = vm[i].phase
  BY <1>2, <1>4, AppendFacts
<1>10. /\ frames' \in Seq(NotedFrame) /\ Len(frames') = m + 1
       /\ frames'[m + 1] = noted
       /\ \A k \in 1..m : frames'[k] = frames[k]
  <2>1. frames' = Append(frames, noted)
    BY <1>5, <1>6, <1>8 DEF enter
  <2> QED BY <1>1, <1>3, <2>1, AppendFacts DEF SinkTypeOK
<1>11. /\ stack' \in Seq(Id) /\ Len(stack') = n + 1 /\ stack'[n + 1] = m + 1
       /\ \A i \in 1..n : stack'[i] = stack[i]
  <2>1. stack' = Append(stack, m + 1) /\ m + 1 \in Id
    BY <1>3 DEF enter, Id
  <2> QED BY <1>1, <1>2, <2>1, AppendFacts DEF SinkTypeOK, SinkFollowsVm
<1>12. /\ pending_step' \in Seq(Nat \cup {NoStep}) /\ Len(pending_step') = n + 1
       /\ \A i \in 1..n : pending_step'[i] = pending_step[i]
  <2>1. pending_step' = Append(pending_step, NoStep)
    BY DEF enter
  <2> QED BY <1>1, <1>2, <2>1, AppendFacts DEF SinkTypeOK, SinkFollowsVm
<1>13. PICK called \in VmEvent : /\ called = Called(m + 1, depth)
                                 /\ called.kind = "call" /\ called.frame = m + 1
  <2>1. PICK x : x = Called(m + 1, depth)
    OBVIOUS
  <2>2. x \in VmEvent /\ x.kind = "call" /\ x.frame = m + 1
    BY <2>1 DEF Called, VmEvent, Id
  <2> QED BY <2>1, <2>2
<1>14. /\ history' \in Seq(VmEvent) /\ Len(history') = Len(history) + 1
       /\ history'[Len(history) + 1] = called
       /\ \A j \in 1..Len(history) : history'[j] = history[j]
  BY <1>1, <1>3, <1>13, AppendFacts DEF SinkTypeOK
<1>15. SinkTypeOK'
  BY <1>1, <1>9, <1>10, <1>11, <1>12, <1>14 DEF SinkTypeOK
<1>16. SinkFollowsVm'
  <2>1. Len(stack') = Len(vm') /\ Len(pending_step') = Len(vm')
    BY <1>9, <1>11, <1>12
  <2>2. ASSUME NEW i \in 1..n + 1
        PROVE  /\ stack'[i] = vm'[i].id
               /\ vm'[i].id \in 1..m + 1
               /\ frames'[vm'[i].id].parent = IF i = 1 THEN NoParent ELSE vm'[i - 1].id
    <3>1. CASE i = n + 1
      <4>1. stack'[i] = m + 1 /\ vm'[i].id = m + 1
        BY <1>4, <1>9, <1>11, <3>1
      <4>2. frames'[m + 1].parent = parent
        BY <1>8, <1>10
      <4>3. parent = IF i = 1 THEN NoParent ELSE vm'[i - 1].id
        BY <1>5, <1>9, <3>1
      <4> QED BY <1>3, <4>1, <4>2, <4>3
    <3>2. CASE i # n + 1
      <4>1. i \in 1..n
        BY <3>2
      <4>2. /\ stack[i] = vm[i].id /\ vm[i].id \in 1..m
            /\ frames[vm[i].id].parent = IF i = 1 THEN NoParent ELSE vm[i - 1].id
        BY <1>1, <1>2, <1>3, <4>1 DEF SinkFollowsVm
      <4>3. i # 1 => vm'[i - 1].id = vm[i - 1].id
        BY <1>9, <4>1
      <4> QED BY <1>3, <1>9, <1>10, <1>11, <4>1, <4>2, <4>3
    <3> QED BY <3>1, <3>2
  <2> QED BY <1>9, <1>10, <2>1, <2>2 DEF SinkFollowsVm
<1>17. IdsIncrease'
  <2> SUFFICES ASSUME NEW i \in 1..n + 1, NEW j \in 1..n + 1, i < j
               PROVE  vm'[i].id < vm'[j].id
    BY <1>9 DEF IdsIncrease
  <2>1. i \in 1..n /\ vm[i].id \in 1..m
    BY <1>1, <1>2, <1>3 DEF SinkFollowsVm
  <2>2. CASE j = n + 1
    BY <1>3, <1>4, <1>9, <2>1, <2>2
  <2>3. CASE j # n + 1
    <3>1. j \in 1..n
      BY <2>3
    <3>2. vm[i].id < vm[j].id
      BY <1>2, <2>1, <3>1 DEF IInv, IdsIncrease
    <3> QED BY <1>9, <2>1, <3>1, <3>2
  <2> QED BY <2>2, <2>3
<1>18. SyscallNoted'
  <2> SUFFICES ASSUME NEW i \in 1..n + 1, vm'[i].phase = "syscall"
               PROVE  pending_step'[i] = Len(vm'[i].trace)
    BY <1>9 DEF SyscallNoted
  <2>1. i \in 1..n
    BY <1>4, <1>9
  <2> QED BY <1>2, <1>9, <1>12, <2>1 DEF IInv, SyscallNoted
<1>19. ParentsNoted'
  <2> SUFFICES ASSUME NEW k \in 1..m + 1, frames'[k].parent # NoParent
               PROVE  frames'[k].parent \in 1..m + 1
    BY <1>10 DEF ParentsNoted
  <2>1. CASE k = m + 1
    <3>1. n # 0 /\ frames'[k].parent = vm[n].id
      BY <1>5, <1>8, <1>10, <2>1
    <3>2. vm[n].id \in 1..m
      BY <1>1, <1>2, <1>3, <3>1 DEF SinkFollowsVm
    <3> QED BY <1>3, <3>1, <3>2
  <2>2. CASE k # m + 1
    <3>1. k \in 1..m /\ frames'[k] = frames[k]
      BY <1>10, <2>2
    <3>2. frames[k].parent \in 1..m
      BY <1>3, <3>1 DEF IInv, ParentsNoted
    <3> QED BY <1>3, <3>1, <3>2
  <2> QED BY <2>1, <2>2
<1>20. ChildrenBehind'
  <2> SUFFICES ASSUME NEW k \in 1..m + 1, NEW i \in 1..n + 1,
                      frames'[k].parent = vm'[i].id
               PROVE  /\ frames'[k].parent_step \in Nat
                      /\ frames'[k].parent_step <= Len(vm'[i].trace)
    BY <1>9, <1>10 DEF ChildrenBehind
  <2>1. PICK a \in Nat : a = vm'[i].id /\ a # NoParent
    <3>1. vm'[i].id \in 1..m + 1
      BY <1>9, <1>10, <1>16 DEF SinkFollowsVm
    <3>2. PICK x : x = vm'[i].id
      OBVIOUS
    <3>3. x \in Nat
      <4>1. x \in 1..m + 1
        BY <3>1, <3>2, Zenon
      <4> QED BY <4>1
    <3>4. x # NoParent
      BY <3>3, NoParentAssumption
    <3> QED BY <3>2, <3>3, <3>4
  <2>2. CASE k = m + 1
    <3>1. n # 0 /\ vm'[i].id = vm[n].id
      <4>1. a = parent
        BY <1>8, <1>10, <2>1, <2>2
      <4> QED BY <1>5, <2>1, <4>1
    <3>2. vm[n].id \in 1..m /\ n \in 1..n
      BY <1>1, <1>2, <1>3, <3>1 DEF SinkFollowsVm
    <3>3. i \in 1..n
      BY <1>3, <1>4, <1>9, <3>1, <3>2
    <3>4. vm[i].id = vm[n].id
      BY <1>9, <3>1, <3>3
    <3>5. i = n
      <4>1. vm[i].id \in Nat /\ vm[n].id \in Nat
        BY <1>3, <3>2, <3>4
      <4>2. ~(i < n)
        BY <1>2, <3>2, <3>3, <3>4, <4>1 DEF IInv, IdsIncrease
      <4> QED BY <3>3, <4>2
    <3>6. frames'[k].parent_step = step
      BY <1>8, <1>10, <2>2
    <3>7. Len(vm'[i].trace) = step /\ step \in Nat
      BY <1>7, <1>9, <3>1, <3>3, <3>5
    <3> QED BY <3>6, <3>7
  <2>3. CASE k # m + 1
    <3>1. k \in 1..m /\ frames'[k] = frames[k]
      BY <1>10, <2>3
    <3>2. frames[k].parent \in 1..m
      <4>1. frames[k].parent \in Nat
        BY <2>1, <3>1
      <4>2. frames[k].parent # NoParent
        BY <2>1, <3>1
      <4>3. ParentsNoted
        BY DEF IInv
      <4> QED BY <1>3, <3>1, <4>2, <4>3 DEF ParentsNoted
    <3>3. i \in 1..n
      BY <1>3, <1>4, <1>9, <3>1, <3>2
    <3> QED BY <1>2, <1>3, <1>9, <3>1, <3>3 DEF IInv, ChildrenBehind
  <2> QED BY <2>2, <2>3
<1>21. HistoryNoted'
  <2> SUFFICES ASSUME NEW j \in 1..Len(history) + 1
               PROVE  /\ history'[j].frame \in 1..m + 1
                      /\ history'[j].kind = "step" =>
                           \A i \in 1..n + 1 :
                             vm'[i].id = history'[j].frame =>
                               history'[j].index < Len(vm'[i].trace)
    BY <1>9, <1>10, <1>14 DEF HistoryNoted
  <2>1. CASE j = Len(history) + 1
    BY <1>3, <1>13, <1>14, <2>1
  <2>2. CASE j # Len(history) + 1
    <3>1. j \in 1..Len(history) /\ history'[j] = history[j]
      BY <1>14, <2>2
    <3>2. history[j].frame \in 1..m
      BY <1>3, <3>1 DEF IInv, HistoryNoted
    <3>3. ASSUME history[j].kind = "step", NEW i \in 1..n + 1,
                 vm'[i].id = history[j].frame
          PROVE  history[j].index < Len(vm'[i].trace)
      <4>1. i \in 1..n
        BY <1>3, <1>4, <1>9, <3>2, <3>3
      <4> QED BY <1>2, <1>9, <3>1, <3>3, <4>1 DEF IInv, HistoryNoted
    <3>4. history'[j].frame \in 1..m + 1
      BY <1>3, <3>1, <3>2
    <3>5. ASSUME history'[j].kind = "step", NEW i \in 1..n + 1,
                 vm'[i].id = history'[j].frame
          PROVE  history'[j].index < Len(vm'[i].trace)
      <4>1. history[j].kind = "step" /\ vm'[i].id = history[j].frame
        BY <3>1, <3>5
      <4>2. history[j].index < Len(vm'[i].trace)
        BY <3>3, <4>1
      <4> QED BY <3>1, <4>2
    <3> QED BY <3>4, <3>5
  <2> QED BY <2>1, <2>2
<1>22. SplicedWhereMade'
  <2> SUFFICES ASSUME NEW i \in 1..Len(history) + 1, NEW j \in 1..Len(history) + 1,
                      history'[i].kind = "call", history'[j].kind = "step",
                      history'[j].frame = frames'[history'[i].frame].parent
               PROVE  j < i <=> history'[j].index < frames'[history'[i].frame].parent_step
    BY <1>14 DEF SplicedWhereMade
  <2>1. j \in 1..Len(history) /\ history'[j] = history[j]
    BY <1>13, <1>14
  <2>2. history[j].frame \in 1..m
    BY <1>3, <2>1 DEF IInv, HistoryNoted
  <2>3. CASE i = Len(history) + 1
    <3>1. frames'[history'[i].frame] = noted
      BY <1>10, <1>13, <1>14, <2>3
    <3>2. n # 0 /\ history[j].frame = vm[n].id
      BY <1>3, <1>5, <1>8, <2>1, <2>2, <3>1, NoParentAssumption
    <3>3. history[j].index < Len(vm[n].trace)
      <4>1. history[j].kind = "step" /\ n \in 1..Len(vm)
        BY <1>2, <2>1, <3>2
      <4>2. HistoryNoted
        BY DEF IInv
      <4> QED BY <2>1, <3>2, <4>1, <4>2 DEF HistoryNoted
    <3>4. history[j].index < step
      BY <1>7, <3>2, <3>3
    <3> QED BY <1>8, <2>1, <2>3, <3>1, <3>4
  <2>4. CASE i # Len(history) + 1
    <3>1. i \in 1..Len(history) /\ history'[i] = history[i]
      BY <1>14, <2>4
    <3>2. history[i].frame \in 1..m
      BY <1>3, <3>1 DEF IInv, HistoryNoted
    <3>3. frames'[history'[i].frame] = frames[history[i].frame]
      BY <1>10, <3>1, <3>2
    <3> QED BY <2>1, <3>1, <3>3 DEF IInv, SplicedWhereMade
  <2> QED BY <2>3, <2>4
<1> QED BY <1>15, <1>16, <1>17, <1>18, <1>19, <1>20, <1>21, <1>22 DEF IInv

LEMMA EnterTopKeepsInv ==
  ASSUME IInv, EnterTop
  PROVE  IInv'
<1>1. SinkTypeOK /\ vm = <<>> /\ enter /\ finished' = finished
  BY DEF IInv, EnterTop
<1>2. vm \in Seq(VmFrame) /\ vm' = Append(vm, NewVmFrame)
  BY <1>1 DEF EnterTop, SinkTypeOK
<1>3. history' = Append(history, Called(Len(frames) + 1, 0))
  BY DEF EnterTop
<1> QED BY <1>1, <1>2, <1>3, EnterKeepsInv

LEMMA EnterNestedKeepsInv ==
  ASSUME IInv, EnterNested
  PROVE  IInv'
<1>1. SinkTypeOK /\ vm # <<>> /\ Running.phase = "syscall" /\ enter /\ finished' = finished
  BY DEF IInv, EnterNested, InPhase
<1>2. PICK fr \in VmFrame : /\ fr = [Running EXCEPT !.opened = TRUE]
                            /\ fr.id = Running.id /\ fr.trace = Running.trace
                            /\ fr.phase = Running.phase
  <2>1. PICK r \in VmFrame : r = Running
    BY <1>1, RunningFacts
  <2>2. PICK e : e = [r EXCEPT !.opened = TRUE]
    OBVIOUS
  <2>3. e \in VmFrame /\ e.id = r.id /\ e.trace = r.trace /\ e.phase = r.phase
    BY <2>2 DEF VmFrame
  <2> QED BY <2>1, <2>2, <2>3
<1>3. PICK base : base = [vm EXCEPT ![Len(vm)] = fr]
  OBVIOUS
<1>4. /\ base \in Seq(VmFrame) /\ Len(base) = Len(vm)
      /\ \A i \in 1..Len(vm) : base[i] = IF i = Len(vm) THEN fr ELSE vm[i]
  BY <1>1, <1>3, WithLastFacts DEF SinkTypeOK
<1>5. \A i \in 1..Len(vm) : /\ base[i].id = vm[i].id
                            /\ base[i].trace = vm[i].trace
                            /\ base[i].phase = vm[i].phase
  BY <1>1, <1>2, <1>4, RunningFacts
<1>6. vm' = Append(base, NewVmFrame)
  BY <1>2, <1>3 DEF EnterNested, WithRunning
<1>7. PICK depth \in Nat : depth = Running.depth
  BY <1>1, RunningFacts
<1>8. history' = Append(history, Called(Len(frames) + 1, depth))
  BY <1>7 DEF EnterNested
<1> QED BY <1>1, <1>4, <1>5, <1>6, <1>8, EnterKeepsInv

-----------------------------------------------------------------------------
(***************************************************************************)
(* The running frame executes an instruction.  No frame it opened earlier  *)
(* belongs after it, and no other frame is concerned.                      *)
(***************************************************************************)
LEMMA ExecuteKeepsInv ==
  ASSUME IInv, NEW op \in Op, Execute(op)
  PROVE  IInv'
<1>1. SinkTypeOK /\ SinkFollowsVm /\ vm # <<>>
  BY DEF IInv, Execute, InPhase
<1>2. UNCHANGED <<finished, frames, stack, pending_step>>
  BY DEF Execute
<1>3. PICK n \in Nat \ {0} : n = Len(vm)
  BY <1>1, RunningFacts
<1>4. PICK t \in Nat : t = Len(Running.trace)
  BY <1>1, RunningFacts
<1>5. PICK id \in 1..Len(frames) : id = Running.id /\ id = vm[n].id
  BY <1>1, <1>3, RunningFacts DEF SinkFollowsVm
<1>6. PICK fr \in VmFrame : /\ vm' = [vm EXCEPT ![Len(vm)] = fr]
                            /\ fr.id = id
                            /\ Len(fr.trace) = t + 1
                            /\ fr.phase # "syscall"
  <2>1. PICK r \in VmFrame : r = Running
    BY <1>1, RunningFacts
  <2>2. PICK d \in Nat : d = CASE op = "call" -> r.depth + 1
                               [] op = "ret" /\ r.depth > 0 -> r.depth - 1
                               [] OTHER -> r.depth
    <3>1. r.depth \in Nat
      BY DEF VmFrame
    <3> QED BY <3>1 DEF Op
  <2>3. PICK p \in {"halted", "run"} :
          p = IF op = "ret" /\ r.depth = 0 THEN "halted" ELSE "run"
    OBVIOUS
  <2>4. PICK trace \in Seq(Op) : trace = Append(r.trace, op) /\ Len(trace) = t + 1
    <3>1. r.trace \in Seq(Op) /\ Len(r.trace) = t
      BY <1>4, <2>1 DEF VmFrame
    <3>2. PICK q \in Seq(Op) : q = r.trace
      BY <3>1
    <3>3. Append(q, op) \in Seq(Op) /\ Len(Append(q, op)) = Len(q) + 1
      OBVIOUS
    <3> QED BY <3>1, <3>2, <3>3
  <2>5. PICK e : e = [r EXCEPT !.trace = trace, !.depth = d, !.phase = p]
    OBVIOUS
  <2>6. e \in VmFrame /\ e.id = r.id /\ e.trace = trace /\ e.phase = p
    BY <2>5 DEF VmFrame
  <2>7. vm' = WithRunning(e)
    BY <2>1, <2>2, <2>3, <2>4, <2>5 DEF Execute
  <2> QED BY <1>5, <2>1, <2>3, <2>4, <2>6, <2>7 DEF WithRunning
<1>7. /\ vm' \in Seq(VmFrame) /\ Len(vm') = n
      /\ \A i \in 1..n : vm'[i] = IF i = n THEN fr ELSE vm[i]
  BY <1>1, <1>3, <1>6, WithLastFacts DEF SinkTypeOK
<1>8. \A i \in 1..n : vm'[i].id = vm[i].id
  BY <1>5, <1>6, <1>7
<1>9. \A i \in 1..n : Len(vm[i].trace) \in Nat
  BY <1>1, <1>3 DEF SinkTypeOK, VmFrame
<1>10. \A i \in 1..n : Len(vm'[i].trace) = IF i = n THEN Len(vm[i].trace) + 1 ELSE Len(vm[i].trace)
  <2>1. Len(vm[n].trace) = t
    BY <1>1, <1>3, <1>4, RunningFacts
  <2> QED BY <1>6, <1>7, <2>1
<1>11. \A i \in 1..n : Len(vm'[i].trace) >= Len(vm[i].trace)
  BY <1>9, <1>10
<1>12. PICK stepped \in VmEvent :
         /\ history' = Append(history, stepped)
         /\ stepped.kind = "step" /\ stepped.frame = id /\ stepped.index = t
  <2>1. PICK depth \in Nat : depth = Running.depth
    BY <1>1, RunningFacts
  <2>2. PICK x : x = Stepped(id, t, depth)
    OBVIOUS
  <2>3. id \in Id
    BY DEF Id
  <2>4. x \in VmEvent /\ x.kind = "step" /\ x.frame = id /\ x.index = t
    BY <2>2, <2>3 DEF Stepped, VmEvent
  <2>5. history' = Append(history, x)
    BY <1>4, <1>5, <2>1, <2>2 DEF Execute
  <2> QED BY <2>4, <2>5
<1>13. /\ history' \in Seq(VmEvent) /\ Len(history') = Len(history) + 1
       /\ history'[Len(history) + 1] = stepped
       /\ \A j \in 1..Len(history) : history'[j] = history[j]
  BY <1>1, <1>12, AppendFacts DEF SinkTypeOK
<1>14. SinkTypeOK'
  BY <1>1, <1>2, <1>7, <1>13 DEF SinkTypeOK
<1>15. SinkFollowsVm'
  <2>1. ASSUME NEW i \in 1..n
        PROVE  /\ stack[i] = vm'[i].id
               /\ vm'[i].id \in 1..Len(frames)
               /\ frames[vm'[i].id].parent = IF i = 1 THEN NoParent ELSE vm'[i - 1].id
    <3>1. /\ stack[i] = vm[i].id
          /\ vm[i].id \in 1..Len(frames)
          /\ frames[vm[i].id].parent = IF i = 1 THEN NoParent ELSE vm[i - 1].id
      BY <1>1, <1>3 DEF SinkFollowsVm
    <3>2. i # 1 => vm'[i - 1].id = vm[i - 1].id
      BY <1>8
    <3> QED BY <1>8, <3>1, <3>2
  <2> QED BY <1>1, <1>2, <1>3, <1>7, <2>1 DEF SinkFollowsVm
<1>16. IdsIncrease'
  BY <1>3, <1>7, <1>8 DEF IInv, IdsIncrease
<1>17. SyscallNoted'
  <2> SUFFICES ASSUME NEW i \in 1..n, vm'[i].phase = "syscall"
               PROVE  pending_step[i] = Len(vm'[i].trace)
    BY <1>2, <1>7 DEF SyscallNoted
  <2>1. i # n /\ vm'[i] = vm[i]
    BY <1>6, <1>7
  <2> QED BY <1>3, <2>1 DEF IInv, SyscallNoted
<1>18. ParentsNoted'
  BY <1>2 DEF IInv, ParentsNoted
<1>19. ChildrenBehind'
  <2> SUFFICES ASSUME NEW k \in 1..Len(frames), NEW i \in 1..n,
                      frames[k].parent = vm'[i].id
               PROVE  /\ frames[k].parent_step \in Nat
                      /\ frames[k].parent_step <= Len(vm'[i].trace)
    BY <1>2, <1>7 DEF ChildrenBehind
  <2>1. frames[k].parent_step \in Nat /\ frames[k].parent_step <= Len(vm[i].trace)
    BY <1>3, <1>8 DEF IInv, ChildrenBehind
  <2> QED BY <1>9, <1>10, <1>11, <2>1
<1>20. HistoryNoted'
  <2> SUFFICES ASSUME NEW j \in 1..Len(history) + 1
               PROVE  /\ history'[j].frame \in 1..Len(frames)
                      /\ history'[j].kind = "step" =>
                           \A i \in 1..n :
                             vm'[i].id = history'[j].frame =>
                               history'[j].index < Len(vm'[i].trace)
    BY <1>2, <1>7, <1>13 DEF HistoryNoted
  <2>1. CASE j = Len(history) + 1
    <3>1. history'[j] = stepped
      BY <1>13, <2>1
    <3>2. ASSUME NEW i \in 1..n, vm'[i].id = id
          PROVE  t < Len(vm'[i].trace)
      <4>1. vm[i].id = vm[n].id /\ vm[n].id \in Nat /\ n \in 1..n
        BY <1>5, <1>8, <3>2
      <4>2. i = n
        BY <1>3, <4>1 DEF IInv, IdsIncrease
      <4> QED BY <1>6, <1>7, <4>2
    <3> QED BY <1>12, <3>1, <3>2
  <2>2. CASE j # Len(history) + 1
    <3>1. j \in 1..Len(history) /\ history'[j] = history[j]
      BY <1>13, <2>2
    <3>2. history[j].frame \in 1..Len(frames)
      BY <3>1 DEF IInv, HistoryNoted
    <3>3. ASSUME history[j].kind = "step", NEW i \in 1..n, vm'[i].id = history[j].frame
          PROVE  history[j].index < Len(vm'[i].trace)
      <4>1. history[j].index < Len(vm[i].trace)
        BY <1>3, <1>8, <3>1, <3>3 DEF IInv, HistoryNoted
      <4>2. history[j].index \in Nat
        <5>1. history[j] \in VmEvent
          BY <1>1, <3>1 DEF SinkTypeOK
        <5> QED BY <5>1 DEF VmEvent
      <4>3. Len(vm[i].trace) \in Nat /\ Len(vm'[i].trace) \in Nat
        BY <1>9, <1>10
      <4>4. Len(vm[i].trace) <= Len(vm'[i].trace)
        BY <1>11
      <4> QED BY <4>1, <4>2, <4>3, <4>4
    <3> QED BY <3>1, <3>2, <3>3
  <2> QED BY <2>1, <2>2
<1>21. SplicedWhereMade'
  <2> SUFFICES ASSUME NEW i \in 1..Len(history) + 1, NEW j \in 1..Len(history) + 1,
                      history'[i].kind = "call", history'[j].kind = "step",
                      history'[j].frame = frames[history'[i].frame].parent
               PROVE  j < i <=> history'[j].index < frames[history'[i].frame].parent_step
    BY <1>2, <1>13 DEF SplicedWhereMade
  <2>1. i \in 1..Len(history) /\ history'[i] = history[i]
    BY <1>12, <1>13
  <2>2. history[i].frame \in 1..Len(frames)
    BY <2>1 DEF IInv, HistoryNoted
  <2>3. CASE j = Len(history) + 1
    <3>1. history'[j] = stepped
      BY <1>13, <2>3
    <3>2. frames[history[i].frame].parent = vm[n].id
      BY <1>5, <1>12, <2>1, <3>1
    <3>3. /\ frames[history[i].frame].parent_step \in Nat
          /\ frames[history[i].frame].parent_step <= Len(vm[n].trace)
      BY <1>3, <2>2, <3>2 DEF IInv, ChildrenBehind
    <3>4. Len(vm[n].trace) = t
      BY <1>1, <1>3, <1>4, RunningFacts
    <3>5. ~(t < frames[history[i].frame].parent_step)
      BY <3>3, <3>4
    <3> QED BY <1>12, <2>1, <2>3, <3>1, <3>5
  <2>4. CASE j # Len(history) + 1
    <3>1. j \in 1..Len(history) /\ history'[j] = history[j]
      BY <1>13, <2>4
    <3> QED BY <2>1, <3>1 DEF IInv, SplicedWhereMade
  <2> QED BY <2>3, <2>4
<1> QED BY <1>14, <1>15, <1>16, <1>17, <1>18, <1>19, <1>20, <1>21 DEF IInv

-----------------------------------------------------------------------------
(***************************************************************************)
(* The innermost frame exits, whether it failed or not.                    *)
(***************************************************************************)
LEMMA LeaveFrameKeepsInv ==
  ASSUME IInv, LeaveFrame
  PROVE  IInv'
<1>1. SinkTypeOK /\ SinkFollowsVm /\ vm # <<>>
  BY DEF IInv, LeaveFrame, InPhase
<1>2. PICK n \in Nat : n = Len(vm) - 1 /\ Len(vm) = n + 1
  BY <1>1, RunningFacts
<1>3. PICK id \in 1..Len(frames) : id = Running.id
  BY <1>1, <1>2, RunningFacts DEF SinkFollowsVm
<1>4. /\ vm' \in Seq(VmFrame) /\ Len(vm') = n
      /\ \A i \in 1..n : vm'[i] = vm[i]
  <2>1. vm' = Outer(vm) /\ vm \in Seq(VmFrame)
    BY <1>1 DEF LeaveFrame, SinkTypeOK
  <2> QED BY <1>1, <1>2, <2>1, OuterFacts
<1>5. /\ stack' \in Seq(Id) /\ Len(stack') = n
      /\ \A i \in 1..n : stack'[i] = stack[i]
  <2>1. stack' = Outer(stack) /\ stack \in Seq(Id) /\ Len(stack) = n + 1
    BY <1>1, <1>2 DEF LeaveFrame, exit, SinkTypeOK, SinkFollowsVm
  <2>2. stack # <<>>
    BY <2>1
  <2> QED BY <2>1, <2>2, OuterFacts
<1>6. /\ pending_step' \in Seq(Nat \cup {NoStep}) /\ Len(pending_step') = n
      /\ \A i \in 1..n : pending_step'[i] = pending_step[i]
  <2>1. /\ pending_step' = Outer(pending_step)
        /\ pending_step \in Seq(Nat \cup {NoStep}) /\ Len(pending_step) = n + 1
    BY <1>1, <1>2 DEF LeaveFrame, exit, SinkTypeOK, SinkFollowsVm
  <2>2. pending_step # <<>>
    BY <2>1
  <2> QED BY <2>1, <2>2, OuterFacts
<1>7. /\ frames' \in Seq(NotedFrame) /\ Len(frames') = Len(frames)
      /\ \A k \in 1..Len(frames) : /\ frames'[k].parent = frames[k].parent
                                   /\ frames'[k].parent_step = frames[k].parent_step
  <2>1. PICK error \in BOOLEAN : error = Running.error
    BY <1>1, RunningFacts DEF VmFrame
  <2>2. frames \in Seq(NotedFrame) /\ frames[id] \in NotedFrame
    BY <1>1 DEF SinkTypeOK
  <2>3. PICK noted : noted = [frames[id] EXCEPT !.error = error]
    OBVIOUS
  <2>4. /\ noted \in NotedFrame /\ noted.parent = frames[id].parent
        /\ noted.parent_step = frames[id].parent_step
    BY <2>2, <2>3 DEF NotedFrame
  <2>5. frames' = [frames EXCEPT ![id] = noted]
    BY <1>3, <2>1, <2>3 DEF LeaveFrame, exit
  <2> QED BY <2>2, <2>4, <2>5
<1>8. PICK left \in VmEvent : /\ history' = Append(history, left)
                              /\ left.kind = "return" /\ left.frame = id
  <2>1. PICK x : x = Returned(id)
    OBVIOUS
  <2>2. id \in Id
    BY DEF Id
  <2>3. x \in VmEvent /\ x.kind = "return" /\ x.frame = id
    BY <2>1, <2>2 DEF Returned, VmEvent
  <2>4. history' = Append(history, x)
    BY <1>3, <2>1 DEF LeaveFrame
  <2> QED BY <2>3, <2>4
<1>9. /\ history' \in Seq(VmEvent) /\ Len(history') = Len(history) + 1
      /\ history'[Len(history) + 1] = left
      /\ \A j \in 1..Len(history) : history'[j] = history[j]
  BY <1>1, <1>8, AppendFacts DEF SinkTypeOK
<1>10. SinkTypeOK'
  BY <1>1, <1>4, <1>5, <1>6, <1>7, <1>9 DEF SinkTypeOK, LeaveFrame
<1>11. SinkFollowsVm'
  <2>1. ASSUME NEW i \in 1..n
        PROVE  /\ stack'[i] = vm'[i].id
               /\ vm'[i].id \in 1..Len(frames)
               /\ frames'[vm'[i].id].parent = IF i = 1 THEN NoParent ELSE vm'[i - 1].id
    <3>1. /\ stack[i] = vm[i].id
          /\ vm[i].id \in 1..Len(frames)
          /\ frames[vm[i].id].parent = IF i = 1 THEN NoParent ELSE vm[i - 1].id
      BY <1>1, <1>2 DEF SinkFollowsVm
    <3>2. i # 1 => vm'[i - 1] = vm[i - 1]
      BY <1>4
    <3> QED BY <1>4, <1>5, <1>7, <3>1, <3>2
  <2> QED BY <1>4, <1>5, <1>6, <1>7, <2>1 DEF SinkFollowsVm
<1>12. IdsIncrease'
  BY <1>2, <1>4 DEF IInv, IdsIncrease
<1>13. SyscallNoted'
  <2> SUFFICES ASSUME NEW i \in 1..n, vm[i].phase = "syscall"
               PROVE  pending_step'[i] = Len(vm[i].trace)
    BY <1>4 DEF SyscallNoted
  <2>1. pending_step'[i] = pending_step[i] /\ i \in 1..Len(vm)
    BY <1>2, <1>6
  <2>2. SyscallNoted
    BY DEF IInv
  <2> QED BY <2>1, <2>2 DEF SyscallNoted
<1>14. ParentsNoted'
  BY <1>7 DEF IInv, ParentsNoted
<1>15. ChildrenBehind'
  <2> SUFFICES ASSUME NEW k \in 1..Len(frames), NEW i \in 1..n,
                      frames[k].parent = vm[i].id
               PROVE  /\ frames[k].parent_step \in Nat
                      /\ frames[k].parent_step <= Len(vm[i].trace)
    BY <1>4, <1>7 DEF ChildrenBehind
  <2> QED BY <1>2 DEF IInv, ChildrenBehind
<1>16. HistoryNoted'
  <2> SUFFICES ASSUME NEW j \in 1..Len(history) + 1
               PROVE  /\ history'[j].frame \in 1..Len(frames)
                      /\ history'[j].kind = "step" =>
                           \A i \in 1..n :
                             vm[i].id = history'[j].frame =>
                               history'[j].index < Len(vm[i].trace)
    BY <1>4, <1>7, <1>9 DEF HistoryNoted
  <2>1. CASE j = Len(history) + 1
    BY <1>8, <1>9, <2>1
  <2>2. CASE j # Len(history) + 1
    <3>1. j \in 1..Len(history) /\ history'[j] = history[j]
      BY <1>9, <2>2
    <3>2. HistoryNoted
      BY DEF IInv
    <3>3. \A i \in 1..n : i \in 1..Len(vm)
      BY <1>2
    <3>4. history[j].frame \in 1..Len(frames)
      BY <3>1, <3>2 DEF HistoryNoted
    <3>5. history[j].kind = "step" =>
            \A i \in 1..n :
              vm[i].id = history[j].frame => history[j].index < Len(vm[i].trace)
      BY <3>1, <3>2, <3>3 DEF HistoryNoted
    <3> QED BY <3>1, <3>4, <3>5
  <2> QED BY <2>1, <2>2
<1>17. SplicedWhereMade'
  <2> SUFFICES ASSUME NEW i \in 1..Len(history) + 1, NEW j \in 1..Len(history) + 1,
                      history'[i].kind = "call", history'[j].kind = "step",
                      history'[j].frame = frames'[history'[i].frame].parent
               PROVE  j < i <=> history'[j].index < frames'[history'[i].frame].parent_step
    BY <1>9 DEF SplicedWhereMade
  <2>1. /\ i \in 1..Len(history) /\ history'[i] = history[i]
        /\ j \in 1..Len(history) /\ history'[j] = history[j]
    BY <1>8, <1>9
  <2>2. history[i].frame \in 1..Len(frames)
    BY <2>1 DEF IInv, HistoryNoted
  <2> QED BY <1>7, <2>1, <2>2 DEF IInv, SplicedWhereMade
<1> QED BY <1>10, <1>11, <1>12, <1>13, <1>14, <1>15, <1>16, <1>17 DEF IInv

-----------------------------------------------------------------------------
(***************************************************************************)
(* The invariant holds at the start and through every step.                *)
(***************************************************************************)
LEMMA InitIInv == ObserverInit => IInv
<1> SUFFICES ASSUME ObserverInit PROVE IInv
  OBVIOUS
<1>1. vm = <<>> /\ history = <<>> /\ finished = FALSE
      /\ frames = <<>> /\ stack = <<>> /\ pending_step = <<>>
  BY DEF ObserverInit
<1>2. SinkTypeOK
  <2>1. \A S : <<>> \in Seq(S)
    OBVIOUS
  <2> QED BY <1>1, <2>1 DEF SinkTypeOK
<1>3. 1..Len(vm) = {} /\ 1..Len(frames) = {} /\ 1..Len(history) = {}
  BY <1>1
<1>4. SinkFollowsVm
  BY <1>1, <1>3 DEF SinkFollowsVm
<1>5. IdsIncrease /\ SyscallNoted /\ ParentsNoted /\ ChildrenBehind
  BY <1>3 DEF IdsIncrease, SyscallNoted, ParentsNoted, ChildrenBehind
<1>6. HistoryNoted /\ SplicedWhereMade
  BY <1>3 DEF HistoryNoted, SplicedWhereMade
<1> QED BY <1>2, <1>4, <1>5, <1>6 DEF IInv

LEMMA NextIInv == IInv /\ [ObserverNext]_observerVars => IInv'
<1> SUFFICES ASSUME IInv, [ObserverNext]_observerVars PROVE IInv'
  OBVIOUS
<1>1. CASE EnterTop
  BY <1>1, EnterTopKeepsInv
<1>2. CASE EnterNested
  BY <1>2, EnterNestedKeepsInv
<1>3. CASE PrepareFails
  BY <1>3, PrepareFailsKeepsInv
<1>4. CASE SyscallHint
  BY <1>4, SyscallHintKeepsInv
<1>5. ASSUME NEW op \in Op, Execute(op) PROVE IInv'
  BY <1>5, ExecuteKeepsInv
<1>6. CASE RunFails
  BY <1>6, RunFailsKeepsInv
<1>7. CASE RunEnds
  BY <1>7, RunEndsKeepsInv
<1>8. CASE LeaveFrame
  BY <1>8, LeaveFrameKeepsInv
<1>9. CASE EndTransaction
  <2>1. finished' = TRUE /\ UNCHANGED <<vm, history, frames, stack, pending_step>>
    BY <1>9 DEF EndTransaction
  <2> QED BY <2>1 DEF IInv, SinkTypeOK, SinkFollowsVm, IdsIncrease, SyscallNoted,
                      ParentsNoted, ChildrenBehind, HistoryNoted, SplicedWhereMade
<1>10. CASE UNCHANGED observerVars
  BY <1>10 DEF observerVars, IInv, SinkTypeOK, SinkFollowsVm, IdsIncrease, SyscallNoted,
               ParentsNoted, ChildrenBehind, HistoryNoted, SplicedWhereMade
<1> QED BY <1>1, <1>2, <1>3, <1>4, <1>5, <1>6, <1>7, <1>8, <1>9, <1>10 DEF ObserverNext

(***************************************************************************)
(* For transactions of any size: the observer's state stays in its domain; *)
(* its stack is the executor's stack of frames, with the right parents,    *)
(* whichever frames fail; and what parent_step says of a nested frame is   *)
(* where the VM entered it.                                                *)
(***************************************************************************)
THEOREM SinkTypeCorrect == ObserverSpec => []SinkTypeOK
<1>1. IInv => SinkTypeOK
  BY DEF IInv
<1> QED BY <1>1, InitIInv, NextIInv, PTL DEF ObserverSpec

(* The observer's stack is the executor's, whichever frames fail. *)
THEOREM StackIsTheExecutors == ObserverSpec => []SinkFollowsVm
<1>1. IInv => SinkFollowsVm
  BY DEF IInv
<1> QED BY <1>1, InitIInv, NextIInv, PTL DEF ObserverSpec

(* The parent's steps before a nested frame are those below parent_step. *)
THEOREM ParentStepIsRight == ObserverSpec => []SplicedWhereMade
<1>1. IInv => SplicedWhereMade
  BY DEF IInv
<1> QED BY <1>1, InitIInv, NextIInv, PTL DEF ObserverSpec

-----------------------------------------------------------------------------
(***************************************************************************)
(* The order of the history.  What the container writer relies on is more  *)
(* than where a nested frame was made: frames are called in the order of   *)
(* their numbers, everything happens in the innermost open frame, steps    *)
(* happen in the order of their indexes, and what is noted of a frame that *)
(* left is all that happened in it.                                        *)
(***************************************************************************)

(***************************************************************************)
(* What had happened by the q-th event.                                    *)
(***************************************************************************)
Did(kind, k, q) == \E a \in 1..q : history[a].kind = kind /\ history[a].frame = k

Ran(k, i, q) ==
  \E a \in 1..q : history[a].kind = "step" /\ history[a].frame = k /\ history[a].index = i

IsOpen(k, q) == Did("call", k, q) /\ ~Did("return", k, q)

(* The frame an event happens in: a nested frame is called in its parent. *)
ActsIn(a) ==
  IF history[a].kind = "call" THEN frames[history[a].frame].parent ELSE history[a].frame

(* Frames are called once each, in the order of their numbers. *)
CallsInOrder ==
  /\ \A k \in 1..Len(frames) : Did("call", k, Len(history))
  /\ \A a \in 1..Len(history) :
       history[a].kind = "call" =>
         \A k \in 1..Len(frames) : k < history[a].frame <=> Did("call", k, a - 1)

(* Everything happens in the innermost open frame, the newest of them. *)
InnermostActs ==
  \A a \in 1..Len(history) :
    /\ ActsIn(a) = NoParent \/ IsOpen(ActsIn(a), a - 1)
    /\ \A g \in 1..Len(frames) : IsOpen(g, a - 1) => ActsIn(a) # NoParent /\ g <= ActsIn(a)

(* The steps of a frame happen in the order of their indexes. *)
StepsInOrder ==
  \A a \in 1..Len(history) :
    history[a].kind = "step" =>
      \A j \in Nat : j < history[a].index <=> Ran(history[a].frame, j, a - 1)

(* The frames that are open are those the executor runs. *)
OpenRuns ==
  \A k \in 1..Len(frames) : IsOpen(k, Len(history)) <=> \E i \in 1..Len(vm) : vm[i].id = k

(* A trace has the steps that happened, of a frame that runs or that left. *)
RunningTraces ==
  \A i \in 1..Len(vm) : \A j \in Nat : j < Len(vm[i].trace) <=> Ran(vm[i].id, j, Len(history))

NotedTraces ==
  \A k \in 1..Len(frames) :
    ~IsOpen(k, Len(history)) => \A j \in Nat : j < Len(frames[k].steps) <=> Ran(k, j, Len(history))

(* The trace of a frame is noted between the end of its run and its exit. *)
PhaseSteps ==
  \A i \in 1..Len(vm) :
    /\ vm[i].phase = "entered" => vm[i].trace = <<>>
    /\ frames[vm[i].id].steps = IF vm[i].phase = "leaving" THEN vm[i].trace ELSE <<>>

SpliceNoted ==
  \A k \in 1..Len(frames) : frames[k].parent # NoParent => frames[k].parent_step \in Nat

EventIndexes ==
  \A a \in 1..Len(history) : history[a].kind # "step" => history[a].index = 0

EndedEmpty == finished => vm = <<>>

(* The bounds of the model are kept. *)
WithinBounds ==
  /\ Len(frames) <= MaxFrames
  /\ Executed <= MaxSteps
  /\ \A i \in 1..Len(vm) : Len(vm[i].trace) <= Executed
  /\ \A a \in 1..Len(history) : history[a].index <= MaxSteps

OrderInv ==
  /\ CallsInOrder
  /\ InnermostActs
  /\ StepsInOrder
  /\ OpenRuns
  /\ RunningTraces
  /\ NotedTraces
  /\ PhaseSteps
  /\ SpliceNoted
  /\ EventIndexes
  /\ EndedEmpty
  /\ WithinBounds

-----------------------------------------------------------------------------
(***************************************************************************)
(* The steps of the observer, told apart by what they add to the history.  *)
(***************************************************************************)
SameRun(i) ==
  /\ vm'[i].id = vm[i].id
  /\ vm'[i].trace = vm[i].trace
  /\ vm'[i].depth = vm[i].depth

SameNote(k) ==
  /\ frames'[k].parent = frames[k].parent
  /\ frames'[k].parent_step = frames[k].parent_step

Quiet ==
  /\ history' = history
  /\ finished' => vm' = <<>>
  /\ Len(vm') = Len(vm)
  /\ \A i \in 1..Len(vm) : SameRun(i)
  /\ Len(frames') = Len(frames)
  /\ \A k \in 1..Len(frames) : SameNote(k)
  /\ \A k \in 1..Len(frames) :
       frames'[k].steps = frames[k].steps \/ \E i \in 1..Len(vm) : vm[i].id = k
  /\ PhaseSteps'

Begins ==
  LET n == Len(vm)
      m == Len(frames)
  IN  /\ ~finished'
      /\ m < MaxFrames
      /\ Len(vm') = n + 1
      /\ \A i \in 1..n : SameRun(i) /\ vm'[i].phase = vm[i].phase
      /\ vm'[n + 1] = NewVmFrame
      /\ Len(frames') = m + 1
      /\ \A k \in 1..m : frames'[k] = frames[k]
      /\ frames'[m + 1].parent = IF n = 0 THEN NoParent ELSE vm[n].id
      /\ n # 0 => frames'[m + 1].parent_step = Len(vm[n].trace)
      /\ frames'[m + 1].steps = <<>>
      /\ history' = Append(history, Called(m + 1, IF n = 0 THEN 0 ELSE vm[n].depth))

DepthAfter(op, depth) ==
  CASE op = "call" -> depth + 1
    [] op = "ret" /\ depth > 0 -> depth - 1
    [] OTHER -> depth

Executes(op) ==
  LET n == Len(vm)
  IN  /\ n # 0
      /\ Executed < MaxSteps
      /\ UNCHANGED <<finished, frames>>
      /\ Len(vm') = n
      /\ \A i \in 1..n - 1 : vm'[i] = vm[i]
      /\ vm[n].phase # "leaving"
      /\ vm'[n].id = vm[n].id
      /\ vm'[n].trace = Append(vm[n].trace, op)
      /\ vm'[n].depth = DepthAfter(op, vm[n].depth)
      /\ vm'[n].phase \in {"run", "halted"}
      /\ history' = Append(history, Stepped(vm[n].id, Len(vm[n].trace), vm[n].depth))

Leaves ==
  LET n == Len(vm)
  IN  /\ n # 0
      /\ UNCHANGED finished
      /\ vm[n].phase = "leaving"
      /\ Len(vm') = n - 1
      /\ \A i \in 1..n - 1 : vm'[i] = vm[i]
      /\ Len(frames') = Len(frames)
      /\ \A k \in 1..Len(frames) : SameNote(k) /\ frames'[k].steps = frames[k].steps
      /\ history' = Append(history, Returned(vm[n].id))

(* The state the shapes are read in. *)
LEMMA VmFacts ==
  ASSUME IInv
  PROVE  /\ Len(vm) \in Nat /\ Len(frames) \in Nat /\ Len(history) \in Nat
         /\ vm = <<>> <=> Len(vm) = 0
         /\ \A i \in 1..Len(vm) : /\ vm[i] \in VmFrame
                                  /\ vm[i].id \in 1..Len(frames)
                                  /\ Len(vm[i].trace) \in Nat
                                  /\ vm[i].trace \in Seq(Op)
                                  /\ vm[i].depth \in Nat
         /\ \A k \in 1..Len(frames) : frames[k] \in NotedFrame /\ Len(frames[k].steps) \in Nat
         /\ \A a \in 1..Len(history) : /\ history[a] \in VmEvent
                                       /\ history[a].frame \in 1..Len(frames)
                                       /\ history[a].index \in Nat
<1>1. SinkTypeOK /\ SinkFollowsVm /\ HistoryNoted
  BY DEF IInv
<1>2. vm \in Seq(VmFrame) /\ frames \in Seq(NotedFrame) /\ history \in Seq(VmEvent)
  BY <1>1 DEF SinkTypeOK
<1>3. \A i \in 1..Len(vm) : vm[i] \in VmFrame /\ vm[i].id \in 1..Len(frames)
  BY <1>1, <1>2 DEF SinkFollowsVm
<1>4. \A fr \in VmFrame : fr.trace \in Seq(Op) /\ Len(fr.trace) \in Nat /\ fr.depth \in Nat
  BY DEF VmFrame
<1>5. \A fr \in NotedFrame : Len(fr.steps) \in Nat
  BY DEF NotedFrame
<1>6. \A k \in 1..Len(frames) : frames[k] \in NotedFrame
  BY <1>2
<1>7. \A a \in 1..Len(history) : history[a] \in VmEvent
  BY <1>2
<1>8. \A e \in VmEvent : e.index \in Nat
  BY DEF VmEvent
<1>9. \A a \in 1..Len(history) : history[a].frame \in 1..Len(frames)
  BY <1>1 DEF HistoryNoted
<1> QED BY <1>2, <1>3, <1>4, <1>5, <1>6, <1>7, <1>8, <1>9

(* An action that only touches the running frame and what is noted of it.  *)
LEMMA QuietWhenRunningChanges ==
  ASSUME IInv, OrderInv, vm # <<>>, ~finished', history' = history,
         NEW fr \in VmFrame, vm' = [vm EXCEPT ![Len(vm)] = fr],
         fr.id = Running.id, fr.trace = Running.trace, fr.depth = Running.depth,
         fr.phase # "entered",
         Len(frames') = Len(frames),
         \A k \in 1..Len(frames) : SameNote(k),
         \A k \in 1..Len(frames) : k # Running.id => frames'[k].steps = frames[k].steps,
         frames'[Running.id].steps = IF fr.phase = "leaving" THEN fr.trace ELSE <<>>
  PROVE  Quiet
<1>1. PICK n \in Nat \ {0} : n = Len(vm)
  BY RunningFacts DEF IInv
<1>2. Running = vm[n] /\ vm[n].id \in 1..Len(frames)
  BY <1>1, VmFacts DEF Running
<1>3. Len(vm') = n /\ \A i \in 1..n : vm'[i] = IF i = n THEN fr ELSE vm[i]
  BY <1>1, WithLastFacts DEF IInv, SinkTypeOK
<1>4. \A i \in 1..n : SameRun(i)
  BY <1>2, <1>3 DEF SameRun
<1>5. PhaseSteps'
  <2> SUFFICES ASSUME NEW i \in 1..n
               PROVE  /\ vm'[i].phase = "entered" => vm'[i].trace = <<>>
                      /\ frames'[vm'[i].id].steps =
                           IF vm'[i].phase = "leaving" THEN vm'[i].trace ELSE <<>>
    BY <1>3 DEF PhaseSteps
  <2>1. CASE i = n
    BY <1>3, <2>1
  <2>2. CASE i # n
    <3>1. vm'[i] = vm[i] /\ vm[i].id \in 1..Len(frames)
      BY <1>1, <1>3, <2>2, VmFacts
    <3>2. vm[i].id # vm[n].id
      <4>1. vm[i].id < vm[n].id /\ vm[i].id \in Nat /\ vm[n].id \in Nat
        BY <1>1, <1>2, <2>2, <3>1 DEF IInv, IdsIncrease
      <4> QED BY <4>1
    <3>3. frames'[vm[i].id].steps = frames[vm[i].id].steps
      BY <1>2, <3>1, <3>2
    <3> QED BY <1>1, <3>1, <3>3 DEF OrderInv, PhaseSteps
  <2> QED BY <2>1, <2>2
<1> QED BY <1>1, <1>2, <1>3, <1>4, <1>5 DEF Quiet

(* What is noted of the frames stays as it is. *)
LEMMA NotesUnchanged ==
  ASSUME frames' = frames
  PROVE  Len(frames') = Len(frames) /\ \A k \in 1..Len(frames) : SameNote(k)
BY DEF SameNote

LEMMA NotLeavingYet ==
  ASSUME IInv, OrderInv, vm # <<>>, Running.phase # "leaving"
  PROVE  ~finished /\ frames[Running.id].steps = <<>>
<1>1. Len(vm) \in 1..Len(vm) /\ Running = vm[Len(vm)]
  BY RunningFacts DEF IInv
<1> QED BY <1>1 DEF OrderInv, PhaseSteps, EndedEmpty

LEMMA PrepareFailsIsQuiet ==
  ASSUME IInv, OrderInv, PrepareFails
  PROVE  Quiet
<1>1. SinkTypeOK /\ vm # <<>> /\ Running.phase = "entered"
  BY DEF IInv, PrepareFails, InPhase
<1>2. PICK fr \in VmFrame : /\ fr = [Running EXCEPT !.phase = "leaving", !.error = TRUE]
                            /\ fr.id = Running.id /\ fr.trace = Running.trace
                            /\ fr.depth = Running.depth /\ fr.phase = "leaving"
  <2>1. PICK r \in VmFrame : r = Running
    BY <1>1, RunningFacts
  <2>2. PICK e : e = [r EXCEPT !.phase = "leaving", !.error = TRUE]
    OBVIOUS
  <2>3. e \in VmFrame /\ e.id = r.id /\ e.trace = r.trace /\ e.depth = r.depth /\ e.phase = "leaving"
    BY <2>2 DEF VmFrame
  <2> QED BY <2>1, <2>2, <2>3
<1>3. vm' = [vm EXCEPT ![Len(vm)] = fr] /\ frames' = frames /\ UNCHANGED <<history, finished>>
  BY <1>2 DEF PrepareFails, WithRunning
<1>4. Running.trace = <<>> /\ frames[Running.id].steps = <<>> /\ ~finished
  <2>1. Len(vm) \in 1..Len(vm) /\ Running = vm[Len(vm)]
    BY <1>1, RunningFacts
  <2> QED BY <1>1, <2>1, NotLeavingYet DEF OrderInv, PhaseSteps
<1> QED BY <1>1, <1>2, <1>3, <1>4, NotesUnchanged, QuietWhenRunningChanges

LEMMA RunFailsIsQuiet ==
  ASSUME IInv, OrderInv, RunFails
  PROVE  Quiet
<1>1. SinkTypeOK /\ vm # <<>> /\ Running.phase # "leaving"
  BY DEF IInv, RunFails, InPhase
<1>2. PICK fr \in VmFrame : /\ fr = [Running EXCEPT !.phase = "halted", !.error = TRUE]
                            /\ fr.id = Running.id /\ fr.trace = Running.trace
                            /\ fr.depth = Running.depth /\ fr.phase = "halted"
  <2>1. PICK r \in VmFrame : r = Running
    BY <1>1, RunningFacts
  <2>2. PICK e : e = [r EXCEPT !.phase = "halted", !.error = TRUE]
    OBVIOUS
  <2>3. e \in VmFrame /\ e.id = r.id /\ e.trace = r.trace /\ e.depth = r.depth /\ e.phase = "halted"
    BY <2>2 DEF VmFrame
  <2> QED BY <2>1, <2>2, <2>3
<1>3. vm' = [vm EXCEPT ![Len(vm)] = fr] /\ frames' = frames /\ UNCHANGED <<history, finished>>
  BY <1>2 DEF RunFails, WithRunning
<1>4. frames[Running.id].steps = <<>> /\ ~finished
  BY <1>1, NotLeavingYet
<1> QED BY <1>1, <1>2, <1>3, <1>4, NotesUnchanged, QuietWhenRunningChanges

LEMMA SyscallHintIsQuiet ==
  ASSUME IInv, OrderInv, SyscallHint
  PROVE  Quiet
<1>1. SinkTypeOK /\ vm # <<>> /\ Running.phase # "leaving"
  BY DEF IInv, SyscallHint, InPhase
<1>2. PICK fr \in VmFrame : /\ fr = [Running EXCEPT !.phase = "syscall", !.opened = FALSE]
                            /\ fr.id = Running.id /\ fr.trace = Running.trace
                            /\ fr.depth = Running.depth /\ fr.phase = "syscall"
  <2>1. PICK r \in VmFrame : r = Running
    BY <1>1, RunningFacts
  <2>2. PICK e : e = [r EXCEPT !.phase = "syscall", !.opened = FALSE]
    OBVIOUS
  <2>3. e \in VmFrame /\ e.id = r.id /\ e.trace = r.trace /\ e.depth = r.depth /\ e.phase = "syscall"
    BY <2>2 DEF VmFrame
  <2> QED BY <2>1, <2>2, <2>3
<1>3. vm' = [vm EXCEPT ![Len(vm)] = fr] /\ frames' = frames /\ UNCHANGED <<history, finished>>
  BY <1>2 DEF SyscallHint, WithRunning, syscall_at
<1>4. frames[Running.id].steps = <<>> /\ ~finished
  BY <1>1, NotLeavingYet
<1> QED BY <1>1, <1>2, <1>3, <1>4, NotesUnchanged, QuietWhenRunningChanges

LEMMA RunEndsIsQuiet ==
  ASSUME IInv, OrderInv, RunEnds
  PROVE  Quiet
<1>1. SinkTypeOK /\ vm # <<>> /\ Len(stack) = Len(vm) /\ Running.phase # "leaving"
  BY DEF IInv, RunEnds, InPhase, SinkFollowsVm
<1>2. PICK fr \in VmFrame : /\ fr = [Running EXCEPT !.phase = "leaving"]
                            /\ fr.id = Running.id /\ fr.trace = Running.trace
                            /\ fr.depth = Running.depth /\ fr.phase = "leaving"
  <2>1. PICK r \in VmFrame : r = Running
    BY <1>1, RunningFacts
  <2>2. PICK e : e = [r EXCEPT !.phase = "leaving"]
    OBVIOUS
  <2>3. e \in VmFrame /\ e.id = r.id /\ e.trace = r.trace /\ e.depth = r.depth /\ e.phase = "leaving"
    BY <2>2 DEF VmFrame
  <2> QED BY <2>1, <2>2, <2>3
<1>3. vm' = [vm EXCEPT ![Len(vm)] = fr] /\ UNCHANGED <<history, finished>>
  BY <1>2 DEF RunEnds, WithRunning
<1>4. PICK id \in 1..Len(frames) : id = Running.id /\ id = stack[Len(stack)]
  <2>1. Len(vm) \in 1..Len(vm) /\ Running = vm[Len(vm)]
    BY <1>1, RunningFacts
  <2> QED BY <1>1, <2>1 DEF IInv, SinkFollowsVm
<1>5. frames' = [frames EXCEPT ![id].steps = Running.trace]
  <2>1. stack # <<>>
    BY <1>1, RunningFacts DEF SinkTypeOK
  <2> QED BY <1>4, <2>1 DEF RunEnds, record_steps
<1>6. /\ Len(frames') = Len(frames)
      /\ \A k \in 1..Len(frames) : SameNote(k)
      /\ \A k \in 1..Len(frames) : k # id => frames'[k].steps = frames[k].steps
      /\ frames'[id].steps = Running.trace
  <2>1. PICK t \in Seq(Op) : t = Running.trace
    BY <1>1, RunningFacts
  <2>2. frames \in Seq(NotedFrame) /\ frames[id] \in NotedFrame
    BY <1>1 DEF SinkTypeOK
  <2>3. PICK noted : noted = [frames[id] EXCEPT !.steps = t]
    OBVIOUS
  <2>4. /\ noted \in NotedFrame /\ noted.parent = frames[id].parent
        /\ noted.parent_step = frames[id].parent_step /\ noted.steps = t
    BY <2>2, <2>3 DEF NotedFrame
  <2>5. frames' = [frames EXCEPT ![id] = noted]
    BY <1>5, <2>1, <2>3
  <2> QED BY <2>1, <2>2, <2>4, <2>5 DEF SameNote
<1>7. ~finished
  BY <1>1, NotLeavingYet
<1> QED BY <1>1, <1>2, <1>3, <1>4, <1>6, <1>7, QuietWhenRunningChanges

LEMMA EndTransactionIsQuiet ==
  ASSUME IInv, OrderInv, EndTransaction
  PROVE  Quiet
<1>1. vm = <<>> /\ UNCHANGED <<vm, history, frames>>
  BY DEF EndTransaction
<1>2. \A i \in 1..Len(vm) : SameRun(i)
  BY <1>1 DEF SameRun
<1>3. PhaseSteps'
  BY <1>1 DEF OrderInv, PhaseSteps
<1> QED BY <1>1, <1>2, <1>3, NotesUnchanged DEF Quiet

LEMMA StutterIsQuiet ==
  ASSUME IInv, OrderInv, UNCHANGED observerVars
  PROVE  Quiet
<1>1. UNCHANGED <<vm, history, finished, frames>>
  BY DEF observerVars
<1>2. \A i \in 1..Len(vm) : SameRun(i)
  BY <1>1 DEF SameRun
<1>3. PhaseSteps'
  BY <1>1 DEF OrderInv, PhaseSteps
<1>4. finished' => vm' = <<>>
  BY <1>1 DEF OrderInv, EndedEmpty
<1> QED BY <1>1, <1>2, <1>3, <1>4, NotesUnchanged DEF Quiet

LEMMA EnterBegins ==
  ASSUME IInv, enter, Len(frames) < MaxFrames, ~finished',
         NEW base \in Seq(VmFrame), Len(base) = Len(vm),
         \A i \in 1..Len(vm) : /\ base[i].id = vm[i].id /\ base[i].trace = vm[i].trace
                               /\ base[i].depth = vm[i].depth /\ base[i].phase = vm[i].phase,
         vm # <<>> => Running.phase = "syscall",
         vm' = Append(base, NewVmFrame),
         history' = Append(history, Called(Len(frames) + 1, IF vm = <<>> THEN 0 ELSE Running.depth))
  PROVE  Begins
<1>1. SinkTypeOK /\ SinkFollowsVm
  BY DEF IInv
<1>2. PICK n \in Nat : n = Len(vm)
  BY <1>1 DEF SinkTypeOK
<1>3. PICK m \in Nat : m = Len(frames)
  BY <1>1 DEF SinkTypeOK
<1>4. NewVmFrame \in VmFrame
  BY <1>3 DEF NewVmFrame, VmFrame, Id
<1>5. /\ Len(vm') = n + 1 /\ vm'[n + 1] = NewVmFrame
      /\ \A i \in 1..n : vm'[i] = base[i]
  BY <1>2, <1>4, AppendFacts
<1>6. n # 0 => vm # <<>> /\ Running = vm[n] /\ n \in 1..Len(vm)
  BY <1>1, <1>2 DEF SinkTypeOK, Running
<1>7. n = 0 => vm = <<>>
  BY <1>2, VmFacts
<1>8. PICK parent \in Id \cup {NoParent} :
        /\ parent = LastOf(stack, NoParent)
        /\ parent = IF n = 0 THEN NoParent ELSE vm[n].id
  BY <1>1, <1>2 DEF LastOf, SinkTypeOK, SinkFollowsVm
<1>9. PICK step \in Nat \cup {NoStep} :
        /\ step = LastOf(pending_step, NoStep)
        /\ n # 0 => step = pending_step[n]
  <2>1. pending_step \in Seq(Nat \cup {NoStep}) /\ Len(pending_step) = n
    BY <1>1, <1>2 DEF SinkTypeOK, SinkFollowsVm
  <2>2. CASE n = 0
    <3>1. LastOf(pending_step, NoStep) = NoStep
      BY <2>1, <2>2 DEF LastOf
    <3> QED BY <2>2, <3>1
  <2>3. CASE n # 0
    <3>1. LastOf(pending_step, NoStep) = pending_step[n]
      BY <2>1, <2>3 DEF LastOf
    <3>2. pending_step[n] \in Nat \cup {NoStep}
      BY <2>1, <2>3
    <3> QED BY <3>1, <3>2
  <2> QED BY <2>2, <2>3
<1>10. n # 0 => step = Len(vm[n].trace)
  BY <1>6, <1>9 DEF IInv, SyscallNoted
<1>11. PICK noted \in NotedFrame :
        /\ noted = [parent |-> parent, parent_step |-> step, steps |-> <<>>, error |-> FALSE]
        /\ noted.parent = parent /\ noted.parent_step = step /\ noted.steps = <<>>
  <2>1. PICK x : x = [parent |-> parent, parent_step |-> step, steps |-> <<>>, error |-> FALSE]
    OBVIOUS
  <2>2. <<>> \in Seq(Op)
    OBVIOUS
  <2>3. x \in NotedFrame /\ x.parent = parent /\ x.parent_step = step /\ x.steps = <<>>
    BY <2>1, <2>2 DEF NotedFrame
  <2> QED BY <2>1, <2>3
<1>12. /\ Len(frames') = m + 1 /\ frames'[m + 1] = noted
       /\ \A k \in 1..m : frames'[k] = frames[k]
  <2>1. frames' = Append(frames, noted)
    BY <1>8, <1>9, <1>11 DEF enter
  <2> QED BY <1>1, <1>3, <2>1, AppendFacts DEF SinkTypeOK
<1>13. \A i \in 1..n : SameRun(i) /\ vm'[i].phase = vm[i].phase
  BY <1>2, <1>5 DEF SameRun
<1>14. history' = Append(history, Called(m + 1, IF n = 0 THEN 0 ELSE vm[n].depth))
  BY <1>3, <1>6, <1>7
<1> QED BY <1>2, <1>3, <1>5, <1>8, <1>10, <1>11, <1>12, <1>13, <1>14 DEF Begins

LEMMA EnterTopBegins ==
  ASSUME IInv, EnterTop
  PROVE  Begins
<1>1. SinkTypeOK /\ vm = <<>> /\ enter /\ ~finished' /\ Len(frames) < MaxFrames
  BY DEF IInv, EnterTop
<1>2. vm \in Seq(VmFrame) /\ vm' = Append(vm, NewVmFrame)
  BY <1>1 DEF EnterTop, SinkTypeOK
<1>3. history' = Append(history, Called(Len(frames) + 1, IF vm = <<>> THEN 0 ELSE Running.depth))
  BY <1>1 DEF EnterTop
<1> QED BY <1>1, <1>2, <1>3, EnterBegins

LEMMA EnterNestedBegins ==
  ASSUME IInv, OrderInv, EnterNested
  PROVE  Begins
<1>1. /\ SinkTypeOK /\ vm # <<>> /\ Running.phase = "syscall" /\ enter
      /\ finished' = finished /\ Len(frames) < MaxFrames
  BY DEF IInv, EnterNested, InPhase
<1>2. PICK fr \in VmFrame : /\ fr = [Running EXCEPT !.opened = TRUE]
                            /\ fr.id = Running.id /\ fr.trace = Running.trace
                            /\ fr.depth = Running.depth /\ fr.phase = Running.phase
  <2>1. PICK r \in VmFrame : r = Running
    BY <1>1, RunningFacts
  <2>2. PICK e : e = [r EXCEPT !.opened = TRUE]
    OBVIOUS
  <2>3. e \in VmFrame /\ e.id = r.id /\ e.trace = r.trace /\ e.depth = r.depth /\ e.phase = r.phase
    BY <2>2 DEF VmFrame
  <2> QED BY <2>1, <2>2, <2>3
<1>3. PICK base : base = [vm EXCEPT ![Len(vm)] = fr]
  OBVIOUS
<1>4. /\ base \in Seq(VmFrame) /\ Len(base) = Len(vm)
      /\ \A i \in 1..Len(vm) : base[i] = IF i = Len(vm) THEN fr ELSE vm[i]
  BY <1>1, <1>3, WithLastFacts DEF SinkTypeOK
<1>5. \A i \in 1..Len(vm) : /\ base[i].id = vm[i].id /\ base[i].trace = vm[i].trace
                            /\ base[i].depth = vm[i].depth /\ base[i].phase = vm[i].phase
  BY <1>1, <1>2, <1>4, RunningFacts
<1>6. vm' = Append(base, NewVmFrame)
  BY <1>2, <1>3 DEF EnterNested, WithRunning
<1>7. history' = Append(history, Called(Len(frames) + 1, IF vm = <<>> THEN 0 ELSE Running.depth))
  BY <1>1 DEF EnterNested
<1>8. ~finished'
  BY <1>1 DEF OrderInv, EndedEmpty
<1> QED BY <1>1, <1>4, <1>5, <1>6, <1>7, <1>8, EnterBegins

LEMMA ExecuteExecutes ==
  ASSUME IInv, NEW op \in Op, Execute(op)
  PROVE  Executes(op)
<1>1. SinkTypeOK /\ vm # <<>> /\ Running.phase # "leaving" /\ Executed < MaxSteps
  BY DEF IInv, Execute, InPhase
<1>2. PICK n \in Nat \ {0} : n = Len(vm)
  BY <1>1, RunningFacts
<1>3. PICK r \in VmFrame : r = Running /\ r = vm[n]
  BY <1>1, <1>2, RunningFacts
<1>4. PICK d \in Nat : d = DepthAfter(op, r.depth)
  <2>1. r.depth \in Nat
    BY DEF VmFrame
  <2> QED BY <2>1 DEF DepthAfter
<1>5. PICK p \in {"halted", "run"} : p = IF op = "ret" /\ r.depth = 0 THEN "halted" ELSE "run"
  OBVIOUS
<1>6. PICK trace \in Seq(Op) : trace = Append(r.trace, op)
  <2>1. PICK t \in Seq(Op) : t = r.trace
    BY DEF VmFrame
  <2>2. Append(t, op) \in Seq(Op)
    OBVIOUS
  <2> QED BY <2>1, <2>2
<1>7. PICK fr : fr = [r EXCEPT !.trace = trace, !.depth = d, !.phase = p]
  OBVIOUS
<1>8. fr \in VmFrame /\ fr.id = r.id /\ fr.trace = trace /\ fr.depth = d /\ fr.phase = p
  BY <1>7 DEF VmFrame
<1>9. vm' = [vm EXCEPT ![n] = fr]
  <2>1. d = CASE op = "call" -> r.depth + 1
              [] op = "ret" /\ r.depth > 0 -> r.depth - 1
              [] OTHER -> r.depth
    BY <1>4 DEF DepthAfter
  <2> QED BY <1>2, <1>3, <1>5, <1>6, <1>7, <2>1 DEF Execute, WithRunning
<1>10. Len(vm') = n /\ \A i \in 1..n : vm'[i] = IF i = n THEN fr ELSE vm[i]
  BY <1>1, <1>2, <1>8, <1>9, WithLastFacts DEF SinkTypeOK
<1>11. \A i \in 1..n - 1 : vm'[i] = vm[i]
  BY <1>10
<1>12. history' = Append(history, Stepped(r.id, Len(r.trace), r.depth)) /\ UNCHANGED <<finished, frames>>
  BY <1>3 DEF Execute
<1>13. vm'[n] = fr
  BY <1>10
<1> QED BY <1>1, <1>2, <1>3, <1>4, <1>5, <1>6, <1>8, <1>10, <1>11, <1>12, <1>13 DEF Executes

LEMMA LeaveFrameLeaves ==
  ASSUME IInv, LeaveFrame
  PROVE  Leaves
<1>1. SinkTypeOK /\ SinkFollowsVm /\ vm # <<>> /\ Running.phase = "leaving"
  BY DEF IInv, LeaveFrame, InPhase
<1>2. PICK n \in Nat : n = Len(vm) - 1 /\ Len(vm) = n + 1
  BY <1>1, RunningFacts
<1>3. PICK id \in 1..Len(frames) : id = Running.id /\ Running = vm[n + 1]
  BY <1>1, <1>2, RunningFacts DEF SinkFollowsVm
<1>4. Len(vm') = n /\ \A i \in 1..n : vm'[i] = vm[i]
  <2>1. vm' = Outer(vm) /\ vm \in Seq(VmFrame)
    BY <1>1 DEF LeaveFrame, SinkTypeOK
  <2> QED BY <1>1, <1>2, <2>1, OuterFacts
<1>5. /\ Len(frames') = Len(frames)
      /\ \A k \in 1..Len(frames) : SameNote(k) /\ frames'[k].steps = frames[k].steps
  <2>1. PICK error \in BOOLEAN : error = Running.error
    BY <1>1, RunningFacts DEF VmFrame
  <2>2. frames \in Seq(NotedFrame) /\ frames[id] \in NotedFrame
    BY <1>1 DEF SinkTypeOK
  <2>3. PICK noted : noted = [frames[id] EXCEPT !.error = error]
    OBVIOUS
  <2>4. /\ noted \in NotedFrame /\ noted.parent = frames[id].parent
        /\ noted.parent_step = frames[id].parent_step /\ noted.steps = frames[id].steps
    BY <2>2, <2>3 DEF NotedFrame
  <2>5. frames' = [frames EXCEPT ![id] = noted]
    BY <1>3, <2>1, <2>3 DEF LeaveFrame, exit
  <2> QED BY <2>2, <2>4, <2>5 DEF SameNote
<1>6. history' = Append(history, Returned(id)) /\ UNCHANGED finished
  BY <1>3 DEF LeaveFrame
<1> QED BY <1>1, <1>2, <1>3, <1>4, <1>5, <1>6 DEF Leaves

-----------------------------------------------------------------------------
(***************************************************************************)
(* What had happened stays so, and an event adds itself to it.             *)
(***************************************************************************)
LEMMA PastStays ==
  ASSUME history' = history
  PROVE  /\ \A q : \A kind, k : Did(kind, k, q)' <=> Did(kind, k, q)
         /\ \A q, k : IsOpen(k, q)' <=> IsOpen(k, q)
         /\ \A q : \A k, i : Ran(k, i, q)' <=> Ran(k, i, q)
BY DEF Did, Ran, IsOpen

LEMMA PastGrows ==
  ASSUME IInv, NEW e \in VmEvent, history' = Append(history, e), NEW N \in Nat, N = Len(history)
  PROVE  /\ Len(history') = N + 1 /\ history'[N + 1] = e
         /\ \A a \in 1..N : history'[a] = history[a]
         /\ \A q \in 0..N : \A kind, k : Did(kind, k, q)' <=> Did(kind, k, q)
         /\ \A q \in 0..N : \A k : IsOpen(k, q)' <=> IsOpen(k, q)
         /\ \A q \in 0..N : \A k, i : Ran(k, i, q)' <=> Ran(k, i, q)
         /\ \A kind, k : Did(kind, k, N + 1)' <=> Did(kind, k, N) \/ (e.kind = kind /\ e.frame = k)
         /\ \A k, i : Ran(k, i, N + 1)' <=>
                        Ran(k, i, N) \/ (e.kind = "step" /\ e.frame = k /\ e.index = i)
<1>1. /\ Len(history') = N + 1 /\ history'[N + 1] = e
      /\ \A a \in 1..N : history'[a] = history[a]
  BY AppendFacts DEF IInv, SinkTypeOK
<1>2. \A q \in 0..N : \A a \in 1..q : history'[a] = history[a]
  BY <1>1
<1>3. \A q \in 0..N : \A kind, k : Did(kind, k, q)' <=> Did(kind, k, q)
  BY <1>2 DEF Did
<1>4. \A q \in 0..N : \A k, i : Ran(k, i, q)' <=> Ran(k, i, q)
  BY <1>2 DEF Ran
<1>5. \A a : a \in 1..N + 1 <=> a \in 1..N \/ a = N + 1
  OBVIOUS
<1>6. \A kind, k : Did(kind, k, N + 1)' <=> Did(kind, k, N) \/ (e.kind = kind /\ e.frame = k)
  BY <1>1, <1>5 DEF Did
<1>7. \A k, i : Ran(k, i, N + 1)' <=>
                  Ran(k, i, N) \/ (e.kind = "step" /\ e.frame = k /\ e.index = i)
  BY <1>1, <1>5 DEF Ran
<1> QED BY <1>1, <1>3, <1>4, <1>6, <1>7 DEF IsOpen

(* Only frames that are noted are known to the history. *)
LEMMA PastIsNoted ==
  ASSUME IInv, NEW q \in Nat, q <= Len(history)
  PROVE  /\ \A kind, k : Did(kind, k, q) => k \in 1..Len(frames)
         /\ \A k, i : Ran(k, i, q) => k \in 1..Len(frames)
<1>1. \A a \in 1..q : history[a].frame \in 1..Len(frames)
  BY VmFacts
<1> QED BY <1>1 DEF Did, Ran

LEMMA GrowsInOrder ==
  ASSUME IInv, OrderInv, NEW e \in VmEvent, history' = Append(history, e),
         NEW n \in Nat, n = Len(vm), NEW m \in Nat, m = Len(frames),
         \A k \in 1..m : frames'[k].parent = frames[k].parent,
         IF e.kind = "call"
           THEN Len(frames') = m + 1 /\ e.frame = m + 1
                /\ frames'[m + 1].parent = IF n = 0 THEN NoParent ELSE vm[n].id
           ELSE Len(frames') = m /\ n # 0 /\ e.frame = vm[n].id,
         e.index = IF e.kind = "step" THEN Len(vm[n].trace) ELSE 0
  PROVE  CallsInOrder' /\ InnermostActs' /\ StepsInOrder' /\ EventIndexes'
<1>1. PICK N \in Nat : N = Len(history)
  BY VmFacts
<1>f. PICK f : f = IF n = 0 THEN NoParent ELSE vm[n].id
  OBVIOUS
<1>2. Len(history') = N + 1 /\ history'[N + 1] = e /\ \A a \in 1..N : history'[a] = history[a]
  BY <1>1, PastGrows
<1>3. \A q \in 0..N : \A kind, k : Did(kind, k, q)' <=> Did(kind, k, q)
  BY <1>1, PastGrows
<1>4. \A q \in 0..N : \A k : IsOpen(k, q)' <=> IsOpen(k, q)
  BY <1>1, PastGrows
<1>5. \A q \in 0..N : \A k, i : Ran(k, i, q)' <=> Ran(k, i, q)
  BY <1>1, PastGrows
<1>6. \A kind, k : Did(kind, k, N + 1)' <=> Did(kind, k, N) \/ (e.kind = kind /\ e.frame = k)
  BY <1>1, PastGrows
<1>7. \A q \in 0..N : \A kind, k : Did(kind, k, q) => k \in 1..m
  BY <1>1, PastIsNoted
<1>8. \A k \in 1..Len(frames') : k \in 1..m \/ (k = m + 1 /\ e.kind = "call")
  OBVIOUS
<1>9. \A a \in 1..N : a - 1 \in 0..N /\ history[a].frame \in 1..m /\ history[a].index \in Nat
  BY <1>1, VmFacts
<1>10. CallsInOrder'
  <2>1. ASSUME NEW k \in 1..Len(frames') PROVE Did("call", k, N + 1)'
    <3>1. k \in 1..m => Did("call", k, N)
      BY <1>1 DEF OrderInv, CallsInOrder
    <3> QED BY <1>6, <1>8, <3>1
  <2>2. ASSUME NEW a \in 1..N, history[a].kind = "call", NEW k \in 1..Len(frames')
        PROVE  k < history[a].frame <=> Did("call", k, a - 1)'
    <3>1. CASE k \in 1..m
      BY <1>1, <1>3, <1>9, <2>2, <3>1 DEF OrderInv, CallsInOrder
    <3>2. CASE k = m + 1
      <4>1. ~Did("call", k, a - 1)
        BY <1>7, <1>9, <3>2
      <4> QED BY <1>3, <1>9, <3>2, <4>1
    <3> QED BY <1>8, <3>1, <3>2
  <2>3. ASSUME e.kind = "call", NEW k \in 1..Len(frames')
        PROVE  k < e.frame <=> Did("call", k, N)'
    <3>1. k \in 1..m => Did("call", k, N)
      BY <1>1 DEF OrderInv, CallsInOrder
    <3>2. k = m + 1 => ~Did("call", k, N)
      BY <1>7
    <3> QED BY <1>3, <1>8, <2>3, <3>1, <3>2
  <2>4. ASSUME NEW a \in 1..N + 1, history'[a].kind = "call", NEW k \in 1..Len(frames')
        PROVE  k < history'[a].frame <=> Did("call", k, a - 1)'
    <3>1. CASE a \in 1..N
      BY <1>2, <2>2, <2>4, <3>1
    <3>2. CASE a = N + 1
      <4>1. a - 1 = N
        BY <3>2
      <4> QED BY <1>2, <2>3, <2>4, <3>2, <4>1 DEF Did
    <3>3. a \in 1..N \/ a = N + 1
      OBVIOUS
    <3> QED BY <3>1, <3>2, <3>3
  <2> QED BY <1>2, <2>1, <2>4 DEF CallsInOrder
<1>11. InnermostActs'
  <2>1. \A a \in 1..N : ActsIn(a)' = ActsIn(a)
    BY <1>2, <1>9 DEF ActsIn
  <2>2. ActsIn(N + 1)' = f
    BY <1>2, <1>f DEF ActsIn
  <2>3. n # 0 => f = vm[n].id /\ f \in 1..m /\ n \in 1..Len(vm)
    BY <1>f, VmFacts
  <2>4. ASSUME NEW a \in 1..N + 1
        PROVE  ActsIn(a)' = NoParent \/ IsOpen(ActsIn(a), a - 1)'
    <3>0. a \in 1..N \/ a = N + 1
      OBVIOUS
    <3>1. CASE a \in 1..N
      <4>1. ActsIn(a) = NoParent \/ IsOpen(ActsIn(a), a - 1)
        BY <1>1, <3>1 DEF OrderInv, InnermostActs
      <4>3. PICK x : x = ActsIn(a) /\ x = ActsIn(a)'
        BY <2>1, <3>1
      <4>4. IsOpen(x, a - 1)' <=> IsOpen(x, a - 1)
        BY <1>4, <1>9, <3>1
      <4> QED BY <4>1, <4>3, <4>4 DEF IsOpen, Did
    <3>2. CASE a = N + 1
      <4>1. n # 0 => IsOpen(f, N)
        BY <1>1, <2>3 DEF OrderInv, OpenRuns
      <4>2. n # 0 => IsOpen(f, N)'
        BY <1>4, <4>1
      <4>3. a - 1 = N
        BY <3>2
      <4>4. ActsIn(a)' = f
        BY <2>2, <3>2
      <4>5. f = NoParent \/ n # 0
        BY <1>f
      <4>6. f # NoParent => IsOpen(ActsIn(a), a - 1)'
        BY <4>2, <4>3, <4>4, <4>5 DEF IsOpen, Did
      <4> QED BY <4>4, <4>6
    <3> QED BY <3>0, <3>1, <3>2
  <2>5. ASSUME NEW a \in 1..N + 1, NEW g \in 1..Len(frames'), IsOpen(g, a - 1)'
        PROVE  ActsIn(a)' # NoParent /\ g <= ActsIn(a)'
    <3>1. a - 1 \in 0..N
      OBVIOUS
    <3>2. IsOpen(g, a - 1)
      BY <1>4, <2>5, <3>1
    <3>3. g \in 1..m
      BY <1>7, <3>1, <3>2 DEF IsOpen
    <3>4. CASE a \in 1..N
      BY <1>1, <2>1, <3>2, <3>3, <3>4 DEF OrderInv, InnermostActs
    <3>5. CASE a = N + 1
      <4>1. PICK i \in 1..n : vm[i].id = g
        BY <1>1, <3>2, <3>3, <3>5 DEF OrderInv, OpenRuns
      <4>2. n # 0 /\ f = vm[n].id /\ f \in Nat /\ f # NoParent
        BY <2>3, <4>1, NoParentAssumption
      <4>3. i = n \/ i < n
        OBVIOUS
      <4>4. g <= f
        BY <2>3, <4>1, <4>2, <4>3 DEF IInv, IdsIncrease
      <4> QED BY <2>2, <3>5, <4>2, <4>4
    <3> QED BY <3>4, <3>5
  <2> QED BY <1>2, <2>4, <2>5 DEF InnermostActs
<1>12. StepsInOrder'
  <2> SUFFICES ASSUME NEW a \in 1..N + 1, history'[a].kind = "step", NEW j \in Nat
               PROVE  j < history'[a].index <=> Ran(history[a].frame, j, a - 1)'
    BY <1>2 DEF StepsInOrder
  <2>0. a \in 1..N \/ a = N + 1
    OBVIOUS
  <2>1. CASE a \in 1..N
    <3>1. PICK x : x = history[a].frame /\ x = history'[a].frame
      BY <1>2, <2>1
    <3>2. j < history[a].index <=> Ran(x, j, a - 1)
      BY <1>1, <1>2, <2>1, <3>1 DEF OrderInv, StepsInOrder
    <3>3. Ran(x, j, a - 1)' <=> Ran(x, j, a - 1)
      BY <1>5, <1>9, <2>1
    <3>4. Ran(history[a].frame, j, a - 1)' <=> Ran(x, j, a - 1)'
      BY <3>1 DEF Ran
    <3> QED BY <1>2, <2>1, <3>2, <3>3, <3>4
  <2>2. CASE a = N + 1
    <3>1. n # 0 /\ e.index = Len(vm[n].trace) /\ e.frame = vm[n].id /\ a - 1 = N
      BY <1>2, <2>2
    <3>2. j < Len(vm[n].trace) <=> Ran(vm[n].id, j, N)
      BY <1>1, <3>1 DEF OrderInv, RunningTraces
    <3>3. PICK x : x = vm[n].id
      OBVIOUS
    <3>4. Ran(x, j, N)' <=> Ran(x, j, N)
      BY <1>5
    <3>5. Ran(history[a].frame, j, a - 1)' <=> Ran(x, j, N)'
      BY <1>2, <2>2, <3>1, <3>3 DEF Ran
    <3> QED BY <1>2, <2>2, <3>1, <3>2, <3>3, <3>4, <3>5
  <2> QED BY <2>0, <2>1, <2>2
<1>13. EventIndexes'
  <2>1. \A a \in 1..N + 1 : a \in 1..N \/ a = N + 1
    OBVIOUS
  <2>2. EventIndexes
    BY DEF OrderInv
  <2>3. \A a \in 1..N : history'[a].kind # "step" => history'[a].index = 0
    BY <1>1, <1>2, <2>2 DEF EventIndexes
  <2> QED BY <1>2, <2>1, <2>3 DEF EventIndexes
<1> QED BY <1>10, <1>11, <1>12, <1>13

-----------------------------------------------------------------------------
(***************************************************************************)
(* How many instructions were executed.                                    *)
(***************************************************************************)
StepsBy(q) == {j \in 1..q : history[j].kind = "step"}

LEMMA StepsCount ==
  ASSUME NEW q \in Nat
  PROVE  IsFiniteSet(StepsBy(q)) /\ Cardinality(StepsBy(q)) \in Nat
<1>1. IsFiniteSet(1..q)
  BY FS_Interval
<1>2. StepsBy(q) \subseteq 1..q
  BY DEF StepsBy
<1> QED BY <1>1, <1>2, FS_Subset, FS_CardinalityType

LEMMA OneMoreStep ==
  ASSUME NEW q \in Nat
  PROVE  Cardinality(StepsBy(q + 1)) =
           IF history[q + 1].kind = "step" THEN Cardinality(StepsBy(q)) + 1
                                           ELSE Cardinality(StepsBy(q))
<1>1. \A j : j \in 1..q + 1 <=> j \in 1..q \/ j = q + 1
  OBVIOUS
<1>2. CASE history[q + 1].kind = "step"
  <2>1. StepsBy(q + 1) = StepsBy(q) \cup {q + 1}
    BY <1>1, <1>2 DEF StepsBy
  <2>2. q + 1 \notin StepsBy(q)
    BY DEF StepsBy
  <2>3. IsFiniteSet(StepsBy(q))
    BY StepsCount
  <2>4. Cardinality(StepsBy(q) \cup {q + 1}) = Cardinality(StepsBy(q)) + 1
    BY <2>2, <2>3, FS_AddElement
  <2> QED BY <1>2, <2>1, <2>4
<1>3. CASE history[q + 1].kind # "step"
  <2>1. StepsBy(q + 1) = StepsBy(q)
    BY <1>1, <1>3 DEF StepsBy
  <2> QED BY <1>3, <2>1
<1> QED BY <1>2, <1>3

LEMMA ExecutedGrows ==
  ASSUME IInv, NEW e \in VmEvent, history' = Append(history, e)
  PROVE  Executed \in Nat /\ Executed' = IF e.kind = "step" THEN Executed + 1 ELSE Executed
<1>1. PICK N \in Nat : N = Len(history)
  BY VmFacts
<1>2. Len(history') = N + 1 /\ history'[N + 1] = e /\ \A a \in 1..N : history'[a] = history[a]
  BY <1>1, PastGrows
<1>3. Executed = Cardinality(StepsBy(N)) /\ Executed \in Nat
  BY <1>1, StepsCount DEF Executed, StepsBy
<1>4. Executed' = Cardinality({j \in 1..N + 1 : history'[j].kind = "step"})
  BY <1>2 DEF Executed
<1>5. \A j : j \in 1..N + 1 <=> j \in 1..N \/ j = N + 1
  OBVIOUS
<1>6. IsFiniteSet(StepsBy(N)) /\ N + 1 \notin StepsBy(N)
  BY StepsCount DEF StepsBy
<1>7. CASE e.kind = "step"
  <2>1. {j \in 1..N + 1 : history'[j].kind = "step"} = StepsBy(N) \cup {N + 1}
    BY <1>2, <1>5, <1>7 DEF StepsBy
  <2>2. Cardinality(StepsBy(N) \cup {N + 1}) = Cardinality(StepsBy(N)) + 1
    BY <1>6, FS_AddElement
  <2> QED BY <1>3, <1>4, <1>7, <2>1, <2>2
<1>8. CASE e.kind # "step"
  <2>1. {j \in 1..N + 1 : history'[j].kind = "step"} = StepsBy(N)
    BY <1>2, <1>5, <1>8 DEF StepsBy
  <2> QED BY <1>3, <1>4, <1>8, <2>1
<1> QED BY <1>7, <1>8

-----------------------------------------------------------------------------
(***************************************************************************)
(* Each kind of step keeps the order.                                      *)
(***************************************************************************)
LEMMA QuietKeepsOrder ==
  ASSUME IInv, OrderInv, Quiet
  PROVE  OrderInv'
<1>1. /\ history' = history
      /\ Len(vm') = Len(vm) /\ \A i \in 1..Len(vm) : SameRun(i)
      /\ Len(frames') = Len(frames) /\ \A k \in 1..Len(frames) : SameNote(k)
  BY DEF Quiet
<1>2. \A q : \A kind, k : Did(kind, k, q)' <=> Did(kind, k, q)
  BY <1>1, PastStays
<1>3. \A q, k : IsOpen(k, q)' <=> IsOpen(k, q)
  BY <1>1, PastStays
<1>4. \A q : \A k, i : Ran(k, i, q)' <=> Ran(k, i, q)
  BY <1>1, PastStays
<1>5. CallsInOrder'
  BY <1>1, <1>2 DEF OrderInv, CallsInOrder
<1>6. InnermostActs'
  <2>1. \A a \in 1..Len(history) : ActsIn(a)' = ActsIn(a)
    BY <1>1, VmFacts DEF ActsIn, SameNote
  <2> SUFFICES ASSUME NEW a \in 1..Len(history)
               PROVE  /\ ActsIn(a)' = NoParent \/ IsOpen(ActsIn(a), a - 1)'
                      /\ \A g \in 1..Len(frames) :
                           IsOpen(g, a - 1)' => ActsIn(a)' # NoParent /\ g <= ActsIn(a)'
    BY <1>1 DEF InnermostActs
  <2>2. /\ ActsIn(a) = NoParent \/ IsOpen(ActsIn(a), a - 1)
        /\ \A g \in 1..Len(frames) : IsOpen(g, a - 1) => ActsIn(a) # NoParent /\ g <= ActsIn(a)
    BY DEF OrderInv, InnermostActs
  <2>3. PICK x : x = ActsIn(a) /\ x = ActsIn(a)'
    BY <2>1
  <2>4. IsOpen(x, a - 1)' <=> IsOpen(x, a - 1)
    BY <1>3
  <2>5. IsOpen(ActsIn(a), a - 1)' <=> IsOpen(x, a - 1)'
    BY <2>3 DEF IsOpen, Did
  <2> QED BY <1>3, <2>2, <2>3, <2>4, <2>5
<1>7. StepsInOrder'
  BY <1>1 DEF OrderInv, StepsInOrder, Ran
<1>8. OpenRuns'
  BY <1>1, <1>3 DEF OrderInv, OpenRuns, SameRun
<1>9. RunningTraces'
  BY <1>1 DEF OrderInv, RunningTraces, SameRun, Ran
<1>10. NotedTraces'
  <2> SUFFICES ASSUME NEW k \in 1..Len(frames), ~IsOpen(k, Len(history)), NEW j \in Nat
               PROVE  j < Len(frames'[k].steps) <=> Ran(k, j, Len(history))
    BY <1>1, <1>3, <1>4 DEF NotedTraces
  <2>1. frames'[k].steps = frames[k].steps
    BY DEF Quiet, OrderInv, OpenRuns
  <2> QED BY <2>1 DEF OrderInv, NotedTraces
<1>11. SpliceNoted'
  BY <1>1 DEF OrderInv, SpliceNoted, SameNote
<1>12. EventIndexes'
  BY <1>1 DEF OrderInv, EventIndexes
<1>13. WithinBounds'
  BY <1>1 DEF OrderInv, WithinBounds, SameRun, Executed
<1> QED BY <1>5, <1>6, <1>7, <1>8, <1>9, <1>10, <1>11, <1>12, <1>13
        DEF OrderInv, EndedEmpty, Quiet

LEMMA BeginsKeepsOrder ==
  ASSUME IInv, OrderInv, Begins
  PROVE  OrderInv'
<1>1. PICK n \in Nat : n = Len(vm)
  BY VmFacts
<1>2. PICK m \in Nat : m = Len(frames)
  BY VmFacts
<1>3. PICK N \in Nat : N = Len(history)
  BY VmFacts
<1>4. PICK d \in Nat : d = IF n = 0 THEN 0 ELSE vm[n].depth
  BY <1>1, VmFacts
<1>5. PICK e \in VmEvent : /\ history' = Append(history, e)
                           /\ e.kind = "call" /\ e.frame = m + 1 /\ e.index = 0
  <2>1. PICK x : x = Called(m + 1, d)
    OBVIOUS
  <2>2. x \in VmEvent /\ x.kind = "call" /\ x.frame = m + 1 /\ x.index = 0
    BY <2>1 DEF Called, VmEvent, Id
  <2> QED BY <1>1, <1>2, <1>4, <2>1, <2>2 DEF Begins
<1>6. /\ Len(vm') = n + 1 /\ \A i \in 1..n : SameRun(i) /\ vm'[i].phase = vm[i].phase
      /\ vm'[n + 1].id = m + 1 /\ vm'[n + 1].trace = <<>> /\ vm'[n + 1].phase = "entered"
  BY <1>1, <1>2 DEF Begins, NewVmFrame
<1>7. /\ Len(frames') = m + 1 /\ \A k \in 1..m : frames'[k] = frames[k]
      /\ frames'[m + 1].parent = IF n = 0 THEN NoParent ELSE vm[n].id
      /\ n # 0 => frames'[m + 1].parent_step = Len(vm[n].trace)
      /\ frames'[m + 1].steps = <<>>
  BY <1>1, <1>2 DEF Begins
<1>8. CallsInOrder' /\ InnermostActs' /\ StepsInOrder' /\ EventIndexes'
  BY <1>1, <1>2, <1>5, <1>7, GrowsInOrder
<1>9. Len(history') = N + 1 /\ \A a \in 1..N : history'[a] = history[a]
  BY <1>3, <1>5, PastGrows
<1>10. \A kind, k : Did(kind, k, N + 1)' <=> Did(kind, k, N) \/ (kind = "call" /\ k = m + 1)
  BY <1>3, <1>5, PastGrows
<1>11. \A k, i : Ran(k, i, N + 1)' <=> Ran(k, i, N)
  BY <1>3, <1>5, PastGrows
<1>12. /\ \A kind, k : Did(kind, k, N) => k \in 1..m
       /\ \A k, i : Ran(k, i, N) => k \in 1..m
  BY <1>2, <1>3, PastIsNoted
<1>13. \A k : IsOpen(k, N + 1)' <=> IsOpen(k, N) \/ k = m + 1
  BY <1>10, <1>12 DEF IsOpen
<1>14. \A k \in 1..m + 1 : k \in 1..m \/ k = m + 1
  OBVIOUS
<1>15. \A i \in 1..n + 1 : i \in 1..n \/ i = n + 1
  OBVIOUS
<1>16. \A i \in 1..n : /\ vm'[i].id = vm[i].id /\ vm'[i].trace = vm[i].trace
                       /\ vm'[i].id \in 1..m
  BY <1>1, <1>2, <1>6, VmFacts DEF SameRun
<1>17. OpenRuns'
  <2>1. ASSUME NEW k \in 1..m
        PROVE  IsOpen(k, N + 1)' <=> \E i \in 1..n + 1 : vm'[i].id = k
    <3>1. IsOpen(k, N) <=> \E i \in 1..n : vm[i].id = k
      BY <1>1, <1>2, <1>3 DEF OrderInv, OpenRuns
    <3>2. (\E i \in 1..n : vm[i].id = k) <=> \E i \in 1..n + 1 : vm'[i].id = k
      BY <1>6, <1>15, <1>16
    <3> QED BY <1>13, <3>1, <3>2
  <2>2. \E i \in 1..n + 1 : vm'[i].id = m + 1
    BY <1>6
  <2> QED BY <1>6, <1>7, <1>9, <1>13, <1>14, <2>1, <2>2 DEF OpenRuns
<1>18. RunningTraces'
  <2> SUFFICES ASSUME NEW i \in 1..n + 1, NEW j \in Nat
               PROVE  j < Len(vm'[i].trace) <=> Ran(vm[i].id, j, N + 1)'
    BY <1>6, <1>9 DEF RunningTraces
  <2>1. CASE i \in 1..n
    <3>1. PICK x : x = vm[i].id /\ x = vm'[i].id
      BY <1>16, <2>1
    <3>2. j < Len(vm[i].trace) <=> Ran(x, j, N)
      BY <1>1, <1>3, <2>1, <3>1 DEF OrderInv, RunningTraces
    <3>3. Ran(vm[i].id, j, N + 1)' <=> Ran(x, j, N + 1)'
      BY <3>1 DEF Ran
    <3> QED BY <1>11, <1>16, <2>1, <3>2, <3>3
  <2>2. CASE i = n + 1
    <3>1. PICK x : x = m + 1
      OBVIOUS
    <3>2. ~Ran(x, j, N)
      BY <1>12, <3>1
    <3>3. Ran(vm[i].id, j, N + 1)' <=> Ran(x, j, N + 1)'
      BY <1>6, <2>2, <3>1 DEF Ran
    <3>4. Len(vm'[i].trace) = 0
      BY <1>6, <2>2
    <3> QED BY <1>11, <3>2, <3>3, <3>4
  <2> QED BY <1>15, <2>1, <2>2
<1>19. NotedTraces'
  <2> SUFFICES ASSUME NEW k \in 1..m + 1, ~IsOpen(k, N + 1)', NEW j \in Nat
               PROVE  j < Len(frames'[k].steps) <=> Ran(k, j, N + 1)'
    BY <1>7, <1>9 DEF NotedTraces
  <2>1. k \in 1..m /\ ~IsOpen(k, N)
    BY <1>13, <1>14
  <2> QED BY <1>2, <1>3, <1>7, <1>11, <2>1 DEF OrderInv, NotedTraces
<1>20. PhaseSteps'
  <2> SUFFICES ASSUME NEW i \in 1..n + 1
               PROVE  /\ vm'[i].phase = "entered" => vm'[i].trace = <<>>
                      /\ frames'[vm'[i].id].steps =
                           IF vm'[i].phase = "leaving" THEN vm'[i].trace ELSE <<>>
    BY <1>6 DEF PhaseSteps
  <2>1. CASE i \in 1..n
    BY <1>1, <1>6, <1>7, <1>16, <2>1 DEF OrderInv, PhaseSteps
  <2>2. CASE i = n + 1
    BY <1>6, <1>7, <2>2
  <2> QED BY <1>15, <2>1, <2>2
<1>21. SpliceNoted'
  <2> SUFFICES ASSUME NEW k \in 1..m + 1, frames'[k].parent # NoParent
               PROVE  frames'[k].parent_step \in Nat
    BY <1>7 DEF SpliceNoted
  <2>1. CASE k \in 1..m
    BY <1>2, <1>7, <2>1 DEF OrderInv, SpliceNoted
  <2>2. CASE k = m + 1
    BY <1>1, <1>7, <2>2, VmFacts
  <2> QED BY <1>14, <2>1, <2>2
<1>22. EndedEmpty'
  BY DEF Begins, EndedEmpty
<1>23. WithinBounds'
  <2>1. Executed' = Executed /\ Executed \in Nat
    BY <1>5, ExecutedGrows
  <2>2. m + 1 <= MaxFrames
    BY <1>2, BoundsAssumption DEF Begins
  <2>3. Executed <= MaxSteps
    BY DEF OrderInv, WithinBounds
  <2>4. ASSUME NEW i \in 1..n + 1 PROVE Len(vm'[i].trace) <= Executed
    <3>1. CASE i \in 1..n
      BY <1>1, <1>16, <3>1 DEF OrderInv, WithinBounds
    <3>2. CASE i = n + 1
      BY <1>6, <2>1, <3>2
    <3> QED BY <1>15, <3>1, <3>2
  <2>5. ASSUME NEW a \in 1..N + 1 PROVE history'[a].index <= MaxSteps
    <3>1. CASE a \in 1..N
      BY <1>3, <1>9, <3>1 DEF OrderInv, WithinBounds
    <3>2. CASE a = N + 1
      <4>1. history'[N + 1] = e
        BY <1>3, <1>5, PastGrows
      <4> QED BY <1>5, <3>2, <4>1, BoundsAssumption
    <3> QED BY <3>1, <3>2
  <2> QED BY <1>6, <1>7, <1>9, <2>1, <2>2, <2>3, <2>4, <2>5 DEF WithinBounds
<1> QED BY <1>8, <1>17, <1>18, <1>19, <1>20, <1>21, <1>22, <1>23 DEF OrderInv

LEMMA ExecutesKeepsOrder ==
  ASSUME IInv, OrderInv, NEW op \in Op, Executes(op)
  PROVE  OrderInv'
<1>1. PICK n \in Nat \ {0} : n = Len(vm) /\ n \in 1..Len(vm)
  BY VmFacts DEF Executes
<1>2. PICK m \in Nat : m = Len(frames)
  BY VmFacts
<1>3. PICK N \in Nat : N = Len(history)
  BY VmFacts
<1>4. PICK id \in 1..m : id = vm[n].id
  BY <1>1, <1>2, VmFacts
<1>5. PICK t \in Nat : t = Len(vm[n].trace)
  BY <1>1, VmFacts
<1>6. PICK e \in VmEvent : /\ history' = Append(history, e)
                           /\ e.kind = "step" /\ e.frame = id /\ e.index = t
  <2>1. PICK d \in Nat : d = vm[n].depth
    BY <1>1, VmFacts
  <2>2. PICK x : x = Stepped(id, t, d)
    OBVIOUS
  <2>3. x \in VmEvent /\ x.kind = "step" /\ x.frame = id /\ x.index = t
    BY <2>2 DEF Stepped, VmEvent, Id
  <2> QED BY <1>1, <1>4, <1>5, <2>1, <2>2, <2>3 DEF Executes
<1>7. /\ Len(vm') = n /\ \A i \in 1..n - 1 : vm'[i] = vm[i]
      /\ vm'[n].id = id /\ vm'[n].trace = Append(vm[n].trace, op)
      /\ vm[n].phase # "leaving" /\ vm'[n].phase \in {"run", "halted"}
      /\ UNCHANGED <<finished, frames>> /\ Executed < MaxSteps
  BY <1>1, <1>4 DEF Executes
<1>8. Len(vm'[n].trace) = t + 1
  <2>1. vm[n].trace \in Seq(Op)
    BY <1>1, VmFacts
  <2> QED BY <1>5, <1>7, <2>1, AppendFacts
<1>9. CallsInOrder' /\ InnermostActs' /\ StepsInOrder' /\ EventIndexes'
  BY <1>1, <1>2, <1>4, <1>5, <1>6, <1>7, GrowsInOrder
<1>10. /\ Len(history') = N + 1 /\ history'[N + 1] = e
       /\ \A a \in 1..N : history'[a] = history[a]
  BY <1>3, <1>6, PastGrows
<1>11. \A kind, k : kind # "step" => (Did(kind, k, N + 1)' <=> Did(kind, k, N))
  BY <1>3, <1>6, PastGrows
<1>12. \A k, i : Ran(k, i, N + 1)' <=> Ran(k, i, N) \/ (k = id /\ i = t)
  <2>1. \A k, i : Ran(k, i, N + 1)' <=>
                    Ran(k, i, N) \/ (e.kind = "step" /\ e.frame = k /\ e.index = i)
    <3>1. history' = Append(history, e)
      BY <1>6
    <3> QED BY <1>3, <3>1, PastGrows
  <2>2. e.kind = "step" /\ e.frame = id /\ e.index = t
    BY <1>6
  <2> QED BY <2>1, <2>2
<1>13. \A k : IsOpen(k, N + 1)' <=> IsOpen(k, N)
  BY <1>11 DEF IsOpen
<1>14. \A i \in 1..n : i \in 1..n - 1 \/ i = n
  OBVIOUS
<1>15. \A i \in 1..n : vm'[i].id = vm[i].id
  BY <1>4, <1>7, <1>14
<1>16. \A i \in 1..n - 1 : vm[i].id # id
  <2> SUFFICES ASSUME NEW i \in 1..n - 1 PROVE vm[i].id # id
    OBVIOUS
  <2>1. i \in 1..Len(vm) /\ i < n
    BY <1>1
  <2>2. vm[i].id < id /\ vm[i].id \in Nat
    BY <1>1, <1>4, <2>1, VmFacts DEF IInv, IdsIncrease
  <2> QED BY <2>2
<1>17. OpenRuns'
  <2> SUFFICES ASSUME NEW k \in 1..m
               PROVE  IsOpen(k, N + 1)' <=> \E i \in 1..n : vm'[i].id = k
    BY <1>2, <1>7, <1>10 DEF OpenRuns
  <2>1. IsOpen(k, N) <=> \E i \in 1..n : vm[i].id = k
    BY <1>1, <1>2, <1>3 DEF OrderInv, OpenRuns
  <2> QED BY <1>13, <1>15, <2>1
<1>18. RunningTraces'
  <2> SUFFICES ASSUME NEW i \in 1..n, NEW j \in Nat
               PROVE  j < Len(vm'[i].trace) <=> Ran(vm[i].id, j, N + 1)'
    BY <1>7, <1>10 DEF RunningTraces
  <2>1. PICK x : x = vm[i].id /\ x = vm'[i].id
    BY <1>15
  <2>2. j < Len(vm[i].trace) <=> Ran(x, j, N)
    BY <1>1, <1>3, <2>1 DEF OrderInv, RunningTraces
  <2>3. Ran(vm[i].id, j, N + 1)' <=> Ran(x, j, N + 1)'
    BY <2>1 DEF Ran
  <2>4. CASE i = n
    <3>1. x = id /\ Len(vm'[i].trace) = t + 1 /\ (j < t <=> Ran(x, j, N))
      BY <1>4, <1>5, <1>8, <2>1, <2>2, <2>4
    <3>2. j < t + 1 <=> j < t \/ j = t
      OBVIOUS
    <3>3. Ran(x, j, N + 1)' <=> Ran(x, j, N) \/ j = t
      BY <1>12, <3>1
    <3> QED BY <2>3, <3>1, <3>2, <3>3
  <2>5. CASE i \in 1..n - 1
    BY <1>7, <1>12, <1>16, <2>1, <2>2, <2>3, <2>5
  <2> QED BY <1>14, <2>4, <2>5
<1>19. NotedTraces'
  <2> SUFFICES ASSUME NEW k \in 1..m, ~IsOpen(k, N + 1)', NEW j \in Nat
               PROVE  j < Len(frames[k].steps) <=> Ran(k, j, N + 1)'
    BY <1>2, <1>7, <1>10 DEF NotedTraces
  <2>1. ~IsOpen(k, N)
    BY <1>13
  <2>2. k # id
    BY <1>1, <1>2, <1>3, <1>4, <2>1 DEF OrderInv, OpenRuns
  <2> QED BY <1>2, <1>3, <1>12, <2>1, <2>2 DEF OrderInv, NotedTraces
<1>20. PhaseSteps'
  <2> SUFFICES ASSUME NEW i \in 1..n
               PROVE  /\ vm'[i].phase = "entered" => vm'[i].trace = <<>>
                      /\ frames[vm'[i].id].steps =
                           IF vm'[i].phase = "leaving" THEN vm'[i].trace ELSE <<>>
    BY <1>7 DEF PhaseSteps
  <2>1. CASE i \in 1..n - 1
    BY <1>1, <1>7, <2>1 DEF OrderInv, PhaseSteps
  <2>2. CASE i = n
    <3>1. frames[vm[n].id].steps = <<>>
      BY <1>1, <1>7 DEF OrderInv, PhaseSteps
    <3> QED BY <1>4, <1>7, <2>2, <3>1
  <2> QED BY <1>14, <2>1, <2>2
<1>21. SpliceNoted'
  BY <1>7 DEF OrderInv, SpliceNoted
<1>22. EndedEmpty'
  BY <1>1, <1>7, VmFacts DEF OrderInv, EndedEmpty
<1>23. WithinBounds'
  <2>1. Executed' = Executed + 1 /\ Executed \in Nat
    BY <1>6, ExecutedGrows
  <2>2. Executed + 1 <= MaxSteps
    BY <1>7, <2>1, BoundsAssumption
  <2>3. \A i \in 1..n : Len(vm[i].trace) <= Executed /\ Len(vm[i].trace) \in Nat
    BY <1>1, VmFacts DEF OrderInv, WithinBounds
  <2>4. ASSUME NEW i \in 1..n PROVE Len(vm'[i].trace) <= Executed + 1
    <3>1. CASE i = n
      BY <1>5, <1>8, <2>1, <2>3, <3>1
    <3>2. CASE i \in 1..n - 1
      BY <1>7, <2>1, <2>3, <3>2
    <3> QED BY <1>14, <3>1, <3>2
  <2>5. t <= MaxSteps
    BY <1>5, <2>1, <2>2, <2>3, BoundsAssumption
  <2>6. \A a \in 1..N + 1 : a \in 1..N \/ a = N + 1
    OBVIOUS
  <2>7. \A a \in 1..N + 1 : history'[a].index <= MaxSteps
    BY <1>3, <1>6, <1>10, <2>5, <2>6 DEF OrderInv, WithinBounds
  <2>8. Len(frames) <= MaxFrames
    BY DEF OrderInv, WithinBounds
  <2> QED BY <1>7, <1>10, <2>1, <2>2, <2>4, <2>7, <2>8 DEF WithinBounds
<1> QED BY <1>9, <1>17, <1>18, <1>19, <1>20, <1>21, <1>22, <1>23 DEF OrderInv

LEMMA LeavesKeepsOrder ==
  ASSUME IInv, OrderInv, Leaves
  PROVE  OrderInv'
<1>1. PICK n \in Nat \ {0} : n = Len(vm) /\ n \in 1..Len(vm)
  BY VmFacts DEF Leaves
<1>2. PICK m \in Nat : m = Len(frames)
  BY VmFacts
<1>3. PICK N \in Nat : N = Len(history)
  BY VmFacts
<1>4. PICK id \in 1..m : id = vm[n].id
  BY <1>1, <1>2, VmFacts
<1>5. PICK e \in VmEvent : /\ history' = Append(history, e)
                           /\ e.kind = "return" /\ e.frame = id /\ e.index = 0
  <2>1. PICK x : x = Returned(id)
    OBVIOUS
  <2>2. x \in VmEvent /\ x.kind = "return" /\ x.frame = id /\ x.index = 0
    BY <2>1 DEF Returned, VmEvent, Id
  <2> QED BY <1>1, <1>4, <2>1, <2>2 DEF Leaves
<1>6. /\ Len(vm') = n - 1 /\ \A i \in 1..n - 1 : vm'[i] = vm[i]
      /\ vm[n].phase = "leaving" /\ UNCHANGED finished
      /\ Len(frames') = m
      /\ \A k \in 1..m : SameNote(k) /\ frames'[k].steps = frames[k].steps
  BY <1>1, <1>2 DEF Leaves
<1>7. \A k \in 1..m : /\ frames'[k].parent = frames[k].parent
                      /\ frames'[k].parent_step = frames[k].parent_step
  BY <1>6 DEF SameNote
<1>8. CallsInOrder' /\ InnermostActs' /\ StepsInOrder' /\ EventIndexes'
  BY <1>1, <1>2, <1>4, <1>5, <1>6, <1>7, GrowsInOrder
<1>9. /\ Len(history') = N + 1 /\ history'[N + 1] = e
      /\ \A a \in 1..N : history'[a] = history[a]
  BY <1>3, <1>5, PastGrows
<1>10. \A kind, k : Did(kind, k, N + 1)' <=> Did(kind, k, N) \/ (kind = "return" /\ k = id)
  BY <1>3, <1>5, PastGrows
<1>11. \A k, i : Ran(k, i, N + 1)' <=> Ran(k, i, N)
  BY <1>3, <1>5, PastGrows
<1>12. \A k : IsOpen(k, N + 1)' <=> IsOpen(k, N) /\ k # id
  BY <1>10 DEF IsOpen
<1>13. \A i \in 1..n : i \in 1..n - 1 \/ i = n
  OBVIOUS
<1>14. \A i \in 1..n - 1 : vm[i].id # id
  <2> SUFFICES ASSUME NEW i \in 1..n - 1 PROVE vm[i].id # id
    OBVIOUS
  <2>1. i \in 1..Len(vm) /\ i < n
    BY <1>1
  <2>2. vm[i].id < id /\ vm[i].id \in Nat
    BY <1>1, <1>4, <2>1, VmFacts DEF IInv, IdsIncrease
  <2> QED BY <2>2
<1>15. OpenRuns'
  <2> SUFFICES ASSUME NEW k \in 1..m
               PROVE  IsOpen(k, N + 1)' <=> \E i \in 1..n - 1 : vm'[i].id = k
    BY <1>6, <1>9 DEF OpenRuns
  <2>1. IsOpen(k, N) <=> \E i \in 1..n : vm[i].id = k
    BY <1>1, <1>2, <1>3 DEF OrderInv, OpenRuns
  <2>2. (\E i \in 1..n : vm[i].id = k) /\ k # id <=> \E i \in 1..n - 1 : vm'[i].id = k
    BY <1>4, <1>6, <1>13, <1>14
  <2> QED BY <1>12, <2>1, <2>2
<1>16. RunningTraces'
  <2> SUFFICES ASSUME NEW i \in 1..n - 1, NEW j \in Nat
               PROVE  j < Len(vm'[i].trace) <=> Ran(vm[i].id, j, N + 1)'
    BY <1>6, <1>9 DEF RunningTraces
  <2>1. PICK x : x = vm[i].id /\ x = vm'[i].id
    BY <1>6
  <2>2. i \in 1..Len(vm)
    BY <1>1
  <2>3. j < Len(vm[i].trace) <=> Ran(x, j, N)
    BY <1>3, <2>1, <2>2 DEF OrderInv, RunningTraces
  <2>4. Ran(vm[i].id, j, N + 1)' <=> Ran(x, j, N + 1)'
    BY <2>1 DEF Ran
  <2> QED BY <1>6, <1>11, <2>3, <2>4
<1>17. NotedTraces'
  <2> SUFFICES ASSUME NEW k \in 1..m, ~IsOpen(k, N + 1)', NEW j \in Nat
               PROVE  j < Len(frames[k].steps) <=> Ran(k, j, N)
    BY <1>6, <1>9, <1>11 DEF NotedTraces
  <2>1. CASE k = id
    <3>1. frames[id].steps = vm[n].trace
      BY <1>1, <1>4, <1>6 DEF OrderInv, PhaseSteps
    <3> QED BY <1>1, <1>3, <1>4, <2>1, <3>1 DEF OrderInv, RunningTraces
  <2>2. CASE k # id
    <3>1. ~IsOpen(k, N)
      BY <1>12, <2>2
    <3> QED BY <1>2, <1>3, <3>1 DEF OrderInv, NotedTraces
  <2> QED BY <2>1, <2>2
<1>18. PhaseSteps'
  <2> SUFFICES ASSUME NEW i \in 1..n - 1
               PROVE  /\ vm'[i].phase = "entered" => vm'[i].trace = <<>>
                      /\ frames'[vm'[i].id].steps =
                           IF vm'[i].phase = "leaving" THEN vm'[i].trace ELSE <<>>
    BY <1>6 DEF PhaseSteps
  <2>1. vm[i].id \in 1..m /\ i \in 1..Len(vm)
    BY <1>1, <1>2, VmFacts
  <2> QED BY <1>6, <2>1 DEF OrderInv, PhaseSteps
<1>19. SpliceNoted'
  BY <1>2, <1>6, <1>7 DEF OrderInv, SpliceNoted
<1>20. EndedEmpty'
  BY <1>1, <1>6, VmFacts DEF OrderInv, EndedEmpty
<1>21. WithinBounds'
  <2>1. Executed' = Executed
    BY <1>5, ExecutedGrows
  <2>2. \A a \in 1..N + 1 : a \in 1..N \/ a = N + 1
    OBVIOUS
  <2>3. \A a \in 1..N + 1 : history'[a].index <= MaxSteps
    BY <1>3, <1>5, <1>9, <2>2, BoundsAssumption DEF OrderInv, WithinBounds
  <2> QED BY <1>1, <1>2, <1>6, <1>9, <2>1, <2>3 DEF OrderInv, WithinBounds
<1> QED BY <1>8, <1>15, <1>16, <1>17, <1>18, <1>19, <1>20, <1>21 DEF OrderInv

LEMMA InitOrder == ObserverInit => OrderInv
<1> SUFFICES ASSUME ObserverInit PROVE OrderInv
  OBVIOUS
<1>1. vm = <<>> /\ history = <<>> /\ finished = FALSE /\ frames = <<>>
  BY DEF ObserverInit
<1>2. 1..Len(vm) = {} /\ 1..Len(frames) = {} /\ 1..Len(history) = {} /\ Len(frames) = 0
  BY <1>1
<1>3. Executed = 0
  <2>1. {j \in 1..Len(history) : history[j].kind = "step"} = {}
    BY <1>2
  <2> QED BY <2>1, FS_EmptySet DEF Executed
<1>4. WithinBounds
  BY <1>2, <1>3, BoundsAssumption DEF WithinBounds
<1>5. CallsInOrder /\ InnermostActs /\ StepsInOrder /\ OpenRuns /\ RunningTraces
  BY <1>2 DEF CallsInOrder, InnermostActs, StepsInOrder, OpenRuns, RunningTraces
<1>6. NotedTraces /\ PhaseSteps /\ SpliceNoted /\ EventIndexes /\ EndedEmpty
  BY <1>1, <1>2 DEF NotedTraces, PhaseSteps, SpliceNoted, EventIndexes, EndedEmpty
<1> QED BY <1>4, <1>5, <1>6 DEF OrderInv

(* Every step of the observer is of one of the four kinds. *)
LEMMA StepKinds ==
  ASSUME IInv, OrderInv, [ObserverNext]_observerVars
  PROVE  Quiet \/ Begins \/ (\E op \in Op : Executes(op)) \/ Leaves
<1>1. EnterTop \/ EnterNested => Begins
  BY EnterTopBegins, EnterNestedBegins
<1>2. PrepareFails \/ SyscallHint \/ RunFails \/ RunEnds => Quiet
  BY PrepareFailsIsQuiet, SyscallHintIsQuiet, RunFailsIsQuiet, RunEndsIsQuiet
<1>3. EndTransaction \/ UNCHANGED observerVars => Quiet
  BY EndTransactionIsQuiet, StutterIsQuiet
<1>4. \A op \in Op : Execute(op) => Executes(op)
  BY ExecuteExecutes
<1>5. LeaveFrame => Leaves
  BY LeaveFrameLeaves
<1> QED BY <1>1, <1>2, <1>3, <1>4, <1>5 DEF ObserverNext

LEMMA NextOrder ==
  ASSUME IInv, OrderInv, [ObserverNext]_observerVars
  PROVE  OrderInv'
BY StepKinds, QuietKeepsOrder, BeginsKeepsOrder, ExecutesKeepsOrder, LeavesKeepsOrder

(***************************************************************************)
(* For transactions of any size, the history is in order and the traces    *)
(* noted of the frames that left are all of it.                            *)
(***************************************************************************)
THEOREM HistoryIsInOrder == ObserverSpec => []OrderInv
<1>1. ObserverInit => IInv /\ OrderInv
  BY InitIInv, InitOrder
<1>2. (IInv /\ OrderInv) /\ [ObserverNext]_observerVars => (IInv /\ OrderInv)'
  BY NextIInv, NextOrder
<1> QED BY <1>1, <1>2, PTL DEF ObserverSpec

-----------------------------------------------------------------------------
(***************************************************************************)
(* Numbers: a set of them has a least one, and what holds of 0 and passes  *)
(* from a number to the next holds of all.                                 *)
(***************************************************************************)
Less == {p \in Nat \X Nat : p[1] < p[2]}

LEMMA FirstIsLeast ==
  ASSUME NEW S \in SUBSET Nat, S # {}
  PROVE  First(S) \in S /\ \A l \in S : First(S) <= l
<1>1. IsWellFoundedOn(Less, Nat)
  BY NatLessThanWellFounded DEF Less, OpToRel
<1>2. PICK x \in S : \A y \in S : ~(<<y, x>> \in Less)
  BY <1>1, WFMin
<1>3. \A y \in S : ~(y < x) /\ y \in Nat /\ x \in Nat
  BY <1>2 DEF Less
<1>4. \A y \in S : x <= y
  BY <1>3
<1> QED BY <1>4 DEF First

LEMMA Induction ==
  ASSUME NEW N \in Nat, NEW Good, 0 \in Good, \A i \in 1..N : i - 1 \in Good => i \in Good
  PROVE  \A n \in 0..N : n \in Good
<1> DEFINE Bad == {n \in 0..N : n \notin Good}
<1>1. SUFFICES ASSUME Bad # {} PROVE FALSE
  OBVIOUS
<1>2. Bad \in SUBSET Nat
  OBVIOUS
<1>3. PICK n \in Bad : \A l \in Bad : n <= l
  BY <1>1, <1>2, FirstIsLeast
<1>4. n \in 1..N /\ n \notin Good /\ n - 1 \in 0..N /\ ~(n <= n - 1)
  BY <1>3
<1>5. n - 1 \in Good
  BY <1>3, <1>4
<1> QED BY <1>4, <1>5

(***************************************************************************)
(* A sequence can be folded from its start, whatever a step makes of the   *)
(* last result.                                                            *)
(***************************************************************************)
IsFold(f, start, step, n) ==
  f[0] = start /\ \A i \in 1..n : f[i] = step[<<i, f[i - 1]>>]

LEMMA FoldExists ==
  ASSUME NEW N \in Nat, NEW S, NEW start \in S, NEW step \in [(1..N) \X S -> S]
  PROVE  \E f \in [0..N -> S] : IsFold(f, start, step, N)
<1> DEFINE Good == {n \in 0..N : \E f \in [0..n -> S] : IsFold(f, start, step, n)}
<1>1. 0 \in Good
  <2>1. PICK f : f = [i \in 0..0 |-> start]
    OBVIOUS
  <2>2. f \in [0..0 -> S] /\ IsFold(f, start, step, 0)
    BY <2>1 DEF IsFold
  <2> QED BY <2>2
<1>2. ASSUME NEW n \in 1..N, n - 1 \in Good PROVE n \in Good
  <2>1. PICK g \in [0..n - 1 -> S] : IsFold(g, start, step, n - 1)
    BY <1>2
  <2>2. <<n, g[n - 1]>> \in (1..N) \X S
    OBVIOUS
  <2>3. PICK last \in S : last = step[<<n, g[n - 1]>>]
    BY <2>2
  <2>4. PICK f : f = [i \in 0..n |-> IF i = n THEN last ELSE g[i]]
    OBVIOUS
  <2>5. f \in [0..n -> S]
    BY <2>4
  <2>6. f[0] = start
    BY <2>1, <2>4 DEF IsFold
  <2>7. ASSUME NEW i \in 1..n PROVE f[i] = step[<<i, f[i - 1]>>]
    <3>1. f[i - 1] = g[i - 1]
      BY <2>4
    <3>2. CASE i = n
      <4>1. f[i] = last
        BY <2>4, <3>2
      <4> QED BY <2>3, <3>1, <3>2, <4>1
    <3>3. CASE i # n
      <4>1. i \in 1..n - 1 /\ f[i] = g[i]
        BY <2>4, <3>3
      <4> QED BY <2>1, <3>1, <4>1 DEF IsFold
    <3> QED BY <3>2, <3>3
  <2> QED BY <2>5, <2>6, <2>7 DEF IsFold
<1>3. \A n \in 0..N : n \in Good
  <2> HIDE DEF Good
  <2> QED BY <1>1, <1>2, Induction
<1> QED BY <1>3

(***************************************************************************)
(* The events of the container that are of frames.                         *)
(***************************************************************************)
IsUpTo(f, s, n) ==
  /\ f[0] = <<>>
  /\ \A i \in 1..n : f[i] = IF OfFrame(s[i]) THEN Append(f[i - 1], s[i]) ELSE f[i - 1]

LEMMA UpToAgree ==
  ASSUME NEW N \in Nat, NEW f, NEW g, NEW s, NEW t, IsUpTo(f, s, N), IsUpTo(g, t, N),
         \A i \in 1..N : s[i] = t[i]
  PROVE  f[N] = g[N]
<1> DEFINE Good == {n \in 0..N : f[n] = g[n]}
<1>1. 0 \in Good
  BY DEF IsUpTo
<1>2. ASSUME NEW i \in 1..N, i - 1 \in Good PROVE i \in Good
  <2>1. f[i - 1] = g[i - 1]
    BY <1>2
  <2> QED BY <2>1 DEF IsUpTo
<1>3. \A n \in 0..N : n \in Good
  <2> HIDE DEF Good
  <2> QED BY <1>1, <1>2, Induction
<1> QED BY <1>3

LEMMA EventsFold ==
  ASSUME NEW S, NEW s \in Seq(S)
  PROVE  \E f \in [0..Len(s) -> Seq(S)] : IsUpTo(f, s, Len(s)) /\ EventsOfFrames(s) = f[Len(s)]
<1>1. PICK N \in Nat : N = Len(s)
  OBVIOUS
<1>2. PICK step : step = [p \in (1..N) \X Seq(S) |->
                            IF OfFrame(s[p[1]]) THEN Append(p[2], s[p[1]]) ELSE p[2]]
  OBVIOUS
<1>3. step \in [(1..N) \X Seq(S) -> Seq(S)]
  <2>1. ASSUME NEW p \in (1..N) \X Seq(S)
        PROVE  (IF OfFrame(s[p[1]]) THEN Append(p[2], s[p[1]]) ELSE p[2]) \in Seq(S)
    <3>1. PICK i \in 1..N : i = p[1]
      OBVIOUS
    <3>2. PICK t \in Seq(S) : t = p[2]
      OBVIOUS
    <3>3. s[i] \in S
      BY <1>1
    <3>4. Append(t, s[i]) \in Seq(S)
      BY <3>3
    <3> QED BY <3>1, <3>2, <3>4
  <2> QED BY <1>2, <2>1
<1>4. <<>> \in Seq(S)
  OBVIOUS
<1>5. PICK f \in [0..N -> Seq(S)] : IsFold(f, <<>>, step, N)
  BY <1>3, <1>4, FoldExists
<1>6. ASSUME NEW i \in 1..N PROVE f[i] = IF OfFrame(s[i]) THEN Append(f[i - 1], s[i]) ELSE f[i - 1]
  <2>1. i - 1 \in 0..N
    OBVIOUS
  <2>2. PICK t \in Seq(S) : t = f[i - 1]
    BY <2>1
  <2>3. <<i, t>> \in (1..N) \X Seq(S)
    OBVIOUS
  <2>4. step[<<i, t>>] = IF OfFrame(s[i]) THEN Append(t, s[i]) ELSE t
    BY <1>2, <2>3
  <2> QED BY <1>5, <2>2, <2>4 DEF IsFold
<1>7. IsUpTo(f, s, N)
  BY <1>5, <1>6 DEF IsUpTo, IsFold
<1> DEFINE rhs(g) == [n \in 0..Len(s) |-> IF n = 0 THEN <<>>
                        ELSE IF OfFrame(s[n]) THEN Append(g[n - 1], s[n]) ELSE g[n - 1]]
<1>8. f = rhs(f)
  <2>1. ASSUME NEW n \in 0..N
        PROVE  f[n] = IF n = 0 THEN <<>>
                      ELSE IF OfFrame(s[n]) THEN Append(f[n - 1], s[n]) ELSE f[n - 1]
    <3>1. CASE n = 0
      BY <1>5, <3>1 DEF IsFold
    <3>2. CASE n # 0
      <4>1. n \in 1..N
        BY <3>2
      <4> QED BY <1>6, <3>2, <4>1
    <3> QED BY <3>1, <3>2
  <2> QED BY <1>1, <2>1
<1>9. EventsOfFrames(s) = (CHOOSE g : g = rhs(g))[Len(s)]
  BY DEF EventsOfFrames
<1>10. PICK g : g = rhs(g) /\ EventsOfFrames(s) = g[N]
  <2> HIDE DEF rhs
  <2>1. (CHOOSE g : g = rhs(g)) = rhs(CHOOSE g : g = rhs(g))
    BY <1>8
  <2> QED BY <1>1, <1>9, <2>1
<1>11. IsUpTo(g, s, N)
  <2>1. \A n \in 0..N : g[n] = IF n = 0 THEN <<>>
                        ELSE IF OfFrame(s[n]) THEN Append(g[n - 1], s[n]) ELSE g[n - 1]
    BY <1>1, <1>10
  <2>2. g[0] = <<>>
    <3>1. 0 \in 0..N
      OBVIOUS
    <3> HIDE DEF rhs
    <3> QED BY <2>1, <3>1
  <2>3. ASSUME NEW n \in 1..N
        PROVE  g[n] = IF OfFrame(s[n]) THEN Append(g[n - 1], s[n]) ELSE g[n - 1]
    <3>1. n \in 0..N /\ n # 0
      OBVIOUS
    <3> QED BY <2>1, <3>1
  <2> QED BY <2>2, <2>3 DEF IsUpTo
<1>12. f[N] = g[N]
  BY <1>7, <1>11, UpToAgree
<1> QED BY <1>1, <1>7, <1>10, <1>12

(* ... and when one more event is written. *)
LEMMA EventsGrow ==
  ASSUME NEW S, NEW s \in Seq(S), NEW e \in S
  PROVE  /\ EventsOfFrames(s) \in Seq(S)
         /\ EventsOfFrames(Append(s, e)) =
              IF OfFrame(e) THEN Append(EventsOfFrames(s), e) ELSE EventsOfFrames(s)
<1>1. PICK N \in Nat : N = Len(s)
  OBVIOUS
<1>2. PICK f \in [0..N -> Seq(S)] : IsUpTo(f, s, N) /\ EventsOfFrames(s) = f[N]
  BY <1>1, EventsFold
<1>3. PICK t \in Seq(S) : t = Append(s, e)
  BY AppendFacts
<1>4. Len(t) = N + 1 /\ t[N + 1] = e /\ \A i \in 1..N : s[i] = t[i]
  BY <1>1, <1>3, AppendFacts
<1>5. PICK g \in [0..N + 1 -> Seq(S)] : IsUpTo(g, t, N + 1) /\ EventsOfFrames(t) = g[N + 1]
  BY <1>4, EventsFold
<1>6. IsUpTo(g, t, N)
  BY <1>5 DEF IsUpTo
<1>7. f[N] = g[N]
  BY <1>2, <1>4, <1>6, UpToAgree
<1>8. g[N + 1] = IF OfFrame(e) THEN Append(g[N], e) ELSE g[N]
  <2>1. N + 1 \in 1..N + 1 /\ (N + 1) - 1 = N
    OBVIOUS
  <2>2. g[N + 1] = IF OfFrame(t[N + 1]) THEN Append(g[(N + 1) - 1], t[N + 1]) ELSE g[(N + 1) - 1]
    BY <1>5, <2>1 DEF IsUpTo
  <2> QED BY <1>4, <2>1, <2>2
<1> QED BY <1>2, <1>3, <1>5, <1>7, <1>8

LEMMA NoEvents == EventsOfFrames(<<>>) = <<>>
<1>1. <<>> \in Seq({}) /\ Len(<<>>) = 0
  OBVIOUS
<1>2. PICK f : IsUpTo(f, <<>>, 0) /\ EventsOfFrames(<<>>) = f[0]
  BY <1>1, EventsFold
<1> QED BY <1>2 DEF IsUpTo
-----------------------------------------------------------------------------
(***************************************************************************)
(* Types: nothing is written before the transaction has ended, and after   *)
(* it the observer has stopped.                                            *)
(***************************************************************************)
Unwritten ==
  ~finished => /\ emitting = <<>>
               /\ topsDone = 0
               /\ out = <<>>
               /\ rec = [steps |-> 1, internal_calls |-> 0]
               /\ closed = FALSE

TypeInv == IInv /\ OrderInv /\ Unwritten /\ WriterTypeOK

ActivationSet == [id : 1..Len(frames), i : Nat, depth : Nat,
                  pending_call : BOOLEAN, kids : SUBSET (1..Len(frames))]

OutEvent == [kind : {"call", "step", "return", "fn", "fnret"},
             frame : 1..Len(frames), index : Nat]

LEMMA WriterTypes ==
  WriterTypeOK <=> /\ SinkTypeOK
                   /\ emitting \in Seq(ActivationSet)
                   /\ topsDone \in 0..Len(frames)
                   /\ out \in Seq(OutEvent)
                   /\ rec \in [steps : Nat, internal_calls : Nat]
                   /\ closed \in BOOLEAN
BY DEF WriterTypeOK, ActivationSet, OutEvent

LEMMA CurrentFacts ==
  ASSUME WriterTypeOK, Emitting
  PROVE  /\ Len(emitting) \in Nat /\ Len(emitting) \in 1..Len(emitting)
         /\ Current = emitting[Len(emitting)] /\ Current \in ActivationSet
         /\ Current.id \in 1..Len(frames) /\ Current.i \in Nat /\ Current.depth \in Nat
         /\ Current.pending_call \in BOOLEAN /\ Current.kids \in SUBSET (1..Len(frames))
<1>1. emitting \in Seq(ActivationSet) /\ emitting # <<>>
  BY WriterTypes DEF Emitting
<1>2. Len(emitting) \in Nat /\ Len(emitting) \in 1..Len(emitting) /\ Current = emitting[Len(emitting)]
  BY <1>1 DEF Current
<1>3. Current \in ActivationSet
  BY <1>1, <1>2
<1> QED BY <1>2, <1>3 DEF ActivationSet

LEMMA OutEvents ==
  ASSUME NEW id \in 1..Len(frames), NEW i \in Nat
  PROVE  /\ Entered(id) \in OutEvent /\ Shown(id, i) \in OutEvent /\ Left(id) \in OutEvent
         /\ InternalCall(id) \in OutEvent /\ InternalReturn(id) \in OutEvent
         /\ OfFrame(Entered(id)) /\ OfFrame(Shown(id, i)) /\ OfFrame(Left(id))
         /\ ~OfFrame(InternalCall(id)) /\ ~OfFrame(InternalReturn(id))
BY DEF Entered, Shown, Left, InternalCall, InternalReturn, OutEvent, OfFrame

LEMMA ActivationFacts ==
  ASSUME NEW id \in 1..Len(frames)
  PROVE  /\ Activation(id) \in ActivationSet
         /\ Activation(id).id = id /\ Activation(id).i = 0 /\ Activation(id).depth = 0
         /\ Activation(id).pending_call = FALSE /\ Activation(id).kids = KidsBefore(id, 0)
<1>1. PICK kids \in SUBSET (1..Len(frames)) : kids = KidsBefore(id, 0)
  BY DEF KidsBefore, kid_at, kid_end, children
<1>2. Activation(id) = [id |-> id, i |-> 0, depth |-> 0, pending_call |-> FALSE, kids |-> kids]
  BY <1>1 DEF Activation
<1> QED BY <1>1, <1>2 DEF ActivationSet

(* What each action makes of the activation it works on. *)
LEMMA OpenInternalFacts ==
  ASSUME WriterTypeOK, OpenInternal
  PROVE  \E act \in ActivationSet :
           /\ act.id = Current.id /\ act.i = Current.i /\ act.kids = Current.kids
           /\ act.depth = Current.depth + 1 /\ act.pending_call = FALSE
           /\ emitting' = [emitting EXCEPT ![Len(emitting)] = act]
<1>1. PICK cur \in ActivationSet : cur = Current
  BY CurrentFacts DEF OpenInternal
<1>2. PICK d \in Nat : d = cur.depth + 1
  BY DEF ActivationSet
<1>3. PICK act : act = [cur EXCEPT !.pending_call = FALSE, !.depth = d]
  OBVIOUS
<1>4. /\ act \in ActivationSet /\ act.id = cur.id /\ act.i = cur.i /\ act.kids = cur.kids
      /\ act.depth = d /\ act.pending_call = FALSE
  BY <1>3 DEF ActivationSet
<1>5. emitting' = [emitting EXCEPT ![Len(emitting)] = act]
  BY <1>1, <1>2, <1>3 DEF OpenInternal, WithCurrent
<1> QED BY <1>1, <1>2, <1>4, <1>5

LEMMA CloseInternalFacts ==
  ASSUME WriterTypeOK, CloseInternal
  PROVE  \E act \in ActivationSet :
           /\ act.id = Current.id /\ act.i = Current.i /\ act.kids = Current.kids
           /\ act.depth = Current.depth - 1 /\ act.pending_call = Current.pending_call
           /\ emitting' = [emitting EXCEPT ![Len(emitting)] = act]
<1>1. PICK cur \in ActivationSet : cur = Current /\ cur.depth > 0
  BY CurrentFacts DEF CloseInternal
<1>2. PICK d \in Nat : d = cur.depth - 1
  BY <1>1 DEF ActivationSet
<1>3. PICK act : act = [cur EXCEPT !.depth = d]
  OBVIOUS
<1>4. /\ act \in ActivationSet /\ act.id = cur.id /\ act.i = cur.i /\ act.kids = cur.kids
      /\ act.depth = d /\ act.pending_call = cur.pending_call
  BY <1>3 DEF ActivationSet
<1>5. emitting' = [emitting EXCEPT ![Len(emitting)] = act]
  BY <1>1, <1>2, <1>3 DEF CloseInternal, WithCurrent
<1> QED BY <1>1, <1>2, <1>4, <1>5

LEMMA SpliceKidFacts ==
  ASSUME WriterTypeOK, SpliceKid
  PROVE  \E id \in Current.kids, act \in ActivationSet :
           /\ id = First(Current.kids) /\ \A l \in Current.kids : id <= l
           /\ act.id = Current.id /\ act.i = Current.i /\ act.kids = Current.kids \ {id}
           /\ act.depth = Current.depth /\ act.pending_call = Current.pending_call
           /\ emitting' = Append([emitting EXCEPT ![Len(emitting)] = act], Activation(id))
           /\ out' = Append(out, Entered(id))
<1>1. PICK cur \in ActivationSet : cur = Current
  BY CurrentFacts DEF SpliceKid
<1>2. Current.kids \in SUBSET Nat /\ Current.kids # {}
  BY CurrentFacts DEF SpliceKid, MaySplice
<1>3. PICK id \in Current.kids : id = First(Current.kids) /\ \A l \in Current.kids : id <= l
  BY <1>2, FirstIsLeast
<1>4. PICK act : act = [cur EXCEPT !.kids = cur.kids \ {id}]
  OBVIOUS
<1>5. /\ act \in ActivationSet /\ act.id = cur.id /\ act.i = cur.i /\ act.kids = cur.kids \ {id}
      /\ act.depth = cur.depth /\ act.pending_call = cur.pending_call
  BY <1>4 DEF ActivationSet
<1>6. /\ emitting' = Append([emitting EXCEPT ![Len(emitting)] = act], Activation(id))
      /\ out' = Append(out, Entered(id))
  BY <1>1, <1>3, <1>4 DEF SpliceKid, WithCurrent
<1> QED BY <1>1, <1>3, <1>5, <1>6

StepOp == frames[Current.id].steps[Current.i + 1]

LEMMA EmitStepFacts ==
  ASSUME WriterTypeOK, EmitStep
  PROVE  /\ StepOp \in Op
         /\ \E act \in ActivationSet :
           /\ act.id = Current.id /\ act.i = Current.i + 1
           /\ act.kids = KidsBefore(Current.id, Current.i + 1)
           /\ act.depth = IF ClosesInternal(StepOp) THEN Current.depth - 1 ELSE Current.depth
           /\ act.pending_call = (StepOp = "call")
           /\ emitting' = [emitting EXCEPT ![Len(emitting)] = act]
           /\ out' = IF ClosesInternal(StepOp)
                     THEN Append(Append(out, Shown(Current.id, Current.i)), InternalReturn(Current.id))
                     ELSE Append(out, Shown(Current.id, Current.i))
<1>1. PICK cur \in ActivationSet : /\ cur = Current /\ cur.id \in 1..Len(frames)
                                   /\ cur.i \in Nat /\ cur.depth \in Nat
  BY CurrentFacts DEF EmitStep
<1>2. PICK kids \in SUBSET (1..Len(frames)) : kids = KidsBefore(cur.id, cur.i + 1)
  BY DEF KidsBefore, kid_at, kid_end, children
<1>3. PICK d \in Nat : d = IF ClosesInternal(StepOp) THEN cur.depth - 1 ELSE cur.depth
  BY <1>1 DEF ClosesInternal
<1>4. PICK pending \in BOOLEAN : pending = (StepOp = "call")
  OBVIOUS
<1>5. PICK j \in Nat : j = cur.i + 1
  BY <1>1
<1>6. PICK act : act = [cur EXCEPT !.i = j, !.depth = d, !.pending_call = pending, !.kids = kids]
  OBVIOUS
<1>7. /\ act \in ActivationSet /\ act.id = cur.id /\ act.i = j /\ act.kids = kids
      /\ act.depth = d /\ act.pending_call = pending
  BY <1>6 DEF ActivationSet
<1>8. emitting' = [emitting EXCEPT ![Len(emitting)] = act]
  BY <1>1, <1>2, <1>3, <1>4, <1>5, <1>6 DEF EmitStep, WithCurrent, StepOp
<1>9. out' = IF ClosesInternal(StepOp)
             THEN Append(Append(out, Shown(Current.id, Current.i)), InternalReturn(Current.id))
             ELSE Append(out, Shown(Current.id, Current.i))
  BY DEF EmitStep, StepOp
<1>10. StepOp \in Op
  <2>1. frames[cur.id] \in NotedFrame
    BY <1>1, WriterTypes DEF SinkTypeOK
  <2>2. PICK steps \in Seq(Op) : steps = frames[cur.id].steps
    BY <2>1 DEF NotedFrame
  <2>3. cur.i + 1 \in 1..Len(steps)
    BY <1>1, <2>2 DEF EmitStep, StepsLeft
  <2>4. steps[cur.i + 1] \in Op
    BY <2>3
  <2> QED BY <1>1, <2>2, <2>4 DEF StepOp
<1> QED BY <1>1, <1>2, <1>3, <1>4, <1>5, <1>7, <1>8, <1>9, <1>10

-----------------------------------------------------------------------------
LEMMA TopsFacts ==
  ASSUME WriterTypeOK, TopsLeft # {}
  PROVE  /\ First(TopsLeft) \in TopsLeft /\ First(TopsLeft) \in 1..Len(frames)
         /\ First(TopsLeft) > topsDone
         /\ \A l \in TopsLeft : First(TopsLeft) <= l
<1>1. TopsLeft \in SUBSET Nat
  BY DEF TopsLeft, children
<1>2. First(TopsLeft) \in TopsLeft /\ \A l \in TopsLeft : First(TopsLeft) <= l
  BY <1>1, FirstIsLeast
<1> QED BY <1>2 DEF TopsLeft, children

LEMMA WriterKeepsTypes ==
  ASSUME WriterTypeOK, WriterNext
  PROVE  WriterTypeOK' /\ UNCHANGED observerVars
<1>1. UNCHANGED observerVars
  BY DEF WriterNext, EmitTop, OpenInternal, SpliceKid, EmitStep, CloseInternal, ReturnFrame, Close
<1>2. UNCHANGED <<vm, history, finished, frames, stack, pending_step>>
  BY <1>1 DEF observerVars
<1>3. SinkTypeOK' /\ OutEvent' = OutEvent /\ ActivationSet' = ActivationSet
  BY <1>2, WriterTypes DEF SinkTypeOK, OutEvent, ActivationSet
<1>4. /\ emitting \in Seq(ActivationSet) /\ out \in Seq(OutEvent)
      /\ topsDone \in 0..Len(frames) /\ closed \in BOOLEAN
      /\ rec \in [steps : Nat, internal_calls : Nat]
  BY WriterTypes
<1>5. SUFFICES /\ emitting' \in Seq(ActivationSet) /\ out' \in Seq(OutEvent)
               /\ topsDone' \in 0..Len(frames) /\ closed' \in BOOLEAN
               /\ rec' \in [steps : Nat, internal_calls : Nat]
  BY <1>1, <1>2, <1>3 DEF WriterTypeOK, ActivationSet, OutEvent
<1>6. CASE EmitTop
  <2>1. First(TopsLeft) \in 1..Len(frames)
    BY <1>6, TopsFacts DEF EmitTop
  <2>2. PICK act \in ActivationSet : act = Activation(First(TopsLeft))
    BY <2>1, ActivationFacts
  <2>3. PICK e \in OutEvent : e = Entered(First(TopsLeft))
    BY <2>1, OutEvents
  <2>4. <<act>> \in Seq(ActivationSet) /\ Append(out, e) \in Seq(OutEvent)
    BY <1>4, AppendFacts
  <2>5. First(TopsLeft) \in 0..Len(frames)
    BY <2>1
  <2> QED BY <1>4, <1>6, <2>2, <2>3, <2>4, <2>5 DEF EmitTop
<1>7. CASE OpenInternal
  <2>1. PICK act \in ActivationSet : emitting' = [emitting EXCEPT ![Len(emitting)] = act]
    BY <1>7, OpenInternalFacts
  <2>2. Emitting /\ Current.id \in 1..Len(frames)
    BY <1>7, CurrentFacts DEF OpenInternal
  <2>3. PICK e \in OutEvent : e = InternalCall(Current.id)
    BY <2>2, OutEvents
  <2>4. emitting' \in Seq(ActivationSet) /\ Append(out, e) \in Seq(OutEvent)
    BY <1>4, <2>1, <2>2, WithLastFacts, AppendFacts DEF Emitting
  <2>5. rec' \in [steps : Nat, internal_calls : Nat]
    BY <1>4, <1>7 DEF OpenInternal
  <2> QED BY <1>4, <1>7, <2>3, <2>4, <2>5 DEF OpenInternal
<1>8. CASE SpliceKid
  <2>1. PICK id \in Current.kids, act \in ActivationSet :
          /\ emitting' = Append([emitting EXCEPT ![Len(emitting)] = act], Activation(id))
          /\ out' = Append(out, Entered(id))
    BY <1>8, SpliceKidFacts
  <2>2. Emitting /\ id \in 1..Len(frames)
    BY <1>8, CurrentFacts DEF SpliceKid
  <2>3. PICK e \in OutEvent : e = Entered(id)
    BY <2>2, OutEvents
  <2>4. PICK kid \in ActivationSet : kid = Activation(id)
    BY <2>2, ActivationFacts
  <2>5. PICK t \in Seq(ActivationSet) : t = [emitting EXCEPT ![Len(emitting)] = act]
    BY <1>4, <2>2, WithLastFacts DEF Emitting
  <2>6. emitting' \in Seq(ActivationSet) /\ Append(out, e) \in Seq(OutEvent)
    BY <1>4, <2>1, <2>4, <2>5, AppendFacts
  <2> QED BY <1>4, <1>8, <2>1, <2>3, <2>6 DEF SpliceKid
<1>9. CASE EmitStep
  <2>1. PICK act \in ActivationSet :
          /\ emitting' = [emitting EXCEPT ![Len(emitting)] = act]
          /\ out' = IF ClosesInternal(StepOp)
                    THEN Append(Append(out, Shown(Current.id, Current.i)), InternalReturn(Current.id))
                    ELSE Append(out, Shown(Current.id, Current.i))
    BY <1>9, EmitStepFacts
  <2>2. Emitting /\ Current.id \in 1..Len(frames) /\ Current.i \in Nat
    BY <1>9, CurrentFacts DEF EmitStep
  <2>3. PICK e \in OutEvent : e = Shown(Current.id, Current.i)
    BY <2>2, OutEvents
  <2>4. PICK x \in OutEvent : x = InternalReturn(Current.id)
    BY <2>2, OutEvents
  <2>5. PICK t \in Seq(OutEvent) : t = Append(out, e)
    BY <1>4, AppendFacts
  <2>6. Append(t, x) \in Seq(OutEvent)
    BY AppendFacts
  <2>7. emitting' \in Seq(ActivationSet)
    BY <1>4, <2>1, <2>2, WithLastFacts DEF Emitting
  <2>8. rec' \in [steps : Nat, internal_calls : Nat]
    BY <1>4, <1>9 DEF EmitStep
  <2>9. topsDone' = topsDone /\ closed' = closed
    BY <1>9 DEF EmitStep
  <2> QED BY <1>4, <2>1, <2>3, <2>4, <2>5, <2>6, <2>7, <2>8, <2>9
<1>10. CASE CloseInternal
  <2>1. PICK act \in ActivationSet : emitting' = [emitting EXCEPT ![Len(emitting)] = act]
    BY <1>10, CloseInternalFacts
  <2>2. Emitting /\ Current.id \in 1..Len(frames)
    BY <1>10, CurrentFacts DEF CloseInternal
  <2>3. PICK e \in OutEvent : e = InternalReturn(Current.id)
    BY <2>2, OutEvents
  <2>4. emitting' \in Seq(ActivationSet) /\ Append(out, e) \in Seq(OutEvent)
    BY <1>4, <2>1, <2>2, WithLastFacts, AppendFacts DEF Emitting
  <2> QED BY <1>4, <1>10, <2>3, <2>4 DEF CloseInternal
<1>11. CASE ReturnFrame
  <2>1. Emitting /\ Current.id \in 1..Len(frames)
    BY <1>11, CurrentFacts DEF ReturnFrame
  <2>2. PICK e \in OutEvent : e = Left(Current.id)
    BY <2>1, OutEvents
  <2>3. Outer(emitting) \in Seq(ActivationSet) /\ Append(out, e) \in Seq(OutEvent)
    BY <1>4, <2>1, OuterFacts, AppendFacts DEF Emitting
  <2> QED BY <1>4, <1>11, <2>2, <2>3 DEF ReturnFrame
<1>12. CASE Close
  BY <1>4, <1>12 DEF Close
<1> QED BY <1>6, <1>7, <1>8, <1>9, <1>10, <1>11, <1>12 DEF WriterNext

(* Once the transaction has ended the observer does nothing more. *)
LEMMA ObserverStops ==
  ASSUME IInv, OrderInv, ObserverNext
  PROVE  ~finished
<1>1. finished => vm = <<>>
  BY DEF OrderInv, EndedEmpty
<1> QED BY <1>1 DEF ObserverNext, EnterTop, EnterNested, PrepareFails, SyscallHint, Execute,
                    RunFails, RunEnds, LeaveFrame, EndTransaction, InPhase

LEMMA ObserverKeepsTypes ==
  ASSUME TypeInv, ObserverNext, UNCHANGED writerVars
  PROVE  TypeInv'
<1>1. IInv' /\ OrderInv'
  BY NextIInv, NextOrder DEF TypeInv
<1>2. emitting = <<>> /\ topsDone = 0 /\ out = <<>>
      /\ rec = [steps |-> 1, internal_calls |-> 0] /\ closed = FALSE
  BY ObserverStops DEF TypeInv, Unwritten
<1>3. UNCHANGED <<emitting, topsDone, out, rec, closed>>
  BY DEF writerVars
<1>4. SinkTypeOK' /\ Len(frames)' \in Nat
  BY <1>1 DEF IInv, SinkTypeOK
<1>5. \A S : <<>> \in Seq(S)
  OBVIOUS
<1>6. WriterTypeOK'
  <2>1. emitting' \in Seq(ActivationSet') /\ out' \in Seq(OutEvent')
    BY <1>2, <1>3, <1>5
  <2>2. rec' \in [steps : Nat, internal_calls : Nat]
    BY <1>2, <1>3
  <2>3. closed' \in BOOLEAN
    BY <1>2, <1>3
  <2>4. 0 \in 0..Len(frames')
    BY <1>4
  <2>5. topsDone' \in 0..Len(frames')
    BY <1>2, <1>3, <2>4
  <2> QED BY <1>4, <2>1, <2>2, <2>3, <2>5 DEF WriterTypeOK, ActivationSet, OutEvent
<1> QED BY <1>1, <1>2, <1>3, <1>6 DEF TypeInv, Unwritten

LEMMA WriterKeepsObserver ==
  ASSUME IInv, OrderInv, UNCHANGED observerVars
  PROVE  IInv' /\ OrderInv'
BY NextIInv, NextOrder

LEMMA WritingIsLate ==
  ASSUME TypeInv, WriterNext
  PROVE  finished
BY DEF TypeInv, Unwritten, WriterNext, EmitTop, OpenInternal, SpliceKid, EmitStep, CloseInternal,
       ReturnFrame, Close, Emitting

LEMMA InitTypes == Init => TypeInv
<1> SUFFICES ASSUME Init PROVE TypeInv
  OBVIOUS
<1>1. IInv /\ OrderInv
  BY InitIInv, InitOrder DEF Init
<1>2. SinkTypeOK /\ Len(frames) \in Nat
  BY <1>1 DEF IInv, SinkTypeOK
<1>3. /\ emitting = <<>> /\ topsDone = 0 /\ out = <<>>
      /\ rec = [steps |-> 1, internal_calls |-> 0] /\ closed = FALSE
  BY DEF Init
<1>4. \A S : <<>> \in Seq(S)
  OBVIOUS
<1>5. WriterTypeOK
  <2>1. emitting \in Seq(ActivationSet) /\ out \in Seq(OutEvent)
    BY <1>3, <1>4
  <2>2. rec \in [steps : Nat, internal_calls : Nat]
    BY <1>3
  <2>3. closed \in BOOLEAN
    BY <1>3
  <2>4. 0 \in 0..Len(frames)
    BY <1>2
  <2> QED BY <1>2, <1>3, <2>1, <2>2, <2>3, <2>4, WriterTypes
<1> QED BY <1>1, <1>3, <1>5 DEF TypeInv, Unwritten

LEMMA NextTypes == TypeInv /\ [Next]_vars => TypeInv'
<1> SUFFICES ASSUME TypeInv, [Next]_vars PROVE TypeInv'
  OBVIOUS
<1>1. CASE ObserverNext /\ UNCHANGED writerVars
  BY <1>1, ObserverKeepsTypes
<1>2. CASE WriterNext
  <2>1. WriterTypeOK' /\ UNCHANGED observerVars /\ finished
    BY <1>2, WriterKeepsTypes, WritingIsLate DEF TypeInv
  <2>2. IInv' /\ OrderInv' /\ finished' = finished
    BY <2>1, WriterKeepsObserver DEF TypeInv, observerVars
  <2> QED BY <2>1, <2>2 DEF TypeInv, Unwritten
<1>3. CASE UNCHANGED vars
  <2>1. UNCHANGED observerVars /\ UNCHANGED <<emitting, topsDone, out, rec, closed, finished, frames>>
    BY <1>3 DEF vars, observerVars
  <2>2. IInv' /\ OrderInv' /\ SinkTypeOK'
    BY <2>1, WriterKeepsObserver DEF TypeInv, IInv
  <2> QED BY <2>1, <2>2 DEF TypeInv, Unwritten, WriterTypeOK
<1> QED BY <1>1, <1>2, <1>3 DEF Next

(***************************************************************************)
(* For transactions of any size, the observer's and the writer's variables *)
(* stay in their domains; no depth goes below zero.                        *)
(***************************************************************************)
THEOREM WriterTypeCorrect == Spec => []WriterTypeOK
<1>1. TypeInv => WriterTypeOK
  BY DEF TypeInv
<1> QED BY <1>1, InitTypes, NextTypes, PTL DEF Spec

-----------------------------------------------------------------------------
(***************************************************************************)
(* Where the writer is: what it wrote of the frames is the first so many   *)
(* events of the history, the activations are the frames that were open    *)
(* then, each as far as its frame had run, and the frames still to splice  *)
(* in are those of the place that had not been called.                     *)
(***************************************************************************)
ShownIsPast ==
  /\ Len(FrameEvents) <= Len(history)
  /\ \A i \in 1..Len(FrameEvents) : FrameEvents[i] = Plain(history[i])

EmittingIsOpen ==
  /\ \A k \in 1..Len(frames) :
       IsOpen(k, Len(FrameEvents)) <=> \E m \in 1..Len(emitting) : emitting[m].id = k
  /\ \A m, n \in 1..Len(emitting) : m < n => emitting[m].id < emitting[n].id

StepsShown ==
  \A m \in 1..Len(emitting) :
    /\ emitting[m].i <= Len(frames[emitting[m].id].steps)
    /\ \A j \in Nat : j < emitting[m].i <=> Ran(emitting[m].id, j, Len(FrameEvents))

KidsLeft ==
  \A m \in 1..Len(emitting) :
    emitting[m].kids =
      {k \in KidsBefore(emitting[m].id, emitting[m].i) : ~Did("call", k, Len(FrameEvents))}

TopsShown ==
  \A k \in children(NoParent) : k <= topsDone <=> Did("call", k, Len(FrameEvents))

ClosedDone == closed => Len(FrameEvents) = Len(history)

StepsCounted == rec.steps = 1 + Cardinality(StepsBy(Len(FrameEvents)))

PlaceInv ==
  /\ TypeInv
  /\ ShownIsPast
  /\ EmittingIsOpen
  /\ StepsShown
  /\ KidsLeft
  /\ TopsShown
  /\ ClosedDone
  /\ StepsCounted

LEMMA PlaceFacts ==
  ASSUME PlaceInv
  PROVE  /\ FrameEvents \in Seq(OutEvent) /\ Len(FrameEvents) \in Nat
         /\ Len(history) \in Nat /\ Len(frames) \in Nat /\ Len(emitting) \in Nat
         /\ \A m \in 1..Len(emitting) : /\ emitting[m] \in ActivationSet
                                        /\ emitting[m].id \in 1..Len(frames)
                                        /\ emitting[m].i \in Nat
<1>1. WriterTypeOK /\ IInv
  BY DEF PlaceInv, TypeInv
<1>2. out \in Seq(OutEvent) /\ emitting \in Seq(ActivationSet)
  BY <1>1, WriterTypes
<1>3. FrameEvents \in Seq(OutEvent)
  <2>1. PICK S : S = OutEvent
    OBVIOUS
  <2>2. PICK s \in Seq(S) : s = out
    BY <1>2, <2>1
  <2>3. PICK f \in [0..Len(s) -> Seq(S)] : EventsOfFrames(s) = f[Len(s)]
    BY EventsFold
  <2>4. f[Len(s)] \in Seq(S)
    OBVIOUS
  <2> QED BY <2>1, <2>2, <2>3, <2>4 DEF FrameEvents
<1>4. \A m \in 1..Len(emitting) : emitting[m] \in ActivationSet
  BY <1>2
<1>5. \A act \in ActivationSet : act.id \in 1..Len(frames) /\ act.i \in Nat
  BY DEF ActivationSet
<1>6. Len(FrameEvents) \in Nat /\ Len(emitting) \in Nat
  BY <1>2, <1>3
<1> QED BY <1>1, <1>3, <1>4, <1>5, <1>6, VmFacts

(* The past one event later. *)
LEMMA NextPast ==
  ASSUME NEW p \in Nat, NEW e, e = history[p + 1]
  PROVE  /\ \A kind, k : Did(kind, k, p + 1) <=> Did(kind, k, p) \/ (e.kind = kind /\ e.frame = k)
         /\ \A k, i : Ran(k, i, p + 1) <=>
                        Ran(k, i, p) \/ (e.kind = "step" /\ e.frame = k /\ e.index = i)
<1>1. \A a : a \in 1..p + 1 <=> a \in 1..p \/ a = p + 1
  OBVIOUS
<1> QED BY <1>1 DEF Did, Ran

(***************************************************************************)
(* The frame the next event happens in is the innermost activation.        *)
(***************************************************************************)
LEMMA NextActor ==
  ASSUME PlaceInv, NEW p \in Nat, p = Len(FrameEvents), p < Len(history)
  PROVE  /\ ~Emitting => ActsIn(p + 1) = NoParent
         /\ Emitting => ActsIn(p + 1) = Current.id
<1>1. p + 1 \in 1..Len(history) /\ (p + 1) - 1 = p
  BY PlaceFacts
<1>2. PICK f : f = ActsIn(p + 1)
  OBVIOUS
<1>3. /\ f = NoParent \/ IsOpen(f, p)
      /\ \A g \in 1..Len(frames) : IsOpen(g, p) => f # NoParent /\ g <= f
  BY <1>1, <1>2 DEF PlaceInv, TypeInv, OrderInv, InnermostActs
<1>4. f = NoParent \/ f \in 1..Len(frames)
  BY <1>1, <1>3, PastIsNoted DEF IsOpen, PlaceInv, TypeInv
<1>5. \A k \in 1..Len(frames) : IsOpen(k, p) <=> \E m \in 1..Len(emitting) : emitting[m].id = k
  BY DEF PlaceInv, EmittingIsOpen
<1>6. CASE ~Emitting
  <2>1. 1..Len(emitting) = {}
    BY <1>6 DEF Emitting
  <2> QED BY <1>2, <1>3, <1>4, <1>5, <1>6, <2>1
<1>7. CASE Emitting
  <2>1. /\ Len(emitting) \in 1..Len(emitting) /\ Current = emitting[Len(emitting)]
        /\ Current.id \in 1..Len(frames)
    BY <1>7, CurrentFacts DEF PlaceInv, TypeInv
  <2>2. IsOpen(Current.id, p)
    BY <1>5, <2>1
  <2>3. f # NoParent /\ Current.id <= f /\ f \in 1..Len(frames)
    BY <1>3, <1>4, <2>1, <2>2
  <2>4. PICK m \in 1..Len(emitting) : emitting[m].id = f
    BY <1>3, <1>5, <2>3
  <2>5. m = Len(emitting) \/ m < Len(emitting)
    BY PlaceFacts
  <2>6. m < Len(emitting) => f < Current.id
    BY <2>1, <2>4 DEF PlaceInv, EmittingIsOpen
  <2> QED BY <1>2, <1>7, <2>1, <2>3, <2>4, <2>5, <2>6
<1> QED BY <1>6, <1>7

(***************************************************************************)
(* The next event of the history is the one the writer's place calls for.  *)
(***************************************************************************)
LEMMA NextTop ==
  ASSUME PlaceInv, ~Emitting, NEW p \in Nat, p = Len(FrameEvents), p < Len(history),
         NEW e, e = history[p + 1]
  PROVE  TopsLeft # {} /\ e.kind = "call" /\ e.frame = First(TopsLeft)
<1>1. ActsIn(p + 1) = NoParent /\ p + 1 \in 1..Len(history) /\ (p + 1) - 1 = p
  BY NextActor, PlaceFacts
<1>2. e.frame \in 1..Len(frames)
  BY <1>1, VmFacts DEF PlaceInv, TypeInv
<1>3. e.kind = "call" /\ frames[e.frame].parent = NoParent
  BY <1>1, <1>2, NoParentAssumption DEF ActsIn
<1>4. \A k \in 1..Len(frames) : k < e.frame <=> Did("call", k, p)
  BY <1>1, <1>3 DEF PlaceInv, TypeInv, OrderInv, CallsInOrder
<1>5. e.frame \in children(NoParent) /\ ~Did("call", e.frame, p)
  BY <1>2, <1>3, <1>4 DEF children
<1>6. topsDone \in Nat
  BY PlaceFacts, WriterTypes DEF PlaceInv, TypeInv
<1>7. e.frame \in TopsLeft
  BY <1>2, <1>5, <1>6 DEF TopsLeft, PlaceInv, TopsShown
<1>8. /\ First(TopsLeft) \in TopsLeft /\ First(TopsLeft) <= e.frame
      /\ First(TopsLeft) \in 1..Len(frames) /\ First(TopsLeft) > topsDone
  BY <1>7, TopsFacts DEF PlaceInv, TypeInv
<1>9. ~Did("call", First(TopsLeft), p)
  BY <1>6, <1>8 DEF TopsLeft, PlaceInv, TopsShown
<1> QED BY <1>2, <1>3, <1>4, <1>7, <1>8, <1>9

LEMMA NextOfCurrent ==
  ASSUME PlaceInv, finished, Emitting, NEW p \in Nat, p = Len(FrameEvents), p < Len(history),
         NEW e, e = history[p + 1]
  PROVE  \/ /\ StepsLeft /\ Current.kids = {}
            /\ e.kind = "step" /\ e.frame = Current.id /\ e.index = Current.i
         \/ /\ Current.kids # {}
            /\ e.kind = "call" /\ e.frame = First(Current.kids)
         \/ /\ ~StepsLeft /\ Current.kids = {}
            /\ e.kind = "return" /\ e.frame = Current.id
<1>1. p + 1 \in 1..Len(history) /\ (p + 1) - 1 = p
  BY PlaceFacts
<1>2. PICK N \in Nat : N = Len(history)
  BY PlaceFacts
<1>3. PICK c \in 1..Len(frames) : c = Current.id
  BY CurrentFacts DEF PlaceInv, TypeInv
<1>4. PICK i \in Nat : i = Current.i
  BY CurrentFacts DEF PlaceInv, TypeInv
<1>5. /\ Len(emitting) \in 1..Len(emitting) /\ Current = emitting[Len(emitting)]
      /\ Current.kids \in SUBSET (1..Len(frames))
  BY CurrentFacts DEF PlaceInv, TypeInv
<1>6. ActsIn(p + 1) = c
  BY <1>3, NextActor
<1>7. /\ e \in VmEvent /\ e.frame \in 1..Len(frames) /\ e.index \in Nat
      /\ e.kind \in {"call", "step", "return"}
  BY <1>1, VmFacts DEF PlaceInv, TypeInv, VmEvent
<1>8. /\ i <= Len(frames[c].steps) /\ Len(frames[c].steps) \in Nat
      /\ \A j \in Nat : j < i <=> Ran(c, j, p)
  BY <1>3, <1>4, <1>5, VmFacts DEF PlaceInv, TypeInv, StepsShown
<1>9. Current.kids = {k \in KidsBefore(c, i) : ~Did("call", k, p)}
  BY <1>3, <1>4, <1>5 DEF PlaceInv, KidsLeft
<1>10. IsOpen(c, p)
  BY <1>3, <1>5 DEF PlaceInv, EmittingIsOpen
<1>11. \A k \in 1..Len(frames) : ~IsOpen(k, N)
  <2>1. vm = <<>>
    BY DEF PlaceInv, TypeInv, OrderInv, EndedEmpty
  <2> QED BY <1>2, <2>1 DEF PlaceInv, TypeInv, OrderInv, OpenRuns
<1>12. \A j \in Nat : j < Len(frames[c].steps) <=> Ran(c, j, N)
  BY <1>2, <1>11 DEF PlaceInv, TypeInv, OrderInv, NotedTraces
<1>13. \A k \in 1..Len(frames) : \E b \in 1..N : history[b].kind = "call" /\ history[b].frame = k
  BY <1>2 DEF PlaceInv, TypeInv, OrderInv, CallsInOrder, Did
<1>14. \A b \in 1..N : b \in 1..p \/ b = p + 1 \/ b > p + 1
  OBVIOUS
<1>15. \A a, b \in 1..N :
         /\ history[a].kind = "call" /\ history[b].kind = "step"
         /\ history[b].frame = frames[history[a].frame].parent
         => (b < a <=> history[b].index < frames[history[a].frame].parent_step)
  BY <1>2 DEF PlaceInv, TypeInv, IInv, SplicedWhereMade
<1>16. StepsLeft <=> i < Len(frames[c].steps)
  BY <1>3, <1>4 DEF StepsLeft
<1>17. CASE e.kind = "step"
  <2>1. e.frame = c
    BY <1>6, <1>17 DEF ActsIn
  <2>2. \A j \in Nat : j < e.index <=> Ran(c, j, p)
    BY <1>1, <1>17, <2>1 DEF PlaceInv, TypeInv, OrderInv, StepsInOrder
  <2>3. e.index = i
    <3>1. ~(i < e.index) /\ ~(e.index < i)
      BY <1>7, <1>8, <2>2
    <3> QED BY <1>7, <3>1
  <2>4. i < Len(frames[c].steps)
    <3>1. Ran(c, i, N)
      BY <1>1, <1>2, <1>17, <2>1, <2>3 DEF Ran
    <3> QED BY <1>12, <3>1
  <2>5. ASSUME NEW k \in Current.kids PROVE FALSE
    <3>1. /\ k \in 1..Len(frames) /\ frames[k].parent = c /\ frames[k].parent_step = i
          /\ ~Did("call", k, p)
      BY <1>9, <2>4 DEF KidsBefore, kid_at, children
    <3>2. PICK b \in 1..N : history[b].kind = "call" /\ history[b].frame = k
      BY <1>13, <3>1
    <3>3. b \notin 1..p /\ b # p + 1
      BY <1>17, <3>1, <3>2 DEF Did
    <3>4. p + 1 < b
      BY <1>14, <3>3
    <3>5. history[p + 1].index < frames[k].parent_step
      BY <1>1, <1>2, <1>15, <1>17, <2>1, <3>1, <3>2, <3>4
    <3> QED BY <2>3, <3>1, <3>5
  <2> QED BY <1>3, <1>4, <1>16, <1>17, <2>1, <2>3, <2>4, <2>5
<1>18. CASE e.kind = "call"
  <2>1. frames[e.frame].parent = c
    BY <1>6, <1>18 DEF ActsIn
  <2>2. PICK t \in Nat : t = frames[e.frame].parent_step
    BY <1>7, <2>1, NoParentAssumption DEF PlaceInv, TypeInv, OrderInv, SpliceNoted
  <2>3. \A b \in 1..N : history[b].kind = "step" /\ history[b].frame = c
                        => (b < p + 1 <=> history[b].index < t)
    BY <1>1, <1>2, <1>15, <1>18, <2>1, <2>2
  <2>4. \A j \in Nat : j < i => j < t
    <3> SUFFICES ASSUME NEW j \in Nat, j < i PROVE j < t
      OBVIOUS
    <3>1. PICK b \in 1..p : history[b].kind = "step" /\ history[b].frame = c /\ history[b].index = j
      BY <1>8 DEF Ran
    <3>2. b \in 1..N /\ b < p + 1
      BY <1>1, <1>2
    <3> QED BY <2>3, <3>1, <3>2
  <2>5. \A j \in Nat : i <= j /\ j < Len(frames[c].steps) => t <= j
    <3> SUFFICES ASSUME NEW j \in Nat, i <= j, j < Len(frames[c].steps) PROVE t <= j
      OBVIOUS
    <3>1. PICK b \in 1..N : history[b].kind = "step" /\ history[b].frame = c /\ history[b].index = j
      BY <1>12 DEF Ran
    <3>2. ~Ran(c, j, p)
      BY <1>8
    <3>3. b \notin 1..p
      BY <3>1, <3>2 DEF Ran
    <3>4. ~(b < p + 1)
      BY <1>14, <3>3
    <3> QED BY <2>2, <2>3, <3>1, <3>4
  <2>6. e.frame \in KidsBefore(c, i)
    <3>1. e.frame \in children(c)
      BY <1>7, <2>1 DEF children
    <3>2. i <= t
      BY <2>4
    <3>3. CASE i < Len(frames[c].steps)
      <4>1. t = i
        BY <2>5, <3>2, <3>3
      <4>2. InRange(c, e.frame)
        BY <2>2, <3>3, <4>1, NoStepAssumption DEF InRange
      <4> QED BY <2>2, <3>1, <3>3, <4>1, <4>2 DEF KidsBefore, kid_at
    <3>4. CASE ~(i < Len(frames[c].steps))
      <4>1. ~InRange(c, e.frame)
        BY <1>8, <2>2, <3>2, <3>4 DEF InRange
      <4> QED BY <3>1, <3>4, <4>1 DEF KidsBefore, kid_end
    <3> QED BY <3>3, <3>4
  <2>7. \A k \in 1..Len(frames) : k < e.frame <=> Did("call", k, p)
    BY <1>1, <1>18 DEF PlaceInv, TypeInv, OrderInv, CallsInOrder
  <2>8. e.frame \in Current.kids
    BY <1>7, <1>9, <2>6, <2>7
  <2>9. First(Current.kids) \in Current.kids /\ First(Current.kids) <= e.frame
    <3>1. Current.kids \in SUBSET Nat
      BY <1>5
    <3> QED BY <2>8, <3>1, FirstIsLeast
  <2>10. ~Did("call", First(Current.kids), p)
    BY <1>9, <2>9
  <2>11. ~(First(Current.kids) < e.frame)
    BY <1>5, <2>7, <2>9, <2>10
  <2>12. First(Current.kids) \in 1..Len(frames)
    BY <1>5, <2>9
  <2> QED BY <1>7, <1>18, <2>8, <2>9, <2>11, <2>12
<1>19. CASE e.kind = "return"
  <2>1. e.frame = c
    BY <1>6, <1>19 DEF ActsIn
  <2>2. ASSUME NEW b \in 1..N, b > p + 1, ActsIn(b) = c PROVE FALSE
    <3>1. IsOpen(c, b - 1)
      BY <1>2, <1>3, <2>2, NoParentAssumption DEF PlaceInv, TypeInv, OrderInv, InnermostActs
    <3>2. p + 1 \in 1..b - 1
      BY <2>2
    <3> QED BY <1>19, <2>1, <3>1, <3>2 DEF IsOpen, Did
  <2>3. ~(i < Len(frames[c].steps))
    <3> SUFFICES ASSUME i < Len(frames[c].steps) PROVE FALSE
      OBVIOUS
    <3>1. PICK b \in 1..N : history[b].kind = "step" /\ history[b].frame = c /\ history[b].index = i
      BY <1>12 DEF Ran
    <3>2. ~Ran(c, i, p)
      BY <1>8
    <3>3. b \notin 1..p /\ b # p + 1
      BY <1>19, <3>1, <3>2 DEF Ran
    <3>4. b > p + 1
      BY <1>14, <3>3
    <3> QED BY <2>2, <3>1, <3>4 DEF ActsIn
  <2>4. ASSUME NEW k \in Current.kids PROVE FALSE
    <3>1. k \in 1..Len(frames) /\ frames[k].parent = c /\ ~Did("call", k, p)
      BY <1>9 DEF KidsBefore, kid_at, kid_end, children
    <3>2. PICK b \in 1..N : history[b].kind = "call" /\ history[b].frame = k
      BY <1>13, <3>1
    <3>3. b \notin 1..p /\ b # p + 1
      BY <1>19, <3>1, <3>2 DEF Did
    <3>4. b > p + 1
      BY <1>14, <3>3
    <3> QED BY <2>2, <3>1, <3>2, <3>4 DEF ActsIn
  <2> QED BY <1>3, <1>16, <1>19, <2>1, <2>3, <2>4
<1> QED BY <1>7, <1>17, <1>18, <1>19

-----------------------------------------------------------------------------
(***************************************************************************)
(* There is a next event while a frame is emitted or left to emit.         *)
(***************************************************************************)
LEMMA MoreWhileEmitting ==
  ASSUME PlaceInv, finished, Emitting
  PROVE  Len(FrameEvents) < Len(history)
<1>1. /\ Current.id \in 1..Len(frames) /\ Current = emitting[Len(emitting)]
      /\ Len(emitting) \in 1..Len(emitting)
  BY CurrentFacts DEF PlaceInv, TypeInv
<1>2. IsOpen(Current.id, Len(FrameEvents))
  BY <1>1 DEF PlaceInv, EmittingIsOpen
<1>3. ~IsOpen(Current.id, Len(history))
  <2>1. vm = <<>>
    BY DEF PlaceInv, TypeInv, OrderInv, EndedEmpty
  <2> QED BY <1>1, <2>1 DEF PlaceInv, TypeInv, OrderInv, OpenRuns
<1>4. Len(FrameEvents) # Len(history)
  BY <1>2, <1>3
<1>5. Len(FrameEvents) <= Len(history)
  BY DEF PlaceInv, ShownIsPast
<1>6. Len(FrameEvents) \in Nat /\ Len(history) \in Nat
  BY PlaceFacts
<1> QED BY <1>4, <1>5, <1>6

LEMMA MoreWhileTopsLeft ==
  ASSUME PlaceInv, TopsLeft # {}
  PROVE  Len(FrameEvents) < Len(history)
<1>1. PICK k \in 1..Len(frames) : k \in children(NoParent) /\ k > topsDone
  BY DEF TopsLeft, children
<1>2. ~Did("call", k, Len(FrameEvents))
  BY <1>1, WriterTypes DEF PlaceInv, TypeInv, TopsShown
<1>3. Did("call", k, Len(history))
  BY DEF PlaceInv, TypeInv, OrderInv, CallsInOrder
<1>4. Len(FrameEvents) # Len(history)
  BY <1>2, <1>3
<1>5. Len(FrameEvents) <= Len(history)
  BY DEF PlaceInv, ShownIsPast
<1>6. Len(FrameEvents) \in Nat /\ Len(history) \in Nat
  BY PlaceFacts
<1> QED BY <1>4, <1>5, <1>6

(* The next event is shown. *)
LEMMA ShownNext ==
  ASSUME PlaceInv, history' = history, NEW p \in Nat, p = Len(FrameEvents), p < Len(history),
         NEW x \in OutEvent, x = Plain(history[p + 1]), FrameEvents' = Append(FrameEvents, x)
  PROVE  /\ ShownIsPast' /\ Len(FrameEvents') = p + 1
         /\ \A kind, k : Did(kind, k, Len(FrameEvents))' <=> Did(kind, k, p + 1)
         /\ \A k : IsOpen(k, Len(FrameEvents))' <=> IsOpen(k, p + 1)
         /\ \A k, i : Ran(k, i, Len(FrameEvents))' <=> Ran(k, i, p + 1)
<1>1. /\ Len(FrameEvents') = p + 1 /\ FrameEvents'[p + 1] = x
      /\ \A i \in 1..p : FrameEvents'[i] = FrameEvents[i]
  BY PlaceFacts, AppendFacts
<1>2. ShownIsPast'
  <2>1. p + 1 <= Len(history)
    BY PlaceFacts
  <2>2. \A i \in 1..p : FrameEvents'[i] = Plain(history[i])
    BY <1>1 DEF PlaceInv, ShownIsPast
  <2>3. \A i \in 1..p + 1 : i \in 1..p \/ i = p + 1
    OBVIOUS
  <2>4. \A i \in 1..p + 1 : FrameEvents'[i] = Plain(history[i])
    BY <1>1, <2>2, <2>3
  <2> QED BY <1>1, <2>1, <2>4 DEF ShownIsPast, Plain
<1>3. \A kind, k : Did(kind, k, Len(FrameEvents))' <=> Did(kind, k, p + 1)
  BY <1>1 DEF Did
<1>4. \A k, i : Ran(k, i, Len(FrameEvents))' <=> Ran(k, i, p + 1)
  BY <1>1 DEF Ran
<1>5. \A k : IsOpen(k, Len(FrameEvents))' <=> IsOpen(k, p + 1)
  BY <1>1 DEF IsOpen, Did
<1> QED BY <1>1, <1>2, <1>3, <1>4, <1>5

(***************************************************************************)
(* Nothing happens in a frame before it is called.                         *)
(***************************************************************************)
LEMMA FreshFrame ==
  ASSUME IInv, OrderInv, NEW p \in Nat, p < Len(history), NEW e, e = history[p + 1], e.kind = "call"
  PROVE  /\ e.frame \in 1..Len(frames)
         /\ \A k \in 1..Len(frames) : k < e.frame <=> Did("call", k, p)
         /\ ~Did("call", e.frame, p) /\ ~Did("return", e.frame, p + 1)
         /\ \A j : ~Ran(e.frame, j, p + 1)
         /\ \A k \in KidsBefore(e.frame, 0) : ~Did("call", k, p + 1)
<1>1. p + 1 \in 1..Len(history) /\ (p + 1) - 1 = p
  BY VmFacts
<1>2. PICK id \in 1..Len(frames) : id = e.frame
  BY <1>1, VmFacts
<1>3. \A k \in 1..Len(frames) : k < id <=> Did("call", k, p)
  BY <1>1, <1>2 DEF OrderInv, CallsInOrder
<1>4. ~Did("call", id, p)
  BY <1>3
<1>5. ASSUME NEW b \in 1..p + 1, ActsIn(b) = id PROVE FALSE
  <2>1. b \in 1..Len(history) /\ b - 1 \in 0..p
    BY <1>1, VmFacts
  <2>2. IsOpen(id, b - 1)
    BY <1>5, <2>1, NoParentAssumption DEF OrderInv, InnermostActs
  <2>3. \A a \in 1..b - 1 : a \in 1..p
    BY <2>1
  <2> QED BY <1>4, <2>2, <2>3 DEF IsOpen, Did
<1>6. ~Did("return", id, p + 1)
  BY <1>5 DEF Did, ActsIn
<1>7. \A j : ~Ran(id, j, p + 1)
  BY <1>5 DEF Ran, ActsIn
<1>8. \A k \in KidsBefore(id, 0) : ~Did("call", k, p + 1)
  <2>1. \A k \in KidsBefore(id, 0) : frames[k].parent = id
    BY DEF KidsBefore, kid_at, kid_end, children
  <2> QED BY <1>5, <2>1 DEF Did, ActsIn
<1> QED BY <1>2, <1>3, <1>4, <1>6, <1>7, <1>8

LEMMA KidsBeforeStays ==
  ASSUME frames' = frames
  PROVE  \A id, i : KidsBefore(id, i)' = KidsBefore(id, i)
BY DEF KidsBefore, kid_at, kid_end, InRange, children

LEMMA CountStays ==
  ASSUME history' = history
  PROVE  \A q : StepsBy(q)' = StepsBy(q)
BY DEF StepsBy

-----------------------------------------------------------------------------
(***************************************************************************)
(* Each action of the writer keeps its place.                              *)
(***************************************************************************)
LEMMA EmitTopKeepsPlace ==
  ASSUME PlaceInv, TypeInv', UNCHANGED observerVars, EmitTop
  PROVE  PlaceInv'
<1>1. UNCHANGED <<history, frames, finished>> /\ ~Emitting /\ TopsLeft # {}
  BY DEF observerVars, EmitTop
<1>2. PICK p \in Nat : p = Len(FrameEvents) /\ p < Len(history)
  BY <1>1, PlaceFacts, MoreWhileTopsLeft
<1>3. PICK e : e = history[p + 1]
  OBVIOUS
<1>4. PICK id : id = First(TopsLeft)
  OBVIOUS
<1>5. e.kind = "call" /\ e.frame = id /\ id \in 1..Len(frames) /\ id \in children(NoParent)
  BY <1>1, <1>2, <1>3, <1>4, NextTop, TopsFacts DEF PlaceInv, TypeInv, TopsLeft
<1>6. /\ emitting' = <<Activation(id)>> /\ out' = Append(out, Entered(id))
      /\ topsDone' = id /\ rec' = rec /\ closed' = closed
  BY <1>4 DEF EmitTop
<1>7. PICK x \in OutEvent : x = Entered(id) /\ OfFrame(x)
  BY <1>5, OutEvents
<1>8. p + 1 \in 1..Len(history)
  BY <1>2, PlaceFacts
<1>9. x = Plain(history[p + 1])
  BY <1>3, <1>5, <1>7, <1>8 DEF Entered, Plain, PlaceInv, TypeInv, OrderInv, EventIndexes
<1>10. FrameEvents' = Append(FrameEvents, x)
  BY <1>6, <1>7, EventsGrow, WriterTypes DEF FrameEvents, PlaceInv, TypeInv
<1>11. /\ ShownIsPast' /\ Len(FrameEvents') = p + 1
       /\ \A kind, k : Did(kind, k, Len(FrameEvents))' <=> Did(kind, k, p + 1)
       /\ \A k : IsOpen(k, Len(FrameEvents))' <=> IsOpen(k, p + 1)
       /\ \A k, i : Ran(k, i, Len(FrameEvents))' <=> Ran(k, i, p + 1)
  BY <1>1, <1>2, <1>9, <1>10, ShownNext
<1>12. /\ \A kind, k : Did(kind, k, p + 1) <=> Did(kind, k, p) \/ (kind = "call" /\ k = id)
       /\ \A k, i : Ran(k, i, p + 1) <=> Ran(k, i, p)
  BY <1>3, <1>5, NextPast
<1>13. /\ \A k \in 1..Len(frames) : k < id <=> Did("call", k, p)
       /\ ~Did("call", id, p) /\ ~Did("return", id, p + 1)
       /\ \A j : ~Ran(id, j, p + 1)
       /\ \A k \in KidsBefore(id, 0) : ~Did("call", k, p + 1)
  BY <1>2, <1>3, <1>5, FreshFrame DEF PlaceInv, TypeInv
<1>14. PICK act : act = Activation(id)
  OBVIOUS
<1>15. act.id = id /\ act.i = 0 /\ act.kids = KidsBefore(id, 0)
  BY <1>5, <1>14, ActivationFacts
<1>16. emitting' = <<act>> /\ Len(emitting') = 1 /\ \A m \in 1..1 : emitting'[m] = act
  BY <1>6, <1>14
<1>17. EmittingIsOpen'
  <2>1. ASSUME NEW k \in 1..Len(frames)
        PROVE  IsOpen(k, p + 1) <=> k = id
    <3>1. ~IsOpen(k, p)
      BY <1>1, <1>2, PlaceFacts DEF PlaceInv, EmittingIsOpen, Emitting
    <3> QED BY <1>12, <1>13, <3>1 DEF IsOpen
  <2> QED BY <1>1, <1>11, <1>15, <1>16, <2>1 DEF EmittingIsOpen
<1>18. StepsShown'
  <2>1. 0 <= Len(frames[id].steps)
    BY <1>5, VmFacts DEF PlaceInv, TypeInv
  <2>2. \A j \in Nat : ~(j < 0)
    OBVIOUS
  <2>3. \A m \in 1..Len(emitting') : emitting'[m].id = id /\ emitting'[m].i = 0
    BY <1>15, <1>16
  <2>4. \A j : ~Ran(id, j, Len(FrameEvents))'
    BY <1>11, <1>13
  <2>5. \A m \in 1..Len(emitting') : \A j \in Nat : ~Ran(emitting[m].id, j, Len(FrameEvents))'
    BY <2>3, <2>4 DEF Ran
  <2> QED BY <1>1, <2>1, <2>2, <2>3, <2>5 DEF StepsShown
<1>19. KidsLeft'
  <2>1. \A m \in 1..Len(emitting') :
          emitting'[m].kids = KidsBefore(id, 0) /\ emitting'[m].id = id /\ emitting'[m].i = 0
    BY <1>15, <1>16
  <2>2. KidsBefore(id, 0) = {k \in KidsBefore(id, 0) : ~Did("call", k, p + 1)}
    BY <1>13
  <2>3. ASSUME NEW m \in 1..Len(emitting')
        PROVE  KidsBefore(emitting[m].id, emitting[m].i)' = KidsBefore(id, 0)
    BY <1>1, <2>1 DEF KidsBefore, kid_at, kid_end, InRange, children
  <2> QED BY <1>11, <2>1, <2>2, <2>3 DEF KidsLeft
<1>20. TopsShown'
  <2>1. children(NoParent)' = children(NoParent)
    BY <1>1 DEF children
  <2>2. \A k \in children(NoParent) : k <= id <=> Did("call", k, p + 1)
    <3> SUFFICES ASSUME NEW k \in children(NoParent) PROVE k <= id <=> Did("call", k, p + 1)
      OBVIOUS
    <3>1. k \in 1..Len(frames)
      BY DEF children
    <3> QED BY <1>5, <1>12, <1>13, <3>1
  <2> QED BY <1>6, <1>11, <2>1, <2>2 DEF TopsShown
<1>21. ClosedDone'
  <2>1. ~closed
    BY <1>2 DEF PlaceInv, ClosedDone
  <2> QED BY <1>6, <2>1 DEF ClosedDone
<1>22. StepsCounted'
  <2>1. Cardinality(StepsBy(p + 1)) = Cardinality(StepsBy(p))
    BY <1>3, <1>5, OneMoreStep
  <2>2. StepsBy(Len(FrameEvents))' = StepsBy(p + 1)
    BY <1>1, <1>11 DEF StepsBy
  <2> QED BY <1>2, <1>6, <2>1, <2>2 DEF StepsCounted, PlaceInv
<1> QED BY <1>11, <1>17, <1>18, <1>19, <1>20, <1>21, <1>22 DEF PlaceInv

LEMMA SpliceKidKeepsPlace ==
  ASSUME PlaceInv, TypeInv', UNCHANGED observerVars, finished, SpliceKid
  PROVE  PlaceInv'
<1>1. UNCHANGED <<history, frames, finished>> /\ Emitting /\ Current.kids # {}
  BY DEF observerVars, SpliceKid, MaySplice
<1>2. PICK p \in Nat : p = Len(FrameEvents) /\ p < Len(history)
  BY <1>1, PlaceFacts, MoreWhileEmitting
<1>3. PICK e : e = history[p + 1]
  OBVIOUS
<1>4. PICK id \in Current.kids, act \in ActivationSet :
           /\ id = First(Current.kids)
           /\ act.id = Current.id /\ act.i = Current.i /\ act.kids = Current.kids \ {id}
           /\ emitting' = Append([emitting EXCEPT ![Len(emitting)] = act], Activation(id))
           /\ out' = Append(out, Entered(id))
  BY SpliceKidFacts DEF PlaceInv, TypeInv
<1>5. e.kind = "call" /\ e.frame = id /\ id \in 1..Len(frames)
  <2>1. id \in 1..Len(frames)
    BY <1>1, CurrentFacts DEF PlaceInv, TypeInv
  <2> QED BY <1>1, <1>2, <1>3, <1>4, <2>1, NextOfCurrent
<1>6. topsDone' = topsDone /\ rec' = rec /\ closed' = closed
  BY DEF SpliceKid
<1>7. PICK x \in OutEvent : x = Entered(id) /\ OfFrame(x)
  BY <1>5, OutEvents
<1>8. p + 1 \in 1..Len(history)
  BY <1>2, PlaceFacts
<1>9. x = Plain(history[p + 1])
  BY <1>3, <1>5, <1>7, <1>8 DEF Entered, Plain, PlaceInv, TypeInv, OrderInv, EventIndexes
<1>10. FrameEvents' = Append(FrameEvents, x)
  BY <1>4, <1>7, EventsGrow, WriterTypes DEF FrameEvents, PlaceInv, TypeInv
<1>11. /\ ShownIsPast' /\ Len(FrameEvents') = p + 1
       /\ \A kind, k : Did(kind, k, Len(FrameEvents))' <=> Did(kind, k, p + 1)
       /\ \A k : IsOpen(k, Len(FrameEvents))' <=> IsOpen(k, p + 1)
       /\ \A k, i : Ran(k, i, Len(FrameEvents))' <=> Ran(k, i, p + 1)
  BY <1>1, <1>2, <1>9, <1>10, ShownNext
<1>12. /\ \A kind, k : Did(kind, k, p + 1) <=> Did(kind, k, p) \/ (kind = "call" /\ k = id)
       /\ \A k, i : Ran(k, i, p + 1) <=> Ran(k, i, p)
  BY <1>3, <1>5, NextPast
<1>13. /\ \A k \in 1..Len(frames) : k < id <=> Did("call", k, p)
       /\ ~Did("call", id, p) /\ ~Did("return", id, p + 1)
       /\ \A j : ~Ran(id, j, p + 1)
       /\ \A k \in KidsBefore(id, 0) : ~Did("call", k, p + 1)
  BY <1>2, <1>3, <1>5, FreshFrame DEF PlaceInv, TypeInv
<1>14. PICK n \in Nat \ {0} : n = Len(emitting) /\ Current = emitting[n] /\ n \in 1..Len(emitting)
  BY <1>1, CurrentFacts DEF PlaceInv, TypeInv
<1>15. PICK kid \in ActivationSet : /\ kid = Activation(id)
                                    /\ kid.id = id /\ kid.i = 0 /\ kid.kids = KidsBefore(id, 0)
  BY <1>5, ActivationFacts
<1>16. /\ Len(emitting') = n + 1 /\ emitting'[n + 1] = kid
       /\ \A m \in 1..n : emitting'[m] = IF m = n THEN act ELSE emitting[m]
  <2>1. emitting \in Seq(ActivationSet) /\ emitting # <<>>
    BY <1>1, WriterTypes DEF Emitting, PlaceInv, TypeInv
  <2>2. PICK t \in Seq(ActivationSet) :
          /\ t = [emitting EXCEPT ![Len(emitting)] = act]
          /\ Len(t) = n /\ \A m \in 1..n : t[m] = IF m = n THEN act ELSE emitting[m]
    <3>1. PICK t : t = [emitting EXCEPT ![Len(emitting)] = act]
      OBVIOUS
    <3>2. /\ t \in Seq(ActivationSet) /\ Len(t) = Len(emitting)
          /\ \A m \in 1..Len(emitting) : t[m] = IF m = Len(emitting) THEN act ELSE emitting[m]
      BY <2>1, <3>1, WithLastFacts
    <3> QED BY <1>14, <3>1, <3>2
  <2>3. emitting' = Append(t, kid)
    BY <1>4, <1>15, <2>2
  <2> QED BY <2>2, <2>3, AppendFacts
<1>17. \A m \in 1..n : emitting'[m].id = emitting[m].id /\ emitting'[m].i = emitting[m].i
  BY <1>4, <1>14, <1>16
<1>18. \A m \in 1..n + 1 : m \in 1..n \/ m = n + 1
  OBVIOUS
<1>19. \A m \in 1..n : emitting[m].id \in 1..Len(frames) /\ emitting[m].id < id
  <2>1. \A m \in 1..n : emitting[m].id \in 1..Len(frames)
    BY <1>14, PlaceFacts
  <2>2. \A m \in 1..n : IsOpen(emitting[m].id, p)
    BY <1>2, <1>14, <2>1 DEF PlaceInv, EmittingIsOpen
  <2> QED BY <1>13, <2>1, <2>2 DEF IsOpen
<1>20. EmittingIsOpen'
  <2>1. ASSUME NEW k \in 1..Len(frames)
        PROVE  IsOpen(k, p + 1) <=> \E m \in 1..n + 1 : emitting'[m].id = k
    <3>1. IsOpen(k, p) <=> \E m \in 1..n : emitting[m].id = k
      BY <1>2, <1>14 DEF PlaceInv, EmittingIsOpen
    <3>2. IsOpen(k, p + 1) <=> IsOpen(k, p) \/ k = id
      BY <1>12, <1>13 DEF IsOpen
    <3>3. (\E m \in 1..n + 1 : emitting'[m].id = k) <=> (\E m \in 1..n : emitting[m].id = k) \/ k = id
      BY <1>15, <1>16, <1>17, <1>18
    <3> QED BY <3>1, <3>2, <3>3
  <2>2. ASSUME NEW m \in 1..n + 1, NEW l \in 1..n + 1, m < l
        PROVE  emitting'[m].id < emitting'[l].id
    <3>1. m \in 1..n
      BY <2>2
    <3>2. CASE l = n + 1
      BY <1>15, <1>16, <1>17, <1>19, <3>1, <3>2
    <3>3. CASE l \in 1..n
      BY <1>14, <1>17, <2>2, <3>1, <3>3 DEF PlaceInv, EmittingIsOpen
    <3> QED BY <1>18, <3>2, <3>3
  <2> QED BY <1>1, <1>11, <1>16, <2>1, <2>2 DEF EmittingIsOpen
<1>21. StepsShown'
  <2> SUFFICES ASSUME NEW m \in 1..n + 1
               PROVE  /\ emitting'[m].i <= Len(frames[emitting'[m].id].steps)
                      /\ \A j \in Nat : j < emitting'[m].i <=> Ran(emitting[m].id, j, Len(FrameEvents))'
    BY <1>1, <1>16 DEF StepsShown
  <2>1. PICK k : k = emitting'[m].id
    OBVIOUS
  <2>2. \A j : Ran(emitting[m].id, j, Len(FrameEvents))' <=> Ran(k, j, p)
    <3>1. \A j : Ran(k, j, Len(FrameEvents))' <=> Ran(k, j, p)
      BY <1>11, <1>12
    <3> QED BY <2>1, <3>1 DEF Ran
  <2>3. CASE m \in 1..n
    <3>1. k = emitting[m].id /\ emitting'[m].i = emitting[m].i
      BY <1>17, <2>1, <2>3
    <3> QED BY <1>2, <1>14, <2>1, <2>2, <2>3, <3>1 DEF PlaceInv, StepsShown
  <2>4. CASE m = n + 1
    <3>1. k = id /\ emitting'[m].i = 0
      BY <1>15, <1>16, <2>1, <2>4
    <3>2. 0 <= Len(frames[id].steps) /\ \A j \in Nat : ~(j < 0)
      BY <1>5, VmFacts DEF PlaceInv, TypeInv
    <3>3. \A j : ~Ran(k, j, p)
      BY <1>12, <1>13, <3>1
    <3> QED BY <2>1, <2>2, <3>1, <3>2, <3>3
  <2> QED BY <1>18, <2>3, <2>4
<1>22. KidsLeft'
  <2> SUFFICES ASSUME NEW m \in 1..n + 1
               PROVE  emitting'[m].kids = {k \in KidsBefore(emitting[m].id, emitting[m].i)' :
                                             ~Did("call", k, Len(FrameEvents))'}
    BY <1>16 DEF KidsLeft
  <2>1. PICK g : g = emitting'[m].id
    OBVIOUS
  <2>2. PICK i : i = emitting'[m].i
    OBVIOUS
  <2>3. KidsBefore(emitting[m].id, emitting[m].i)' = KidsBefore(g, i)
    BY <1>1, <2>1, <2>2 DEF KidsBefore, kid_at, kid_end, InRange, children
  <2>4. SUFFICES emitting'[m].kids = {k \in KidsBefore(g, i) : ~Did("call", k, p + 1)}
    BY <1>11, <2>3
  <2>5. CASE m \in 1..n
    <3>1. g = emitting[m].id /\ i = emitting[m].i
      BY <1>17, <2>1, <2>2, <2>5
    <3>2. emitting[m].kids = {k \in KidsBefore(g, i) : ~Did("call", k, p)}
      BY <1>2, <1>14, <2>5, <3>1 DEF PlaceInv, KidsLeft
    <3>3. CASE m = n
      <4>1. emitting'[m].kids = emitting[m].kids \ {id}
        BY <1>4, <1>14, <1>16, <3>3
      <4> QED BY <1>12, <3>2, <4>1
    <3>4. CASE m # n
      <4>1. emitting'[m].kids = emitting[m].kids
        BY <1>16, <2>5, <3>4
      <4>2. frames[id].parent = emitting[n].id
        <5>1. emitting[n].kids = {k \in KidsBefore(emitting[n].id, emitting[n].i) : ~Did("call", k, p)}
          BY <1>2, <1>14 DEF PlaceInv, KidsLeft
        <5> QED BY <1>4, <1>14, <5>1 DEF KidsBefore, kid_at, kid_end, children
      <4>3. emitting[m].id < emitting[n].id
        BY <1>14, <2>5, <3>4 DEF PlaceInv, EmittingIsOpen
      <4>4. g # frames[id].parent
        BY <1>14, <1>19, <3>1, <4>2, <4>3
      <4>5. id \notin KidsBefore(g, i)
        BY <4>4 DEF KidsBefore, kid_at, kid_end, children
      <4> QED BY <1>12, <3>2, <4>1, <4>5
    <3> QED BY <3>3, <3>4
  <2>6. CASE m = n + 1
    <3>1. g = id /\ i = 0 /\ emitting'[m].kids = KidsBefore(id, 0)
      BY <1>15, <1>16, <2>1, <2>2, <2>6
    <3> QED BY <1>13, <3>1
  <2> QED BY <1>18, <2>5, <2>6
<1>23. TopsShown'
  <2>1. children(NoParent)' = children(NoParent)
    BY <1>1 DEF children
  <2>2. id \notin children(NoParent)
    <3>1. Current.id \in 1..Len(frames)
      BY <1>1, CurrentFacts DEF PlaceInv, TypeInv
    <3>2. frames[id].parent = Current.id
      <4>1. Current.kids = {k \in KidsBefore(Current.id, Current.i) : ~Did("call", k, p)}
        BY <1>2, <1>14 DEF PlaceInv, KidsLeft
      <4> QED BY <1>4, <4>1 DEF KidsBefore, kid_at, kid_end, children
    <3> QED BY <3>1, <3>2, NoParentAssumption DEF children
  <2>3. \A k \in children(NoParent) : k <= topsDone <=> Did("call", k, p + 1)
    BY <1>2, <1>12, <2>2 DEF PlaceInv, TopsShown
  <2> QED BY <1>6, <1>11, <2>1, <2>3 DEF TopsShown
<1>24. ClosedDone'
  <2>1. ~closed
    BY <1>2 DEF PlaceInv, ClosedDone
  <2> QED BY <1>6, <2>1 DEF ClosedDone
<1>25. StepsCounted'
  <2>1. Cardinality(StepsBy(p + 1)) = Cardinality(StepsBy(p))
    BY <1>3, <1>5, OneMoreStep
  <2>2. StepsBy(Len(FrameEvents))' = StepsBy(p + 1)
    BY <1>1, <1>11 DEF StepsBy
  <2> QED BY <1>2, <1>6, <2>1, <2>2 DEF StepsCounted, PlaceInv
<1> QED BY <1>11, <1>20, <1>21, <1>22, <1>23, <1>24, <1>25 DEF PlaceInv

LEMMA WithCurrentFacts ==
  ASSUME WriterTypeOK, Emitting, NEW act \in ActivationSet, NEW t,
         t = [emitting EXCEPT ![Len(emitting)] = act],
         NEW n, n = Len(emitting)
  PROVE  /\ n \in Nat \ {0} /\ Current = emitting[n]
         /\ Len(t) = n /\ \A m \in 1..n : t[m] = IF m = n THEN act ELSE emitting[m]
<1>1. emitting \in Seq(ActivationSet) /\ emitting # <<>>
  BY WriterTypes DEF Emitting
<1>2. /\ Len(t) = Len(emitting)
      /\ \A m \in 1..Len(emitting) : t[m] = IF m = Len(emitting) THEN act ELSE emitting[m]
  BY <1>1, WithLastFacts
<1>3. n \in Nat \ {0} /\ Current = emitting[n]
  BY CurrentFacts
<1> QED BY <1>2, <1>3

LEMMA EmitStepKeepsPlace ==
  ASSUME PlaceInv, TypeInv', UNCHANGED observerVars, finished, EmitStep
  PROVE  PlaceInv'
<1>1. /\ UNCHANGED <<history, frames, finished>> /\ Emitting /\ Current.kids = {} /\ StepsLeft
  BY DEF observerVars, EmitStep
<1>2. PICK p \in Nat : p = Len(FrameEvents) /\ p < Len(history)
  BY <1>1, PlaceFacts, MoreWhileEmitting
<1>3. PICK e : e = history[p + 1]
  OBVIOUS
<1>4. PICK c \in 1..Len(frames), at \in Nat : c = Current.id /\ at = Current.i
  BY <1>1, CurrentFacts DEF PlaceInv, TypeInv
<1>5. e.kind = "step" /\ e.frame = c /\ e.index = at
  BY <1>1, <1>2, <1>3, <1>4, NextOfCurrent
<1>6. PICK act \in ActivationSet :
           /\ act.id = c /\ act.i = at + 1 /\ act.kids = KidsBefore(c, at + 1)
           /\ emitting' = [emitting EXCEPT ![Len(emitting)] = act]
           /\ out' = IF ClosesInternal(StepOp)
                     THEN Append(Append(out, Shown(c, at)), InternalReturn(c))
                     ELSE Append(out, Shown(c, at))
  BY <1>4, EmitStepFacts DEF PlaceInv, TypeInv
<1>7. topsDone' = topsDone /\ rec' = [rec EXCEPT !.steps = @ + 1] /\ closed' = closed
  BY DEF EmitStep
<1>8. PICK x \in OutEvent : x = Shown(c, at) /\ OfFrame(x)
  BY <1>4, OutEvents
<1>9. p + 1 \in 1..Len(history)
  BY <1>2, PlaceFacts
<1>10. x = Plain(history[p + 1])
  BY <1>3, <1>5, <1>8 DEF Shown, Plain
<1>11. FrameEvents' = Append(FrameEvents, x)
  <2>1. out \in Seq(OutEvent)
    BY WriterTypes DEF PlaceInv, TypeInv
  <2>2. PICK t \in Seq(OutEvent) : t = Append(out, x)
    BY <2>1, AppendFacts
  <2>3. EventsOfFrames(t) = Append(EventsOfFrames(out), x)
    BY <1>8, <2>1, <2>2, EventsGrow
  <2>4. PICK y \in OutEvent : y = InternalReturn(c) /\ ~OfFrame(y)
    BY OutEvents
  <2>5. EventsOfFrames(Append(t, y)) = EventsOfFrames(t)
    BY <2>4, EventsGrow
  <2> QED BY <1>6, <1>8, <2>2, <2>3, <2>4, <2>5 DEF FrameEvents
<1>12. /\ ShownIsPast' /\ Len(FrameEvents') = p + 1
       /\ \A kind, k : Did(kind, k, Len(FrameEvents))' <=> Did(kind, k, p + 1)
       /\ \A k : IsOpen(k, Len(FrameEvents))' <=> IsOpen(k, p + 1)
       /\ \A k, j : Ran(k, j, Len(FrameEvents))' <=> Ran(k, j, p + 1)
  BY <1>1, <1>2, <1>10, <1>11, ShownNext
<1>13. /\ \A kind, k : kind # "step" => (Did(kind, k, p + 1) <=> Did(kind, k, p))
       /\ \A k, j : Ran(k, j, p + 1) <=> Ran(k, j, p) \/ (k = c /\ j = at)
  <2>6. PICK q \in Nat : q = p
    OBVIOUS
  <2>1. PICK d : q = p /\ d = e /\ d = history[q + 1]
    BY <1>3, <2>6
  <2>2. \A kind, k : Did(kind, k, q + 1) <=> Did(kind, k, q) \/ (d.kind = kind /\ d.frame = k)
    BY <2>1, NextPast
  <2>3. \A k, j : Ran(k, j, q + 1) <=>
                    Ran(k, j, q) \/ (d.kind = "step" /\ d.frame = k /\ d.index = j)
    BY <2>1, NextPast
  <2>4. \A kind, k : Did(kind, k, p + 1) <=> Did(kind, k, p) \/ (kind = "step" /\ k = c)
    BY <1>5, <2>1, <2>2
  <2>5. \A k, j : Ran(k, j, p + 1) <=> Ran(k, j, p) \/ (k = c /\ j = at)
    BY <1>5, <2>1, <2>3
  <2> QED BY <2>4, <2>5
<1>14. PICK n \in Nat \ {0} : /\ n = Len(emitting) /\ Current = emitting[n] /\ n \in 1..Len(emitting)
                              /\ Len(emitting') = n
                              /\ \A m \in 1..n : emitting'[m] = IF m = n THEN act ELSE emitting[m]
  <2>1. PICK n : n = Len(emitting)
    OBVIOUS
  <2>2. PICK t : t = emitting' /\ t = [emitting EXCEPT ![Len(emitting)] = act]
    BY <1>6
  <2>3. WriterTypeOK
    BY DEF PlaceInv, TypeInv
  <2>4. /\ n \in Nat \ {0} /\ Current = emitting[n]
        /\ Len(t) = n /\ \A m \in 1..n : t[m] = IF m = n THEN act ELSE emitting[m]
    BY <1>1, <2>1, <2>2, <2>3, WithCurrentFacts
  <2>5. n \in 1..Len(emitting)
    BY <2>1, <2>4
  <2> QED BY <2>1, <2>2, <2>4, <2>5
<1>15. \A m \in 1..n : emitting'[m].id = emitting[m].id
  BY <1>4, <1>6, <1>14
<1>16. \A m \in 1..n : m # n => emitting[m].id # c
  <2> SUFFICES ASSUME NEW m \in 1..n, m # n PROVE emitting[m].id # c
    OBVIOUS
  <2>0. m \in 1..Len(emitting) /\ n \in 1..Len(emitting) /\ m < n
    BY <1>14
  <2>3. EmittingIsOpen
    BY DEF PlaceInv
  <2>1. emitting[m].id < emitting[n].id
    BY <2>0, <2>3 DEF EmittingIsOpen
  <2>2. emitting[m].id \in Nat /\ emitting[n].id = c
    BY <1>4, <1>14, PlaceFacts
  <2> QED BY <2>1, <2>2
<1>17. at < Len(frames[c].steps) /\ Len(frames[c].steps) \in Nat
  BY <1>1, <1>4, VmFacts DEF StepsLeft, PlaceInv, TypeInv
<1>18. EmittingIsOpen'
  <2>1. \A k : IsOpen(k, p + 1) <=> IsOpen(k, p)
    BY <1>13 DEF IsOpen
  <2>2. ASSUME NEW k \in 1..Len(frames)
        PROVE  IsOpen(k, p + 1) <=> \E m \in 1..n : emitting'[m].id = k
    BY <1>2, <1>14, <1>15, <2>1 DEF PlaceInv, EmittingIsOpen
  <2>3. \A m, l \in 1..n : m < l => emitting'[m].id < emitting'[l].id
    BY <1>14, <1>15 DEF PlaceInv, EmittingIsOpen
  <2> QED BY <1>1, <1>12, <1>14, <2>2, <2>3 DEF EmittingIsOpen
<1>19. StepsShown'
  <2> SUFFICES ASSUME NEW m \in 1..n
               PROVE  /\ emitting'[m].i <= Len(frames[emitting'[m].id].steps)
                      /\ \A j \in Nat : j < emitting'[m].i <=> Ran(emitting[m].id, j, Len(FrameEvents))'
    BY <1>1, <1>14 DEF StepsShown
  <2>1. PICK k : k = emitting'[m].id /\ k = emitting[m].id
    BY <1>15
  <2>2. \A j : Ran(emitting[m].id, j, Len(FrameEvents))' <=> Ran(k, j, p) \/ (k = c /\ j = at)
    <3>1. \A j : Ran(k, j, Len(FrameEvents))' <=> Ran(k, j, p) \/ (k = c /\ j = at)
      BY <1>12, <1>13
    <3>2. \A j : Ran(emitting[m].id, j, Len(FrameEvents))' <=> Ran(k, j, Len(FrameEvents))'
      BY <2>1 DEF Ran
    <3> QED BY <3>1, <3>2
  <2>3. /\ emitting[m].i <= Len(frames[k].steps)
        /\ \A j \in Nat : j < emitting[m].i <=> Ran(k, j, p)
    BY <1>2, <1>14, <2>1 DEF PlaceInv, StepsShown
  <2>4. CASE m = n
    <3>1. k = c /\ emitting[m].i = at /\ emitting'[m].i = at + 1
      BY <1>4, <1>6, <1>14, <2>1, <2>4
    <3>2. at + 1 <= Len(frames[c].steps)
      BY <1>17
    <3>3. \A j \in Nat : j < at + 1 <=> j < at \/ j = at
      OBVIOUS
    <3> QED BY <2>1, <2>2, <2>3, <3>1, <3>2, <3>3
  <2>5. CASE m # n
    <3>1. emitting'[m].i = emitting[m].i
      BY <1>14, <2>5
    <3> QED BY <1>16, <2>1, <2>2, <2>3, <2>5, <3>1
  <2> QED BY <2>4, <2>5
<1>20. \A k \in KidsBefore(c, at + 1) : ~Did("call", k, p)
  <2> SUFFICES ASSUME NEW k \in KidsBefore(c, at + 1), Did("call", k, p) PROVE FALSE
    OBVIOUS
  <2>1. PICK b \in 1..p : history[b].kind = "call" /\ history[b].frame = k
    BY DEF Did
  <2>2. k \in 1..Len(frames) /\ frames[k].parent = c
    BY DEF KidsBefore, kid_at, kid_end, children
  <2>3. PICK t \in Nat : t = frames[k].parent_step
    BY <2>2, NoParentAssumption DEF PlaceInv, TypeInv, OrderInv, SpliceNoted
  <2>4. ~(at < t)
    <3>1. b \in 1..Len(history) /\ ~(p + 1 < b)
      BY <1>9
    <3> QED BY <1>3, <1>5, <1>9, <2>1, <2>2, <2>3, <3>1 DEF PlaceInv, TypeInv, IInv, SplicedWhereMade
  <2>5. InRange(c, k)
    BY <1>17, <2>3, <2>4, NoStepAssumption DEF InRange
  <2> QED BY <2>3, <2>4, <2>5 DEF KidsBefore, kid_at, kid_end
<1>21. KidsLeft'
  <2> SUFFICES ASSUME NEW m \in 1..n
               PROVE  emitting'[m].kids = {k \in KidsBefore(emitting[m].id, emitting[m].i)' :
                                             ~Did("call", k, Len(FrameEvents))'}
    BY <1>14 DEF KidsLeft
  <2>1. PICK g : g = emitting'[m].id
    OBVIOUS
  <2>2. PICK j : j = emitting'[m].i
    OBVIOUS
  <2>3. KidsBefore(emitting[m].id, emitting[m].i)' = KidsBefore(g, j)
    BY <1>1, <2>1, <2>2 DEF KidsBefore, kid_at, kid_end, InRange, children
  <2>4. \A k : Did("call", k, Len(FrameEvents))' <=> Did("call", k, p)
    BY <1>12, <1>13
  <2>5. SUFFICES emitting'[m].kids = {k \in KidsBefore(g, j) : ~Did("call", k, p)}
    BY <2>3, <2>4
  <2>6. CASE m = n
    <3>1. g = c /\ j = at + 1 /\ emitting'[m].kids = KidsBefore(c, at + 1)
      BY <1>6, <1>14, <2>1, <2>2, <2>6
    <3> QED BY <1>20, <3>1
  <2>7. CASE m # n
    <3>1. emitting'[m] = emitting[m]
      BY <1>14, <2>7
    <3> QED BY <1>2, <1>14, <2>1, <2>2, <3>1 DEF PlaceInv, KidsLeft
  <2> QED BY <2>6, <2>7
<1>22. TopsShown'
  <2>1. children(NoParent)' = children(NoParent)
    BY <1>1 DEF children
  <2>2. \A k \in children(NoParent) : k <= topsDone <=> Did("call", k, p + 1)
    BY <1>2, <1>13 DEF PlaceInv, TopsShown
  <2> QED BY <1>7, <1>12, <2>1, <2>2 DEF TopsShown
<1>23. ClosedDone'
  <2>1. ~closed
    BY <1>2 DEF PlaceInv, ClosedDone
  <2> QED BY <1>7, <2>1 DEF ClosedDone
<1>24. StepsCounted'
  <2>1. Cardinality(StepsBy(p + 1)) = Cardinality(StepsBy(p)) + 1 /\ Cardinality(StepsBy(p)) \in Nat
    BY <1>3, <1>5, OneMoreStep, StepsCount
  <2>2. StepsBy(Len(FrameEvents))' = StepsBy(p + 1)
    BY <1>1, <1>12 DEF StepsBy
  <2>3. rec'.steps = rec.steps + 1
    BY <1>7, WriterTypes DEF PlaceInv, TypeInv
  <2> QED BY <1>2, <2>1, <2>2, <2>3 DEF StepsCounted, PlaceInv
<1> QED BY <1>12, <1>18, <1>19, <1>21, <1>22, <1>23, <1>24 DEF PlaceInv

LEMMA ReturnFrameKeepsPlace ==
  ASSUME PlaceInv, TypeInv', UNCHANGED observerVars, finished, ReturnFrame
  PROVE  PlaceInv'
<1>1. /\ UNCHANGED <<history, frames, finished>> /\ Emitting /\ Current.kids = {} /\ ~StepsLeft
  BY DEF observerVars, ReturnFrame, MayReturn
<1>2. PICK p \in Nat : p = Len(FrameEvents) /\ p < Len(history)
  BY <1>1, PlaceFacts, MoreWhileEmitting
<1>3. PICK e : e = history[p + 1]
  OBVIOUS
<1>4. PICK c \in 1..Len(frames) : c = Current.id
  BY <1>1, CurrentFacts DEF PlaceInv, TypeInv
<1>5. e.kind = "return" /\ e.frame = c
  BY <1>1, <1>2, <1>3, <1>4, NextOfCurrent
<1>6. /\ emitting' = Outer(emitting) /\ out' = Append(out, Left(c))
      /\ topsDone' = topsDone /\ rec' = rec /\ closed' = closed
  BY <1>4 DEF ReturnFrame
<1>7. PICK x \in OutEvent : x = Left(c) /\ OfFrame(x)
  BY OutEvents
<1>8. p + 1 \in 1..Len(history)
  BY <1>2, PlaceFacts
<1>9. x = Plain(history[p + 1])
  BY <1>3, <1>5, <1>7, <1>8 DEF Left, Plain, PlaceInv, TypeInv, OrderInv, EventIndexes
<1>10. FrameEvents' = Append(FrameEvents, x)
  BY <1>6, <1>7, EventsGrow, WriterTypes DEF FrameEvents, PlaceInv, TypeInv
<1>11. /\ ShownIsPast' /\ Len(FrameEvents') = p + 1
       /\ \A kind, k : Did(kind, k, Len(FrameEvents))' <=> Did(kind, k, p + 1)
       /\ \A k : IsOpen(k, Len(FrameEvents))' <=> IsOpen(k, p + 1)
       /\ \A k, i : Ran(k, i, Len(FrameEvents))' <=> Ran(k, i, p + 1)
  BY <1>1, <1>2, <1>9, <1>10, ShownNext
<1>12. /\ \A kind, k : Did(kind, k, p + 1) <=> Did(kind, k, p) \/ (kind = "return" /\ k = c)
       /\ \A k, i : Ran(k, i, p + 1) <=> Ran(k, i, p)
  BY <1>3, <1>5, NextPast
<1>13. PICK n \in Nat : /\ n = Len(emitting) - 1 /\ Len(emitting) = n + 1
                        /\ Current = emitting[n + 1]
                        /\ Len(emitting') = n /\ \A m \in 1..n : emitting'[m] = emitting[m]
  <2>1. /\ Len(emitting) \in Nat /\ Len(emitting) \in 1..Len(emitting)
        /\ Current = emitting[Len(emitting)]
    BY <1>1, CurrentFacts DEF PlaceInv, TypeInv
  <2>2. emitting \in Seq(ActivationSet) /\ emitting # <<>>
    BY <1>1, WriterTypes DEF PlaceInv, TypeInv, Emitting
  <2>3. /\ Len(Outer(emitting)) = Len(emitting) - 1
        /\ \A i \in 1..Len(emitting) - 1 : Outer(emitting)[i] = emitting[i]
    BY <2>2, OuterFacts
  <2> QED BY <1>6, <2>1, <2>3
<1>14. \A m \in 1..n + 1 : m \in 1..n \/ m = n + 1
  OBVIOUS
<1>15. \A m \in 1..n : m \in 1..Len(emitting) /\ emitting[m].id # c
  <2> SUFFICES ASSUME NEW m \in 1..n PROVE m \in 1..Len(emitting) /\ emitting[m].id # c
    OBVIOUS
  <2>1. m \in 1..Len(emitting) /\ n + 1 \in 1..Len(emitting) /\ m < n + 1
    BY <1>13
  <2>2. emitting[m].id < emitting[n + 1].id
    BY <2>1 DEF PlaceInv, EmittingIsOpen
  <2>3. emitting[m].id \in Nat /\ emitting[n + 1].id = c
    BY <1>4, <1>13, <2>1, PlaceFacts
  <2> QED BY <2>1, <2>2, <2>3
<1>16. EmittingIsOpen'
  <2>1. ASSUME NEW k \in 1..Len(frames)
        PROVE  IsOpen(k, p + 1) <=> \E m \in 1..n : emitting'[m].id = k
    <3>1. IsOpen(k, p) <=> \E m \in 1..n + 1 : emitting[m].id = k
      BY <1>2, <1>13 DEF PlaceInv, EmittingIsOpen
    <3>2. IsOpen(k, p + 1) <=> IsOpen(k, p) /\ k # c
      BY <1>12 DEF IsOpen
    <3>3. (\E m \in 1..n + 1 : emitting[m].id = k) /\ k # c <=> \E m \in 1..n : emitting'[m].id = k
      BY <1>4, <1>13, <1>14, <1>15
    <3> QED BY <3>1, <3>2, <3>3
  <2>2. \A m, l \in 1..n : m < l => emitting'[m].id < emitting'[l].id
    BY <1>13, <1>15 DEF PlaceInv, EmittingIsOpen
  <2> QED BY <1>1, <1>11, <1>13, <2>1, <2>2 DEF EmittingIsOpen
<1>17. StepsShown'
  <2> SUFFICES ASSUME NEW m \in 1..n
               PROVE  /\ emitting'[m].i <= Len(frames[emitting'[m].id].steps)
                      /\ \A j \in Nat : j < emitting'[m].i <=> Ran(emitting[m].id, j, Len(FrameEvents))'
    BY <1>1, <1>13 DEF StepsShown
  <2>1. PICK k : k = emitting'[m].id /\ k = emitting[m].id
    BY <1>13
  <2>2. \A j : Ran(emitting[m].id, j, Len(FrameEvents))' <=> Ran(k, j, p)
    <3>1. \A j : Ran(k, j, Len(FrameEvents))' <=> Ran(k, j, p)
      BY <1>11, <1>12
    <3> QED BY <2>1, <3>1 DEF Ran
  <2> QED BY <1>2, <1>13, <1>15, <2>1, <2>2 DEF PlaceInv, StepsShown
<1>18. KidsLeft'
  <2> SUFFICES ASSUME NEW m \in 1..n
               PROVE  emitting'[m].kids = {k \in KidsBefore(emitting[m].id, emitting[m].i)' :
                                             ~Did("call", k, Len(FrameEvents))'}
    BY <1>13 DEF KidsLeft
  <2>1. PICK g : g = emitting'[m].id
    OBVIOUS
  <2>2. PICK j : j = emitting'[m].i
    OBVIOUS
  <2>3. KidsBefore(emitting[m].id, emitting[m].i)' = KidsBefore(g, j)
    BY <1>1, <2>1, <2>2 DEF KidsBefore, kid_at, kid_end, InRange, children
  <2>4. \A k : Did("call", k, Len(FrameEvents))' <=> Did("call", k, p)
    BY <1>11, <1>12
  <2>5. emitting'[m] = emitting[m]
    BY <1>13
  <2>6. emitting[m].kids = {k \in KidsBefore(g, j) : ~Did("call", k, p)}
    BY <1>2, <1>15, <2>1, <2>2, <2>5 DEF PlaceInv, KidsLeft
  <2> QED BY <2>3, <2>4, <2>5, <2>6
<1>19. TopsShown'
  <2>1. children(NoParent)' = children(NoParent)
    BY <1>1 DEF children
  <2>2. \A k \in children(NoParent) : k <= topsDone <=> Did("call", k, p + 1)
    BY <1>2, <1>12 DEF PlaceInv, TopsShown
  <2> QED BY <1>6, <1>11, <2>1, <2>2 DEF TopsShown
<1>20. ClosedDone'
  <2>1. ~closed
    BY <1>2 DEF PlaceInv, ClosedDone
  <2> QED BY <1>6, <2>1 DEF ClosedDone
<1>21. StepsCounted'
  <2>1. Cardinality(StepsBy(p + 1)) = Cardinality(StepsBy(p))
    BY <1>3, <1>5, OneMoreStep
  <2>2. StepsBy(Len(FrameEvents))' = StepsBy(p + 1)
    BY <1>1, <1>11 DEF StepsBy
  <2> QED BY <1>2, <1>6, <2>1, <2>2 DEF StepsCounted, PlaceInv
<1> QED BY <1>11, <1>16, <1>17, <1>18, <1>19, <1>20, <1>21 DEF PlaceInv

(* An action that shows nothing of a frame leaves the place as it is. *)
LEMMA SamePlaceKeepsPlace ==
  ASSUME PlaceInv, TypeInv', UNCHANGED <<history, frames, topsDone>>, FrameEvents' = FrameEvents,
         Len(emitting') = Len(emitting),
         \A m \in 1..Len(emitting) : /\ emitting'[m].id = emitting[m].id
                                     /\ emitting'[m].i = emitting[m].i
                                     /\ emitting'[m].kids = emitting[m].kids,
         rec'.steps = rec.steps,
         closed' => closed \/ Len(FrameEvents) = Len(history)
  PROVE  PlaceInv'
<1>1. PICK p \in Nat : p = Len(FrameEvents)
  BY PlaceFacts
<1>2. PICK n \in Nat : n = Len(emitting)
  BY PlaceFacts
<1>3. /\ \A kind, k : Did(kind, k, Len(FrameEvents))' <=> Did(kind, k, p)
      /\ \A k : IsOpen(k, Len(FrameEvents))' <=> IsOpen(k, p)
      /\ \A k, i : Ran(k, i, Len(FrameEvents))' <=> Ran(k, i, p)
  BY <1>1 DEF Did, IsOpen, Ran
<1>4. ShownIsPast'
  BY DEF PlaceInv, ShownIsPast, Plain
<1>5. EmittingIsOpen'
  <2>1. ASSUME NEW k \in 1..Len(frames)
        PROVE  IsOpen(k, p) <=> \E m \in 1..n : emitting'[m].id = k
    BY <1>1, <1>2 DEF PlaceInv, EmittingIsOpen
  <2>2. \A m, l \in 1..n : m < l => emitting'[m].id < emitting'[l].id
    BY <1>2 DEF PlaceInv, EmittingIsOpen
  <2> QED BY <1>2, <1>3, <2>1, <2>2 DEF EmittingIsOpen
<1>6. StepsShown'
  <2> SUFFICES ASSUME NEW m \in 1..n
               PROVE  /\ emitting'[m].i <= Len(frames[emitting'[m].id].steps)
                      /\ \A j \in Nat : j < emitting'[m].i <=> Ran(emitting[m].id, j, Len(FrameEvents))'
    BY <1>2 DEF StepsShown
  <2>1. PICK k : k = emitting'[m].id /\ k = emitting[m].id
    BY <1>2
  <2>2. \A j : Ran(emitting[m].id, j, Len(FrameEvents))' <=> Ran(k, j, Len(FrameEvents))'
    BY <2>1 DEF Ran
  <2>3. /\ emitting[m].i <= Len(frames[k].steps)
        /\ \A j \in Nat : j < emitting[m].i <=> Ran(k, j, p)
    BY <1>1, <1>2, <2>1 DEF PlaceInv, StepsShown
  <2> QED BY <1>2, <1>3, <2>1, <2>2, <2>3
<1>7. KidsLeft'
  <2> SUFFICES ASSUME NEW m \in 1..n
               PROVE  emitting'[m].kids = {k \in KidsBefore(emitting[m].id, emitting[m].i)' :
                                             ~Did("call", k, Len(FrameEvents))'}
    BY <1>2 DEF KidsLeft
  <2>1. PICK g : g = emitting'[m].id /\ g = emitting[m].id
    BY <1>2
  <2>2. PICK j : j = emitting'[m].i /\ j = emitting[m].i
    BY <1>2
  <2>3. KidsBefore(emitting[m].id, emitting[m].i)' = KidsBefore(g, j)
    BY <2>1, <2>2 DEF KidsBefore, kid_at, kid_end, InRange, children
  <2>4. emitting[m].kids = {k \in KidsBefore(g, j) : ~Did("call", k, p)}
    BY <1>1, <1>2, <2>1, <2>2 DEF PlaceInv, KidsLeft
  <2> QED BY <1>2, <1>3, <2>3, <2>4
<1>8. TopsShown'
  <2>1. children(NoParent)' = children(NoParent)
    BY DEF children
  <2>2. \A k \in children(NoParent) : k <= topsDone <=> Did("call", k, p)
    BY <1>1 DEF PlaceInv, TopsShown
  <2> QED BY <1>3, <2>1, <2>2 DEF TopsShown
<1>9. ClosedDone'
  BY DEF PlaceInv, ClosedDone
<1>10. StepsCounted'
  <2>1. StepsBy(Len(FrameEvents))' = StepsBy(Len(FrameEvents))
    BY DEF StepsBy
  <2> QED BY <2>1 DEF StepsCounted, PlaceInv
<1> QED BY <1>4, <1>5, <1>6, <1>7, <1>8, <1>9, <1>10 DEF PlaceInv

LEMMA OpenInternalKeepsPlace ==
  ASSUME PlaceInv, TypeInv', UNCHANGED observerVars, OpenInternal
  PROVE  PlaceInv'
<1>1. UNCHANGED <<history, frames, topsDone, closed>> /\ Emitting
  BY DEF observerVars, OpenInternal
<1>2. WriterTypeOK
  BY DEF PlaceInv, TypeInv
<1>3. PICK act \in ActivationSet :
        /\ act.id = Current.id /\ act.i = Current.i /\ act.kids = Current.kids
        /\ emitting' = [emitting EXCEPT ![Len(emitting)] = act]
  BY <1>2, OpenInternalFacts
<1>4. PICK n, t : n = Len(emitting) /\ t = emitting' /\ t = [emitting EXCEPT ![Len(emitting)] = act]
  BY <1>3
<1>5. /\ n \in Nat \ {0} /\ Current = emitting[n]
      /\ Len(t) = n /\ \A m \in 1..n : t[m] = IF m = n THEN act ELSE emitting[m]
  BY <1>1, <1>2, <1>4, WithCurrentFacts
<1>6. FrameEvents' = FrameEvents
  <2>1. PICK y \in OutEvent : y = InternalCall(Current.id) /\ ~OfFrame(y)
    BY <1>1, <1>2, CurrentFacts, OutEvents
  <2>2. out' = Append(out, y)
    BY <2>1 DEF OpenInternal
  <2> QED BY <1>2, <2>1, <2>2, EventsGrow, WriterTypes DEF FrameEvents
<1>7. rec'.steps = rec.steps
  <2>1. rec' = [rec EXCEPT !.internal_calls = rec.internal_calls + 1]
    BY DEF OpenInternal
  <2>2. rec \in [steps : Nat, internal_calls : Nat]
    BY <1>2, WriterTypes
  <2> QED BY <2>1, <2>2
<1> QED BY <1>1, <1>3, <1>4, <1>5, <1>6, <1>7, SamePlaceKeepsPlace

LEMMA CloseInternalKeepsPlace ==
  ASSUME PlaceInv, TypeInv', UNCHANGED observerVars, CloseInternal
  PROVE  PlaceInv'
<1>1. UNCHANGED <<history, frames, topsDone, rec, closed>> /\ Emitting
  BY DEF observerVars, CloseInternal
<1>2. WriterTypeOK
  BY DEF PlaceInv, TypeInv
<1>3. PICK act \in ActivationSet :
        /\ act.id = Current.id /\ act.i = Current.i /\ act.kids = Current.kids
        /\ emitting' = [emitting EXCEPT ![Len(emitting)] = act]
  BY <1>2, CloseInternalFacts
<1>4. PICK n, t : n = Len(emitting) /\ t = emitting' /\ t = [emitting EXCEPT ![Len(emitting)] = act]
  BY <1>3
<1>5. /\ n \in Nat \ {0} /\ Current = emitting[n]
      /\ Len(t) = n /\ \A m \in 1..n : t[m] = IF m = n THEN act ELSE emitting[m]
  BY <1>1, <1>2, <1>4, WithCurrentFacts
<1>6. FrameEvents' = FrameEvents
  <2>1. PICK y \in OutEvent : y = InternalReturn(Current.id) /\ ~OfFrame(y)
    BY <1>1, <1>2, CurrentFacts, OutEvents
  <2>2. out' = Append(out, y)
    BY <2>1 DEF CloseInternal
  <2> QED BY <1>2, <2>1, <2>2, EventsGrow, WriterTypes DEF FrameEvents
<1> QED BY <1>1, <1>3, <1>4, <1>5, <1>6, SamePlaceKeepsPlace

LEMMA CloseKeepsPlace ==
  ASSUME PlaceInv, TypeInv', UNCHANGED observerVars, Close
  PROVE  PlaceInv'
<1>1. UNCHANGED <<history, frames, topsDone, rec, emitting, out>> /\ ~Emitting /\ TopsLeft = {}
  BY DEF observerVars, Close, AllTopsDone
<1>2. FrameEvents' = FrameEvents
  BY <1>1 DEF FrameEvents
<1>3. Len(FrameEvents) = Len(history)
  <2>1. PICK p \in Nat : p = Len(FrameEvents) /\ p <= Len(history)
    BY PlaceFacts DEF PlaceInv, ShownIsPast
  <2>2. ~(p < Len(history))
    BY <1>1, <2>1, NextTop
  <2> QED BY <2>1, <2>2, PlaceFacts
<1> QED BY <1>1, <1>2, <1>3, SamePlaceKeepsPlace

(* While the transaction runs nothing is shown. *)
NothingWritten ==
  /\ emitting = <<>>
  /\ topsDone = 0
  /\ out = <<>>
  /\ rec = [steps |-> 1, internal_calls |-> 0]
  /\ closed = FALSE

LEMMA UnwrittenPlace == TypeInv /\ NothingWritten => PlaceInv /\ FrameEvents = <<>>
<1> SUFFICES ASSUME TypeInv, NothingWritten PROVE PlaceInv /\ FrameEvents = <<>>
  OBVIOUS
<1> USE DEF NothingWritten
<1>1. FrameEvents = <<>> /\ Len(FrameEvents) = 0 /\ 1..0 = {}
  BY NoEvents DEF FrameEvents
<1>2. Len(emitting) = 0
  OBVIOUS
<1>3. /\ \A kind, k : ~Did(kind, k, 0)
      /\ \A k, i : ~Ran(k, i, 0)
  BY <1>1 DEF Did, Ran
<1>4. ShownIsPast
  <2>1. Len(history) \in Nat
    BY VmFacts DEF TypeInv
  <2> QED BY <1>1, <2>1 DEF ShownIsPast
<1>5. EmittingIsOpen /\ StepsShown /\ KidsLeft /\ ClosedDone
  BY <1>1, <1>2, <1>3 DEF EmittingIsOpen, IsOpen, StepsShown, KidsLeft, ClosedDone
<1>6. TopsShown
  BY <1>1, <1>3 DEF TopsShown, children
<1>7. StepsCounted
  <2>1. StepsBy(0) = {}
    BY <1>1 DEF StepsBy
  <2>2. Cardinality(StepsBy(0)) = 0
    BY <2>1, FS_EmptySet
  <2> QED BY <1>1, <2>2 DEF StepsCounted
<1> QED BY <1>1, <1>4, <1>5, <1>6, <1>7 DEF PlaceInv

LEMMA UnwrittenPlaceNext == TypeInv' /\ NothingWritten' => PlaceInv' /\ FrameEvents' = <<>>
<1>1. (TypeInv /\ NothingWritten => PlaceInv /\ FrameEvents = <<>>)'
  BY UnwrittenPlace, PTL
<1> QED BY <1>1

LEMMA InitPlace == Init => PlaceInv
<1> SUFFICES ASSUME Init PROVE PlaceInv
  OBVIOUS
<1> QED BY InitTypes, UnwrittenPlace DEF Init, NothingWritten

LEMMA NextPlace == PlaceInv /\ [Next]_vars => PlaceInv'
<1> SUFFICES ASSUME PlaceInv, [Next]_vars PROVE PlaceInv'
  OBVIOUS
<1>1. TypeInv'
  BY NextTypes DEF PlaceInv
<1>2. CASE ObserverNext /\ UNCHANGED writerVars
  <2>1. NothingWritten'
    BY <1>2, ObserverStops DEF PlaceInv, TypeInv, Unwritten, NothingWritten, writerVars
  <2> QED BY <1>1, <2>1, UnwrittenPlaceNext
<1>3. CASE WriterNext
  <2>1. UNCHANGED observerVars /\ finished
    BY <1>3, WriterKeepsTypes, WritingIsLate DEF PlaceInv, TypeInv
  <2> QED BY <1>1, <1>3, <2>1, EmitTopKeepsPlace, OpenInternalKeepsPlace, SpliceKidKeepsPlace,
             EmitStepKeepsPlace, CloseInternalKeepsPlace, ReturnFrameKeepsPlace, CloseKeepsPlace
          DEF WriterNext
<1>4. CASE UNCHANGED vars
  <2>1. UNCHANGED <<history, frames, emitting, topsDone, out, rec, closed>>
    BY <1>4 DEF vars
  <2>2. FrameEvents' = FrameEvents
    BY <2>1 DEF FrameEvents
  <2> QED BY <1>1, <2>1, <2>2, SamePlaceKeepsPlace
<1> QED BY <1>2, <1>3, <1>4 DEF Next

(***************************************************************************)
(* For transactions of any size and shape, a finished container shows as   *)
(* many events of frames as happened, and its step count is one more than  *)
(* the instructions the VM executed.                                       *)
(***************************************************************************)
THEOREM ContainerIsComplete == Spec => []ContainerComplete
<1>1. PlaceInv => ContainerComplete
  <2> SUFFICES ASSUME PlaceInv, closed PROVE ContainerComplete
    BY DEF ContainerComplete
  <2>1. Len(FrameEvents) = Len(history)
    BY DEF PlaceInv, ClosedDone
  <2>2. rec.steps = 1 + Cardinality(StepsBy(Len(history)))
    BY <2>1 DEF PlaceInv, StepsCounted
  <2> QED BY <2>1, <2>2 DEF ContainerComplete, StepsBy
<1> QED BY <1>1, InitPlace, NextPlace, PTL DEF Spec

-----------------------------------------------------------------------------
(***************************************************************************)
(* The refinement: what the writer shows of the frames is the history, one *)
(* event after the other.                                                  *)
(***************************************************************************)
Log == [i \in 1..Len(history) |-> Plain(history[i])]

HappeningSet == [kind : {"call", "step", "return"}, frame : 1..MaxFrames, index : 0..MaxSteps]

(* What the observer notes is something that can happen. *)
LEMMA LogTypes ==
  ASSUME IInv, OrderInv
  PROVE  Log \in Seq(HappeningSet) /\ Len(Log) = Len(history)
<1>1. PICK N \in Nat : N = Len(history)
  BY VmFacts
<1>2. ASSUME NEW i \in 1..N PROVE Plain(history[i]) \in HappeningSet
  <2>1. history[i] \in VmEvent /\ history[i].frame \in 1..Len(frames) /\ history[i].index \in Nat
    BY <1>1, <1>2, VmFacts
  <2>2. Len(frames) \in Nat /\ Len(frames) <= MaxFrames /\ history[i].index <= MaxSteps
    BY <1>1, <1>2, VmFacts DEF OrderInv, WithinBounds
  <2>3. history[i].frame \in 1..MaxFrames /\ history[i].index \in 0..MaxSteps
    BY <2>1, <2>2, BoundsAssumption
  <2>4. history[i].kind \in {"call", "step", "return"}
    BY <2>1 DEF VmEvent
  <2> QED BY <2>3, <2>4 DEF Plain, HappeningSet
<1>3. Log \in [1..N -> HappeningSet] /\ DOMAIN Log = 1..N
  BY <1>1, <1>2 DEF Log
<1> QED BY <1>1, <1>3

LEMMA LogTypesNext == IInv' /\ OrderInv' => Log' \in Seq(HappeningSet)' /\ Len(Log') = Len(history')
<1>1. IInv /\ OrderInv => Log \in Seq(HappeningSet) /\ Len(Log) = Len(history)
  BY LogTypes
<1>2. (IInv /\ OrderInv => Log \in Seq(HappeningSet) /\ Len(Log) = Len(history))'
  BY <1>1, PTL
<1> QED BY <1>2

(* A step of the observer adds at most one event. *)
LEMMA HistoryGrows ==
  ASSUME IInv, OrderInv, ObserverNext
  PROVE  \/ history' = history
         \/ \E e \in VmEvent : history' = Append(history, e)
<1>1. IInv'
  BY NextIInv
<1>2. history' \in Seq(VmEvent) /\ history \in Seq(VmEvent)
  BY <1>1 DEF IInv, SinkTypeOK
<1>3. ASSUME NEW x, history' = Append(history, x) PROVE \E e \in VmEvent : history' = Append(history, e)
  <2>1. PICK n \in Nat : n = Len(history)
    BY <1>2
  <2>2. Len(history') = n + 1 /\ history'[n + 1] = x
    BY <1>2, <1>3, <2>1
  <2>3. x \in VmEvent
    BY <1>2, <2>2
  <2> QED BY <1>3, <2>3
<1>4. CASE Quiet
  BY <1>4 DEF Quiet
<1>5. CASE Begins
  BY <1>3, <1>5 DEF Begins
<1>6. CASE \E op \in Op : Executes(op)
  BY <1>3, <1>6 DEF Executes
<1>7. CASE Leaves
  BY <1>3, <1>7 DEF Leaves
<1> QED BY <1>4, <1>5, <1>6, <1>7, StepKinds

LEMMA LogGrows ==
  ASSUME IInv, OrderInv, NEW e \in VmEvent, history' = Append(history, e), IInv', OrderInv'
  PROVE  \E x \in HappeningSet : Log' = Append(Log, x)
<1>1. PICK N \in Nat : N = Len(history)
  BY VmFacts
<1>2. Len(history') = N + 1 /\ \A a \in 1..N : history'[a] = history[a]
  BY <1>1, PastGrows
<1>3. PICK S : S = HappeningSet
  OBVIOUS
<1>4. PICK old \in Seq(S) : old = Log /\ Len(old) = N /\ \A i \in 1..N : old[i] = Plain(history[i])
  BY <1>1, <1>3, LogTypes DEF Log
<1>5. PICK new : new = Log'
  OBVIOUS
<1>6. new = [i \in 1..N + 1 |-> Plain(history'[i])]
  BY <1>2, <1>5 DEF Log, Plain
<1>7. new \in Seq(S)
  BY <1>3, <1>5, LogTypesNext DEF HappeningSet
<1>8. Len(new) = N + 1 /\ \A i \in 1..N : new[i] = old[i]
  <2>1. DOMAIN new = 1..N + 1
    BY <1>6
  <2>2. Len(new) = N + 1
    BY <1>6, <1>7, <2>1
  <2>3. \A i \in 1..N : new[i] = Plain(history'[i])
    <3>1. PICK h : h = history' /\ new = [i \in 1..N + 1 |-> Plain(h[i])]
      BY <1>6
    <3>2. \A i \in 1..N + 1 : new[i] = Plain(h[i])
      BY <3>1
    <3>3. \A i \in 1..N : i \in 1..N + 1
      OBVIOUS
    <3> QED BY <3>1, <3>2, <3>3
  <2> QED BY <1>2, <1>4, <2>2, <2>3 DEF Plain
<1>9. new[N + 1] \in S /\ new = Append(old, new[N + 1])
  BY <1>4, <1>7, <1>8
<1> QED BY <1>3, <1>4, <1>5, <1>9

LEMMA ShowsEvents ==
  ASSUME TypeInv, WriterNext
  PROVE  FrameEvents' \in Seq(OutEvent)
<1>1. WriterTypeOK'
  BY WriterKeepsTypes DEF TypeInv
<1>2. frames' = frames
  BY WriterKeepsTypes DEF TypeInv, observerVars
<1>3. PICK S : S = OutEvent
  OBVIOUS
<1>4. PICK s \in Seq(S) : s = out'
  BY <1>1, <1>2, <1>3 DEF WriterTypeOK, OutEvent
<1>5. PICK f \in [0..Len(s) -> Seq(S)] : EventsOfFrames(s) = f[Len(s)]
  BY EventsFold
<1>6. f[Len(s)] \in Seq(S)
  OBVIOUS
<1> QED BY <1>3, <1>4, <1>5, <1>6 DEF FrameEvents

(* A step of the writer shows at most one event of a frame. *)
LEMMA ShowsOne ==
  ASSUME TypeInv, WriterNext
  PROVE  Len(FrameEvents') \in {Len(FrameEvents), Len(FrameEvents) + 1}
<1>1. WriterTypeOK /\ out \in Seq(OutEvent)
  BY WriterTypes DEF TypeInv
<1>2. ASSUME NEW e \in OutEvent, out' = Append(out, e)
      PROVE  Len(FrameEvents') \in {Len(FrameEvents), Len(FrameEvents) + 1}
  <2>1. PICK S : S = OutEvent
    OBVIOUS
  <2>2. PICK s \in Seq(S) : s = EventsOfFrames(out)
    BY <1>1, <1>2, <2>1, EventsGrow
  <2>3. FrameEvents' = IF OfFrame(e) THEN Append(s, e) ELSE s
    BY <1>1, <1>2, <2>1, <2>2, EventsGrow DEF FrameEvents
  <2>4. Len(Append(s, e)) = Len(s) + 1
    BY <2>1, AppendFacts
  <2> QED BY <2>2, <2>3, <2>4 DEF FrameEvents
<1>3. CASE EmitTop
  BY <1>1, <1>2, <1>3, TopsFacts, OutEvents DEF EmitTop
<1>4. CASE OpenInternal
  BY <1>1, <1>2, <1>4, CurrentFacts, OutEvents DEF OpenInternal
<1>5. CASE SpliceKid
  <2>1. PICK id \in Current.kids : out' = Append(out, Entered(id))
    BY <1>1, <1>5, SpliceKidFacts
  <2>2. id \in 1..Len(frames)
    BY <1>1, <1>5, CurrentFacts DEF SpliceKid
  <2> QED BY <1>2, <2>1, <2>2, OutEvents
<1>6. CASE EmitStep
  <2>1. PICK c \in 1..Len(frames), at \in Nat : c = Current.id /\ at = Current.i
    BY <1>1, <1>6, CurrentFacts DEF EmitStep
  <2>2. PICK e \in OutEvent : e = Shown(c, at)
    BY OutEvents
  <2>3. PICK y \in OutEvent : y = InternalReturn(c) /\ ~OfFrame(y)
    BY OutEvents
  <2>4. PICK s \in Seq(OutEvent) : s = Append(out, e)
    BY <1>1, AppendFacts
  <2>5. out' = s \/ out' = Append(s, y)
    BY <1>1, <1>6, <2>1, <2>2, <2>3, <2>4, EmitStepFacts
  <2>6. EventsOfFrames(Append(s, y)) = EventsOfFrames(s)
    BY <2>3, EventsGrow
  <2>7. FrameEvents' = EventsOfFrames(s)
    BY <2>5, <2>6 DEF FrameEvents
  <2>8. EventsOfFrames(s) = IF OfFrame(e) THEN Append(EventsOfFrames(out), e) ELSE EventsOfFrames(out)
    BY <1>1, <2>4, EventsGrow
  <2>9. PICK f \in Seq(OutEvent) : f = EventsOfFrames(out)
    BY <1>1, <2>2, EventsGrow
  <2>10. Len(Append(f, e)) = Len(f) + 1
    BY AppendFacts
  <2> QED BY <2>7, <2>8, <2>9, <2>10 DEF FrameEvents
<1>7. CASE CloseInternal
  BY <1>1, <1>2, <1>7, CurrentFacts, OutEvents DEF CloseInternal
<1>8. CASE ReturnFrame
  BY <1>1, <1>2, <1>8, CurrentFacts, OutEvents DEF ReturnFrame
<1>9. CASE Close
  BY <1>9 DEF Close, FrameEvents
<1> QED BY <1>3, <1>4, <1>5, <1>6, <1>7, <1>8, <1>9 DEF WriterNext

(***************************************************************************)
(* "Every step in the container is one instruction the VM executed, in     *)
(* execution order, across every entry-point frame": the writer implements *)
(* ExecutionReplay, whatever frames fail and wherever syscalls nest.       *)
(***************************************************************************)
THEOREM ImplementsReplay == Spec => ReplaysExecution
<1>1. Init => Replay!Init
  <2> SUFFICES ASSUME Init PROVE Replay!Init
    OBVIOUS
  <2>1. history = <<>> /\ out = <<>>
    BY DEF Init, ObserverInit
  <2>2. Log = <<>>
    BY <2>1 DEF Log
  <2>3. FrameEvents = <<>>
    BY <2>1, NoEvents DEF FrameEvents
  <2> QED BY <2>2, <2>3 DEF Replay!Init, Log
<1>2. PlaceInv /\ PlaceInv' /\ [Next]_vars => [Replay!Next]_(Replay!vars)
  <2> SUFFICES ASSUME PlaceInv, PlaceInv', [Next]_vars PROVE [Replay!Next]_(Replay!vars)
    OBVIOUS
  <2>1. CASE ObserverNext /\ UNCHANGED writerVars
    <3>1. NothingWritten /\ out' = out
      BY <2>1, ObserverStops DEF PlaceInv, TypeInv, Unwritten, NothingWritten, writerVars
    <3>2. FrameEvents = <<>> /\ FrameEvents' = FrameEvents
      BY <3>1, NoEvents DEF NothingWritten, FrameEvents
    <3>3. CASE history' = history
      <4>1. Log' = Log
        BY <3>3 DEF Log, Plain
      <4> QED BY <3>2, <4>1 DEF Replay!vars, Log
    <3>4. CASE \E e \in VmEvent : history' = Append(history, e)
      <4>1. PICK x \in HappeningSet : Log' = Append(Log, x)
        BY <3>4, LogGrows DEF PlaceInv, TypeInv
      <4>2. Replay!Happens(x)
        BY <3>2, <4>1 DEF Replay!Happens, Log
      <4> QED BY <4>2 DEF Replay!Next, HappeningSet
    <3> QED BY <2>1, <3>3, <3>4, HistoryGrows DEF PlaceInv, TypeInv
  <2>2. CASE WriterNext
    <3>1. history' = history
      BY <2>2, WriterKeepsTypes DEF PlaceInv, TypeInv, observerVars
    <3>2. Log' = Log
      BY <3>1 DEF Log, Plain
    <3>3. PICK p \in Nat : p = Len(FrameEvents)
      BY PlaceFacts
    <3>4. PICK shown \in Seq(OutEvent) : shown = FrameEvents
      BY PlaceFacts
    <3>5. FrameEvents' \in Seq(OutEvent)
      BY <2>2, ShowsEvents DEF PlaceInv, TypeInv
    <3>6. PICK next \in Seq(OutEvent) : next = FrameEvents'
      BY <3>5
    <3>7. Len(next) = p \/ Len(next) = p + 1
      BY <2>2, <3>3, <3>6, ShowsOne DEF PlaceInv, TypeInv
    <3>8. /\ \A i \in 1..p : shown[i] = Plain(history[i])
          /\ Len(next) <= Len(history)
          /\ \A i \in 1..Len(next) : next[i] = Plain(history[i])
      BY <3>1, <3>3, <3>4, <3>6 DEF PlaceInv, ShownIsPast, Plain
    <3>9. CASE Len(next) = p
      <4>1. next = shown
        BY <3>3, <3>4, <3>8, <3>9
      <4> QED BY <3>2, <3>4, <3>6, <4>1 DEF Replay!vars, Log
    <3>10. CASE Len(next) = p + 1
      <4>1. next = Append(shown, Plain(history[p + 1]))
        BY <3>3, <3>4, <3>8, <3>10
      <4>2. p < Len(history) /\ p + 1 \in 1..Len(history)
        BY <3>8, <3>10, PlaceFacts
      <4>3. Len(Log) = Len(history) /\ Log[p + 1] = Plain(history[p + 1])
        BY <4>2, LogTypes DEF PlaceInv, TypeInv, Log
      <4>4. Replay!ShowNext
        BY <3>2, <3>3, <3>4, <3>6, <4>1, <4>2, <4>3 DEF Replay!ShowNext, Log
      <4> QED BY <4>4 DEF Replay!Next
    <3> QED BY <3>7, <3>9, <3>10
  <2>3. CASE UNCHANGED vars
    <3>1. history' = history /\ out' = out
      BY <2>3 DEF vars
    <3>2. FrameEvents' = FrameEvents /\ Log' = Log
      BY <3>1 DEF FrameEvents, Log, Plain
    <3> QED BY <3>2 DEF Replay!vars, Log
  <2> QED BY <2>1, <2>2, <2>3 DEF Next
<1> QED BY <1>1, <1>2, InitPlace, NextPlace, PTL DEF Spec, ReplaysExecution, Replay!Spec

-----------------------------------------------------------------------------
(***************************************************************************)
(* Depths.  How many functions are open after each step of a trace, which  *)
(* is all the writer knows of the depth the VM was at.                     *)
(***************************************************************************)
DepthsOf(s) ==
  LET d[n \in 0..Len(s)] == IF n = 0 THEN 0 ELSE DepthAfter(s[n], d[n - 1]) IN d

LEMMA DepthsFacts ==
  ASSUME NEW s \in Seq(Op)
  PROVE  /\ DepthsOf(s)[0] = 0
         /\ \A n \in 0..Len(s) : DepthsOf(s)[n] \in Nat
         /\ \A n \in 1..Len(s) : DepthsOf(s)[n] = DepthAfter(s[n], DepthsOf(s)[n - 1])
<1>1. PICK N \in Nat : N = Len(s)
  OBVIOUS
<1>2. PICK step : step = [p \in (1..N) \X Nat |-> DepthAfter(s[p[1]], p[2])]
  OBVIOUS
<1>3. step \in [(1..N) \X Nat -> Nat]
  <2>1. \A op, d : d \in Nat => DepthAfter(op, d) \in Nat
    BY DEF DepthAfter
  <2> QED BY <1>2, <2>1
<1>4. PICK f \in [0..N -> Nat] : IsFold(f, 0, step, N)
  BY <1>3, FoldExists
<1>5. ASSUME NEW i \in 1..N PROVE f[i] = DepthAfter(s[i], f[i - 1])
  <2>1. i - 1 \in 0..N
    OBVIOUS
  <2>2. PICK d \in Nat : d = f[i - 1]
    BY <2>1
  <2>3. <<i, d>> \in (1..N) \X Nat
    OBVIOUS
  <2>4. step[<<i, d>>] = DepthAfter(s[i], d)
    BY <1>2, <2>3
  <2> QED BY <1>4, <2>2, <2>4 DEF IsFold
<1> DEFINE rhs(g) == [n \in 0..Len(s) |-> IF n = 0 THEN 0 ELSE DepthAfter(s[n], g[n - 1])]
<1>6. f = rhs(f)
  <2>1. ASSUME NEW n \in 0..N PROVE f[n] = IF n = 0 THEN 0 ELSE DepthAfter(s[n], f[n - 1])
    <3>1. CASE n = 0
      BY <1>4, <3>1 DEF IsFold
    <3>2. CASE n # 0
      <4>1. n \in 1..N
        BY <3>2
      <4> QED BY <1>5, <3>2, <4>1
    <3> QED BY <3>1, <3>2
  <2> QED BY <1>1, <2>1
<1>7. DepthsOf(s) = (CHOOSE g : g = rhs(g))
  BY DEF DepthsOf
<1>8. PICK g : g = rhs(g) /\ DepthsOf(s) = g
  <2> HIDE DEF rhs
  <2>1. (CHOOSE g : g = rhs(g)) = rhs(CHOOSE g : g = rhs(g))
    BY <1>6
  <2> QED BY <1>7, <2>1
<1>9. \A n \in 0..N : g[n] = IF n = 0 THEN 0 ELSE DepthAfter(s[n], g[n - 1])
  BY <1>1, <1>8
<1>10. g[0] = 0 /\ \A n \in 1..N : g[n] = DepthAfter(s[n], g[n - 1])
  <2>1. 0 \in 0..N /\ \A n \in 1..N : n \in 0..N /\ n # 0
    OBVIOUS
  <2> HIDE DEF rhs
  <2> QED BY <1>9, <2>1
<1>11. \A n \in 0..N : g[n] \in Nat
  <2> DEFINE Good == {n \in 0..N : g[n] \in Nat}
  <2>1. 0 \in Good
    BY <1>10
  <2>2. ASSUME NEW i \in 1..N, i - 1 \in Good PROVE i \in Good
    <3>1. g[i] = DepthAfter(s[i], g[i - 1]) /\ g[i - 1] \in Nat
      BY <1>10, <2>2
    <3> QED BY <3>1 DEF DepthAfter
  <2>3. \A n \in 0..N : n \in Good
    <3> HIDE DEF Good
    <3> QED BY <2>1, <2>2, Induction
  <2> QED BY <2>3
<1> QED BY <1>1, <1>8, <1>10, <1>11

(* The depths depend only on the steps so far. *)
LEMMA DepthsAgree ==
  ASSUME NEW s \in Seq(Op), NEW t \in Seq(Op), NEW N \in Nat, N <= Len(s), N <= Len(t),
         \A i \in 1..N : s[i] = t[i]
  PROVE  \A n \in 0..N : DepthsOf(s)[n] = DepthsOf(t)[n]
<1> DEFINE Good == {n \in 0..N : DepthsOf(s)[n] = DepthsOf(t)[n]}
<1>1. 0 \in Good
  BY DepthsFacts
<1>2. ASSUME NEW i \in 1..N, i - 1 \in Good PROVE i \in Good
  <2>1. DepthsOf(s)[i - 1] = DepthsOf(t)[i - 1] /\ i \in 1..Len(s) /\ i \in 1..Len(t)
    BY <1>2
  <2>2. /\ DepthsOf(s)[i] = DepthAfter(s[i], DepthsOf(s)[i - 1])
        /\ DepthsOf(t)[i] = DepthAfter(t[i], DepthsOf(t)[i - 1])
    BY <2>1, DepthsFacts
  <2> QED BY <2>1, <2>2
<1>3. \A n \in 0..N : n \in Good
  <2> HIDE DEF Good
  <2> QED BY <1>1, <1>2, Induction
<1> QED BY <1>3

(* ... and the last is what the last step makes of the one before. *)
LEMMA DepthsGrow ==
  ASSUME NEW s \in Seq(Op), NEW op \in Op, NEW n \in Nat, n = Len(s)
  PROVE  /\ Append(s, op) \in Seq(Op) /\ Len(Append(s, op)) = n + 1
         /\ \A i \in 0..n : DepthsOf(Append(s, op))[i] = DepthsOf(s)[i]
         /\ DepthsOf(Append(s, op))[n + 1] = DepthAfter(op, DepthsOf(s)[n])
<1>1. PICK t \in Seq(Op) : t = Append(s, op)
  BY AppendFacts
<1>2. Len(t) = n + 1 /\ t[n + 1] = op /\ \A i \in 1..n : s[i] = t[i]
  BY <1>1, AppendFacts
<1>3. \A i \in 0..n : DepthsOf(s)[i] = DepthsOf(t)[i]
  BY <1>2, DepthsAgree
<1>4. DepthsOf(t)[n + 1] = DepthAfter(op, DepthsOf(t)[n])
  <2>1. n + 1 \in 1..Len(t) /\ (n + 1) - 1 = n
    BY <1>2
  <2>2. DepthsOf(t)[n + 1] = DepthAfter(t[n + 1], DepthsOf(t)[(n + 1) - 1])
    BY <2>1, DepthsFacts
  <2> QED BY <1>2, <2>1, <2>2
<1> QED BY <1>1, <1>2, <1>3, <1>4

(***************************************************************************)
(* What happened in a frame happened at the depths of its trace: a step at *)
(* the depth before it, the call of a nested frame at the depth of the     *)
(* step it was made at.                                                    *)
(***************************************************************************)
DeepAs(k, s) ==
  \A a \in 1..Len(history) :
    /\ history[a].kind = "step" /\ history[a].frame = k =>
         /\ history[a].index \in 0..Len(s)
         /\ history[a].depth = DepthsOf(s)[history[a].index]
    /\ history[a].kind = "call" /\ frames[history[a].frame].parent = k =>
         /\ frames[history[a].frame].parent_step \in 0..Len(s)
         /\ history[a].depth = DepthsOf(s)[frames[history[a].frame].parent_step]

RunningDepths ==
  \A i \in 1..Len(vm) :
    /\ vm[i].depth = DepthsOf(vm[i].trace)[Len(vm[i].trace)]
    /\ DeepAs(vm[i].id, vm[i].trace)

NotedDepths ==
  \A k \in 1..Len(frames) : ~IsOpen(k, Len(history)) => DeepAs(k, frames[k].steps)

DepthInv == RunningDepths /\ NotedDepths

(***************************************************************************)
(* What holds of the events so far goes on to hold when the history grows  *)
(* and what is noted of the frames of these events stays.                  *)
(***************************************************************************)
LEMMA DeepAsStays ==
  ASSUME IInv, NEW k, NEW s, DeepAs(k, s), history' = history,
         \A l \in 1..Len(frames) : SameNote(l)
  PROVE  DeepAs(k, s)'
<1> SUFFICES ASSUME NEW a \in 1..Len(history)
    PROVE /\ history[a].kind = "step" /\ history[a].frame = k =>
               /\ history[a].index \in 0..Len(s)
               /\ history[a].depth = DepthsOf(s)[history[a].index]
          /\ history[a].kind = "call" /\ frames'[history[a].frame].parent = k =>
               /\ frames'[history[a].frame].parent_step \in 0..Len(s)
               /\ history[a].depth = DepthsOf(s)[frames'[history[a].frame].parent_step]
  BY DEF DeepAs, DepthsOf, DepthAfter
<1>1. PICK l \in 1..Len(frames) : l = history[a].frame
  BY VmFacts
<1>2. frames'[l].parent = frames[l].parent /\ frames'[l].parent_step = frames[l].parent_step
  BY DEF SameNote
<1> QED BY <1>1, <1>2 DEF DeepAs

LEMMA DeepAsGrows ==
  ASSUME IInv, NEW k, NEW s \in Seq(Op), NEW t \in Seq(Op), DeepAs(k, s),
         Len(s) <= Len(t), \A n \in 0..Len(s) : DepthsOf(t)[n] = DepthsOf(s)[n],
         NEW e \in VmEvent, history' = Append(history, e),
         \A l \in 1..Len(frames) : SameNote(l),
         e.kind = "step" /\ e.frame = k =>
           e.index \in 0..Len(t) /\ e.depth = DepthsOf(t)[e.index],
         e.kind = "call" /\ frames'[e.frame].parent = k =>
           /\ frames'[e.frame].parent_step \in 0..Len(t)
           /\ e.depth = DepthsOf(t)[frames'[e.frame].parent_step]
  PROVE  DeepAs(k, t)'
<1>1. PICK N \in Nat : N = Len(history)
  BY VmFacts
<1>2. Len(history') = N + 1 /\ history'[N + 1] = e /\ \A a \in 1..N : history'[a] = history[a]
  BY <1>1, PastGrows
<1> SUFFICES ASSUME NEW a \in 1..N + 1
    PROVE /\ history'[a].kind = "step" /\ history'[a].frame = k =>
               /\ history'[a].index \in 0..Len(t)
               /\ history'[a].depth = DepthsOf(t)[history'[a].index]
          /\ history'[a].kind = "call" /\ frames'[history'[a].frame].parent = k =>
               /\ frames'[history'[a].frame].parent_step \in 0..Len(t)
               /\ history'[a].depth = DepthsOf(t)[frames'[history'[a].frame].parent_step]
  BY <1>2 DEF DeepAs, DepthsOf, DepthAfter
<1>3. CASE a = N + 1
  BY <1>2, <1>3
<1>4. CASE a \in 1..N
  <2>1. PICK b \in VmEvent, l \in 1..Len(frames) : b = history[a] /\ b = history'[a] /\ l = b.frame
    BY <1>1, <1>2, <1>4, VmFacts
  <2>2. frames'[l].parent = frames[l].parent /\ frames'[l].parent_step = frames[l].parent_step
    BY DEF SameNote
  <2>3. Len(s) \in Nat /\ Len(t) \in Nat /\ \A n \in 0..Len(s) : n \in 0..Len(t)
    OBVIOUS
  <2>4. /\ b.kind = "step" /\ b.frame = k =>
             b.index \in 0..Len(s) /\ b.depth = DepthsOf(s)[b.index]
        /\ b.kind = "call" /\ frames[b.frame].parent = k =>
             /\ frames[b.frame].parent_step \in 0..Len(s)
             /\ b.depth = DepthsOf(s)[frames[b.frame].parent_step]
    BY <1>1, <1>4, <2>1 DEF DeepAs
  <2>5. ASSUME b.kind = "step", b.frame = k
        PROVE  b.index \in 0..Len(t) /\ b.depth = DepthsOf(t)[b.index]
    BY <2>3, <2>4, <2>5
  <2>6. ASSUME b.kind = "call", frames'[l].parent = k
        PROVE  /\ frames'[l].parent_step \in 0..Len(t)
               /\ b.depth = DepthsOf(t)[frames'[l].parent_step]
    <3>1. PICK q : q = frames[l].parent_step /\ q = frames'[l].parent_step
      BY <2>2
    <3>2. q \in 0..Len(s) /\ b.depth = DepthsOf(s)[q]
      BY <2>1, <2>2, <2>4, <2>6, <3>1
    <3> QED BY <2>3, <3>1, <3>2
  <2> QED BY <2>1, <2>5, <2>6
<1>5. a \in 1..N \/ a = N + 1
  OBVIOUS
<1> QED BY <1>3, <1>4, <1>5

LEMMA DeepAsSame ==
  ASSUME IInv, NEW k, NEW s \in Seq(Op), DeepAs(k, s),
         NEW e \in VmEvent, history' = Append(history, e),
         \A l \in 1..Len(frames) : SameNote(l),
         e.kind = "step" => e.frame # k,
         e.kind = "call" => frames'[e.frame].parent # k
  PROVE  DeepAs(k, s)'
<1>1. Len(s) <= Len(s)
  OBVIOUS
<1>2. ~(e.kind = "step" /\ e.frame = k) /\ ~(e.kind = "call" /\ frames'[e.frame].parent = k)
  OBVIOUS
<1> QED BY <1>1, <1>2, DeepAsGrows

LEMMA QuietKeepsDepths ==
  ASSUME IInv, OrderInv, DepthInv, Quiet
  PROVE  DepthInv'
<1>1. history' = history /\ \A l \in 1..Len(frames) : SameNote(l)
  BY DEF Quiet
<1>2. RunningDepths'
  <2> SUFFICES ASSUME NEW i \in 1..Len(vm)
               PROVE  /\ vm'[i].depth = DepthsOf(vm'[i].trace)[Len(vm'[i].trace)]
                      /\ DeepAs(vm[i].id, vm[i].trace)'
    BY DEF RunningDepths, Quiet
  <2>1. PICK x, t : /\ x = vm[i].id /\ x = vm'[i].id
                    /\ t = vm[i].trace /\ t = vm'[i].trace /\ vm'[i].depth = vm[i].depth
    BY DEF Quiet, SameRun
  <2>2. DeepAs(x, t)'
    BY <1>1, <2>1, DeepAsStays DEF DepthInv, RunningDepths
  <2>3. DeepAs(vm[i].id, vm[i].trace)' <=> DeepAs(x, t)'
    BY <2>1 DEF DeepAs
  <2>4. vm[i].depth = DepthsOf(t)[Len(t)]
    BY <2>1 DEF DepthInv, RunningDepths
  <2> QED BY <2>1, <2>2, <2>3, <2>4
<1>3. NotedDepths'
  <2> SUFFICES ASSUME NEW k \in 1..Len(frames), ~IsOpen(k, Len(history))'
               PROVE  DeepAs(k, frames[k].steps)'
    BY DEF NotedDepths, Quiet
  <2>1. ~IsOpen(k, Len(history))
    BY <1>1 DEF IsOpen, Did
  <2>2. \A i \in 1..Len(vm) : vm[i].id # k
    BY <2>1 DEF OrderInv, OpenRuns
  <2>3. PICK t : t = frames[k].steps /\ t = frames'[k].steps
    BY <2>2 DEF Quiet
  <2>4. DeepAs(k, t)'
    BY <1>1, <2>1, <2>3, DeepAsStays DEF DepthInv, NotedDepths
  <2>5. DeepAs(k, frames[k].steps)' <=> DeepAs(k, t)'
    BY <2>3 DEF DeepAs
  <2> QED BY <2>4, <2>5
<1> QED BY <1>2, <1>3 DEF DepthInv

LEMMA BeginsKeepsDepths ==
  ASSUME IInv, OrderInv, DepthInv, Begins
  PROVE  DepthInv'
<1>1. PICK n \in Nat : n = Len(vm)
  BY VmFacts
<1>2. PICK m \in Nat : m = Len(frames)
  BY VmFacts
<1>3. PICK N \in Nat : N = Len(history)
  BY VmFacts
<1>4. PICK f : f = IF n = 0 THEN NoParent ELSE vm[n].id
  OBVIOUS
<1>5. PICK d \in Nat : d = IF n = 0 THEN 0 ELSE vm[n].depth
  BY <1>1, VmFacts
<1>6. /\ Len(vm') = n + 1 /\ Len(frames') = m + 1
      /\ \A i \in 1..n : SameRun(i)
      /\ \A l \in 1..m : frames'[l] = frames[l]
      /\ vm'[n + 1].id = m + 1 /\ vm'[n + 1].trace = <<>> /\ vm'[n + 1].depth = 0
      /\ frames'[m + 1].parent = f
      /\ n # 0 => frames'[m + 1].parent_step = Len(vm[n].trace)
  BY <1>1, <1>2, <1>4 DEF Begins, NewVmFrame
<1>7. PICK e \in VmEvent : /\ history' = Append(history, e) /\ e.kind = "call"
                           /\ e.frame = m + 1 /\ e.depth = d
  <2>1. PICK x : x = Called(m + 1, d)
    OBVIOUS
  <2>2. x \in VmEvent /\ x.kind = "call" /\ x.frame = m + 1 /\ x.depth = d
    BY <2>1 DEF Called, VmEvent, Id
  <2> QED BY <1>1, <1>2, <1>5, <2>1, <2>2 DEF Begins
<1>8. \A l \in 1..Len(frames) : SameNote(l)
  BY <1>2, <1>6 DEF SameNote
<1>9. n # 0 => n \in 1..Len(vm) /\ f = vm[n].id /\ f \in 1..m
  BY <1>1, <1>2, <1>4, VmFacts
<1>10. f # m + 1
  BY <1>4, <1>9, NoParentAssumption
<1>11. \A i \in 1..n + 1 : i \in 1..n \/ i = n + 1
  OBVIOUS
<1>12. RunningDepths'
  <2> SUFFICES ASSUME NEW i \in 1..n + 1
               PROVE  /\ vm'[i].depth = DepthsOf(vm'[i].trace)[Len(vm'[i].trace)]
                      /\ DeepAs(vm[i].id, vm[i].trace)'
    BY <1>6 DEF RunningDepths
  <2>1. CASE i \in 1..n
    <3>1. PICK t \in Seq(Op) : t = vm[i].trace /\ t = vm'[i].trace
      BY <1>1, <1>6, <2>1, VmFacts DEF SameRun
    <3>2. PICK x \in 1..m : x = vm[i].id /\ x = vm'[i].id
      BY <1>1, <1>2, <1>6, <2>1, VmFacts DEF SameRun
    <3>3. DeepAs(x, t) /\ vm[i].depth = DepthsOf(t)[Len(t)]
      BY <1>1, <2>1, <3>1, <3>2 DEF DepthInv, RunningDepths
    <3>4. vm'[i].depth = vm[i].depth
      BY <1>6, <2>1 DEF SameRun
    <3>5. DeepAs(x, t)'
      <4>1. CASE i = n
        <5>1. e.frame = m + 1 /\ frames'[e.frame].parent_step = Len(t) /\ e.depth = DepthsOf(t)[Len(t)]
          <6>0. n # 0
            BY <2>1, <4>1
          <6>1. n # 0 /\ t = vm[n].trace
            BY <3>1, <4>1, <6>0
          <6>2. frames'[m + 1].parent_step = Len(t)
            BY <1>6, <6>1
          <6>3. d = vm[n].depth /\ vm[n].depth = DepthsOf(t)[Len(t)]
            BY <1>5, <3>3, <4>1, <6>1
          <6> QED BY <1>7, <6>2, <6>3
        <5>2. Len(t) \in 0..Len(t) /\ Len(t) <= Len(t)
          OBVIOUS
        <5>3. e.kind = "call"
          BY <1>7
        <5>4. history' = Append(history, e)
          BY <1>7
        <5> QED BY <1>8, <3>3, <5>1, <5>2, <5>3, <5>4, DeepAsGrows
      <4>2. CASE i # n
        <5>1. x # f
          <6>1. i < n /\ n \in 1..Len(vm) /\ f = vm[n].id
            BY <1>1, <1>9, <2>1, <4>2
          <6>2. vm[i].id < vm[n].id
            BY <1>1, <2>1, <6>1 DEF IInv, IdsIncrease
          <6>3. f \in Nat /\ x \in Nat
            BY <1>9, <6>1
          <6> QED BY <3>2, <6>1, <6>2, <6>3
        <5>2. frames'[e.frame].parent # x /\ e.kind = "call" /\ history' = Append(history, e)
          BY <1>6, <1>7, <5>1
        <5> QED BY <1>8, <3>3, <5>2, DeepAsSame
      <4> QED BY <4>1, <4>2
    <3>6. DeepAs(vm[i].id, vm[i].trace)' <=> DeepAs(x, t)'
      BY <3>1, <3>2 DEF DeepAs
    <3> QED BY <3>1, <3>3, <3>4, <3>5, <3>6
  <2>2. CASE i = n + 1
    <3>1. DepthsOf(<<>>)[0] = 0
      <4>1. <<>> \in Seq(Op)
        OBVIOUS
      <4> QED BY <4>1, DepthsFacts
    <3>2. PICK x, t : x = m + 1 /\ x = vm'[i].id /\ t = <<>> /\ t = vm'[i].trace
      BY <1>6, <2>2
    <3>3. DeepAs(x, t)
      <4>1. \A a \in 1..Len(history) : history[a].frame \in 1..m
        BY <1>2, VmFacts
      <4>2. \A l \in 1..m : frames[l].parent # m + 1
        BY <1>2, NoParentAssumption DEF IInv, ParentsNoted
      <4> QED BY <3>2, <4>1, <4>2 DEF DeepAs
    <3>4. t \in Seq(Op)
      BY <3>2
    <3>5. e.kind = "call" /\ history' = Append(history, e) /\ frames'[e.frame].parent # x
      BY <1>6, <1>7, <1>10, <3>2
    <3>6. DeepAs(x, t)'
      BY <1>8, <3>3, <3>4, <3>5, DeepAsSame
    <3>7. DeepAs(vm[i].id, vm[i].trace)' <=> DeepAs(x, t)'
      BY <3>2 DEF DeepAs
    <3>8. Len(t) = 0
      BY <3>2
    <3> QED BY <1>6, <2>2, <3>1, <3>2, <3>6, <3>7, <3>8
  <2> QED BY <1>11, <2>1, <2>2
<1>13. NotedDepths'
  <2> SUFFICES ASSUME NEW k \in 1..m + 1, ~IsOpen(k, Len(history))'
               PROVE  DeepAs(k, frames[k].steps)'
    BY <1>6 DEF NotedDepths
  <2>1. Len(history') = N + 1
    BY <1>3, <1>7, PastGrows
  <2>2. \A kind, l : Did(kind, l, N + 1)' <=> Did(kind, l, N) \/ (kind = "call" /\ l = m + 1)
    BY <1>3, <1>7, PastGrows
  <2>3. \A l : IsOpen(l, N + 1)' <=> (Did("call", l, N) \/ l = m + 1) /\ ~Did("return", l, N)
    BY <2>2 DEF IsOpen
  <2>4. ~Did("return", m + 1, N)
    BY <1>2, <1>3, PastIsNoted
  <2>5. IsOpen(k, Len(history))' <=> IsOpen(k, N + 1)'
    BY <2>1 DEF IsOpen, Did
  <2>6. k \in 1..m /\ ~IsOpen(k, N)
    BY <2>3, <2>4, <2>5 DEF IsOpen
  <2>7. PICK t \in Seq(Op) : t = frames[k].steps /\ t = frames'[k].steps
    BY <1>2, <1>6, <2>6, VmFacts DEF NotedFrame
  <2>8. DeepAs(k, t)
    BY <1>2, <1>3, <2>6, <2>7 DEF DepthInv, NotedDepths
  <2>9. k # f
    BY <1>1, <1>2, <1>3, <1>4, <1>9, <2>6, NoParentAssumption DEF OrderInv, OpenRuns
  <2>10. e.kind = "call" /\ history' = Append(history, e) /\ frames'[e.frame].parent # k
    BY <1>6, <1>7, <2>9
  <2>11. DeepAs(k, t)'
    BY <1>8, <2>8, <2>10, DeepAsSame
  <2>12. DeepAs(k, frames[k].steps)' <=> DeepAs(k, t)'
    BY <2>7 DEF DeepAs
  <2> QED BY <2>11, <2>12
<1> QED BY <1>12, <1>13 DEF DepthInv

LEMMA ExecutesKeepsDepths ==
  ASSUME IInv, OrderInv, DepthInv, NEW op \in Op, Executes(op)
  PROVE  DepthInv'
<1>1. PICK n \in Nat \ {0} : n = Len(vm) /\ n \in 1..Len(vm)
  BY VmFacts DEF Executes
<1>2. PICK m \in Nat : m = Len(frames)
  BY VmFacts
<1>3. PICK N \in Nat : N = Len(history)
  BY VmFacts
<1>4. PICK id \in 1..m : id = vm[n].id
  BY <1>1, <1>2, VmFacts
<1>5. PICK old \in Seq(Op) : old = vm[n].trace
  BY <1>1, VmFacts
<1>6. PICK q \in Nat : q = Len(old)
  OBVIOUS
<1>7. PICK d \in Nat : d = vm[n].depth /\ d = DepthsOf(old)[q]
  BY <1>1, <1>5, <1>6, VmFacts DEF DepthInv, RunningDepths
<1>8. PICK e \in VmEvent : /\ history' = Append(history, e) /\ e.kind = "step"
                           /\ e.frame = id /\ e.index = q /\ e.depth = d
  <2>1. PICK x : x = Stepped(id, q, d)
    OBVIOUS
  <2>2. x \in VmEvent /\ x.kind = "step" /\ x.frame = id /\ x.index = q /\ x.depth = d
    BY <2>1 DEF Stepped, VmEvent, Id
  <2> QED BY <1>1, <1>4, <1>5, <1>6, <1>7, <2>1, <2>2 DEF Executes
<1>9. PICK new \in Seq(Op) : /\ new = Append(old, op) /\ Len(new) = q + 1
                             /\ \A i \in 0..q : DepthsOf(new)[i] = DepthsOf(old)[i]
                             /\ DepthsOf(new)[q + 1] = DepthAfter(op, DepthsOf(old)[q])
  BY <1>6, DepthsGrow
<1>10. /\ Len(vm') = n /\ \A i \in 1..n - 1 : vm'[i] = vm[i]
       /\ vm'[n].id = id /\ vm'[n].trace = new /\ vm'[n].depth = DepthAfter(op, d)
       /\ frames' = frames
  BY <1>1, <1>4, <1>5, <1>7, <1>9 DEF Executes
<1>11. \A l \in 1..Len(frames) : SameNote(l)
  BY <1>10, NotesUnchanged
<1>12. \A i \in 1..n : i \in 1..n - 1 \/ i = n
  OBVIOUS
<1>13. e.kind = "step" /\ e.frame = id /\ history' = Append(history, e)
  BY <1>8
<1>14. RunningDepths'
  <2> SUFFICES ASSUME NEW i \in 1..n
               PROVE  /\ vm'[i].depth = DepthsOf(vm'[i].trace)[Len(vm'[i].trace)]
                      /\ DeepAs(vm[i].id, vm[i].trace)'
    BY <1>10 DEF RunningDepths
  <2>1. CASE i \in 1..n - 1
    <3>1. i \in 1..Len(vm) /\ i < n
      BY <1>1, <2>1
    <3>2. PICK t \in Seq(Op) : t = vm[i].trace /\ t = vm'[i].trace
      BY <1>10, <2>1, <3>1, VmFacts
    <3>3. PICK x \in 1..m : x = vm[i].id /\ x = vm'[i].id
      BY <1>2, <1>10, <2>1, <3>1, VmFacts
    <3>4. DeepAs(x, t) /\ vm'[i].depth = DepthsOf(t)[Len(t)]
      BY <1>10, <2>1, <3>1, <3>2, <3>3 DEF DepthInv, RunningDepths
    <3>5. x # id
      <4>1. vm[i].id < vm[n].id
        BY <1>1, <3>1 DEF IInv, IdsIncrease
      <4> QED BY <1>4, <3>3, <4>1
    <3>6. DeepAs(x, t)'
      BY <1>11, <1>13, <3>4, <3>5, DeepAsSame
    <3>7. DeepAs(vm[i].id, vm[i].trace)' <=> DeepAs(x, t)'
      BY <3>2, <3>3 DEF DeepAs
    <3> QED BY <3>2, <3>4, <3>6, <3>7
  <2>2. CASE i = n
    <3>1. DeepAs(id, old)
      BY <1>1, <1>4, <1>5 DEF DepthInv, RunningDepths
    <3>2. Len(old) <= Len(new) /\ q \in 0..Len(new) /\ \A j \in 0..Len(old) : DepthsOf(new)[j] = DepthsOf(old)[j]
      BY <1>6, <1>9
    <3>3. e.index \in 0..Len(new) /\ e.depth = DepthsOf(new)[e.index]
      BY <1>6, <1>7, <1>8, <3>2
    <3>4. DeepAs(id, new)'
      BY <1>11, <1>13, <3>1, <3>2, <3>3, DeepAsGrows
    <3>5. DeepAs(vm[i].id, vm[i].trace)' <=> DeepAs(id, new)'
      BY <1>10, <2>2 DEF DeepAs
    <3> QED BY <1>7, <1>9, <1>10, <2>2, <3>4, <3>5
  <2> QED BY <1>12, <2>1, <2>2
<1>15. NotedDepths'
  <2> SUFFICES ASSUME NEW k \in 1..m, ~IsOpen(k, Len(history))'
               PROVE  DeepAs(k, frames[k].steps)'
    BY <1>2, <1>10 DEF NotedDepths
  <2>1. Len(history') = N + 1
    BY <1>3, <1>8, PastGrows
  <2>2. \A kind, l : kind # "step" => (Did(kind, l, N + 1)' <=> Did(kind, l, N))
    BY <1>3, <1>8, PastGrows
  <2>3. IsOpen(k, Len(history))' <=> IsOpen(k, N + 1)'
    BY <2>1 DEF IsOpen, Did
  <2>4. ~IsOpen(k, N)
    BY <2>2, <2>3 DEF IsOpen
  <2>5. PICK t \in Seq(Op) : t = frames[k].steps /\ t = frames'[k].steps
    BY <1>2, <1>10, VmFacts DEF NotedFrame
  <2>6. DeepAs(k, t)
    BY <1>2, <1>3, <2>4, <2>5 DEF DepthInv, NotedDepths
  <2>7. k # id
    BY <1>1, <1>2, <1>3, <1>4, <2>4 DEF OrderInv, OpenRuns
  <2>8. DeepAs(k, t)'
    BY <1>11, <1>13, <2>6, <2>7, DeepAsSame
  <2>9. DeepAs(k, frames[k].steps)' <=> DeepAs(k, t)'
    BY <2>5 DEF DeepAs
  <2> QED BY <2>8, <2>9
<1> QED BY <1>14, <1>15 DEF DepthInv

LEMMA LeavesKeepsDepths ==
  ASSUME IInv, OrderInv, DepthInv, Leaves
  PROVE  DepthInv'
<1>1. PICK n \in Nat \ {0} : n = Len(vm) /\ n \in 1..Len(vm)
  BY VmFacts DEF Leaves
<1>2. PICK m \in Nat : m = Len(frames)
  BY VmFacts
<1>3. PICK N \in Nat : N = Len(history)
  BY VmFacts
<1>4. PICK id \in 1..m : id = vm[n].id
  BY <1>1, <1>2, VmFacts
<1>5. PICK e \in VmEvent : history' = Append(history, e) /\ e.kind = "return" /\ e.frame = id
  <2>1. PICK x : x = Returned(id)
    OBVIOUS
  <2>2. x \in VmEvent /\ x.kind = "return" /\ x.frame = id
    BY <2>1 DEF Returned, VmEvent, Id
  <2> QED BY <1>1, <1>4, <2>1, <2>2 DEF Leaves
<1>6. /\ Len(vm') = n - 1 /\ \A i \in 1..n - 1 : vm'[i] = vm[i]
      /\ vm[n].phase = "leaving" /\ Len(frames') = m
      /\ \A k \in 1..m : SameNote(k) /\ frames'[k].steps = frames[k].steps
  BY <1>1, <1>2 DEF Leaves
<1>7. \A l \in 1..Len(frames) : SameNote(l)
  BY <1>2, <1>6
<1>8. e.kind = "return" /\ history' = Append(history, e)
  BY <1>5
<1>9. RunningDepths'
  <2> SUFFICES ASSUME NEW i \in 1..n - 1
               PROVE  /\ vm'[i].depth = DepthsOf(vm'[i].trace)[Len(vm'[i].trace)]
                      /\ DeepAs(vm[i].id, vm[i].trace)'
    BY <1>6 DEF RunningDepths
  <2>1. i \in 1..Len(vm)
    BY <1>1
  <2>2. PICK t \in Seq(Op) : t = vm[i].trace /\ t = vm'[i].trace
    BY <1>6, <2>1, VmFacts
  <2>3. PICK x : x = vm[i].id /\ x = vm'[i].id
    BY <1>6
  <2>4. DeepAs(x, t) /\ vm'[i].depth = DepthsOf(t)[Len(t)]
    BY <1>6, <2>1, <2>2, <2>3 DEF DepthInv, RunningDepths
  <2>5. DeepAs(x, t)'
    BY <1>7, <1>8, <2>4, DeepAsSame
  <2>6. DeepAs(vm[i].id, vm[i].trace)' <=> DeepAs(x, t)'
    BY <2>2, <2>3 DEF DeepAs
  <2> QED BY <2>2, <2>4, <2>5, <2>6
<1>10. NotedDepths'
  <2> SUFFICES ASSUME NEW k \in 1..m, ~IsOpen(k, Len(history))'
               PROVE  DeepAs(k, frames[k].steps)'
    BY <1>2, <1>6 DEF NotedDepths
  <2>1. Len(history') = N + 1
    BY <1>3, <1>5, PastGrows
  <2>2. \A kind, l : Did(kind, l, N + 1)' <=> Did(kind, l, N) \/ (kind = "return" /\ l = id)
    BY <1>3, <1>5, PastGrows
  <2>3. IsOpen(k, Len(history))' <=> IsOpen(k, N + 1)'
    BY <2>1 DEF IsOpen, Did
  <2>4. k # id => ~IsOpen(k, N)
    BY <2>2, <2>3 DEF IsOpen
  <2>5. PICK t \in Seq(Op) : t = frames[k].steps /\ t = frames'[k].steps
    BY <1>2, <1>6, VmFacts DEF NotedFrame
  <2>6. DeepAs(k, t)
    <3>1. CASE k = id
      <4>1. frames[vm[n].id].steps = vm[n].trace
        BY <1>1, <1>6 DEF OrderInv, PhaseSteps
      <4> QED BY <1>1, <1>4, <2>5, <3>1, <4>1 DEF DepthInv, RunningDepths
    <3>2. CASE k # id
      BY <1>2, <1>3, <2>4, <2>5, <3>2 DEF DepthInv, NotedDepths
    <3> QED BY <3>1, <3>2
  <2>7. DeepAs(k, t)'
    BY <1>7, <1>8, <2>6, DeepAsSame
  <2>8. DeepAs(k, frames[k].steps)' <=> DeepAs(k, t)'
    BY <2>5 DEF DeepAs
  <2> QED BY <2>7, <2>8
<1> QED BY <1>9, <1>10 DEF DepthInv

LEMMA InitDepths == ObserverInit => DepthInv
<1> SUFFICES ASSUME ObserverInit PROVE DepthInv
  OBVIOUS
<1>1. 1..Len(vm) = {} /\ 1..Len(frames) = {}
  BY DEF ObserverInit
<1> QED BY <1>1 DEF DepthInv, RunningDepths, NotedDepths

LEMMA NextDepths ==
  ASSUME IInv, OrderInv, DepthInv, [ObserverNext]_observerVars
  PROVE  DepthInv'
BY StepKinds, QuietKeepsDepths, BeginsKeepsDepths, ExecutesKeepsDepths, LeavesKeepsDepths

-----------------------------------------------------------------------------
(***************************************************************************)
(* The internal calls of a frame that a stream of events leaves open.      *)
(***************************************************************************)
Internals(s, kind, id, n) == {j \in 1..n : s[j].kind = kind /\ s[j].frame = id}

InternalsOpen(s, id, n) ==
  Cardinality(Internals(s, "fn", id, n)) - Cardinality(Internals(s, "fnret", id, n))

Change(e, id) ==
  IF e.frame # id THEN 0
  ELSE IF e.kind = "fn" THEN 1
  ELSE IF e.kind = "fnret" THEN 0 - 1
  ELSE 0

LEMMA InternalsFinite ==
  ASSUME NEW s, NEW kind, NEW id, NEW n \in Nat
  PROVE  IsFiniteSet(Internals(s, kind, id, n)) /\ Cardinality(Internals(s, kind, id, n)) \in Nat
<1>1. IsFiniteSet(1..n)
  BY FS_Interval
<1>2. Internals(s, kind, id, n) \subseteq 1..n
  BY DEF Internals
<1>3. IsFiniteSet(Internals(s, kind, id, n))
  BY <1>1, <1>2, FS_Subset
<1> QED BY <1>3, FS_CardinalityType

LEMMA OneMoreInternal ==
  ASSUME NEW s, NEW kind, NEW id, NEW n \in Nat
  PROVE  Cardinality(Internals(s, kind, id, n + 1)) =
           IF s[n + 1].kind = kind /\ s[n + 1].frame = id
             THEN Cardinality(Internals(s, kind, id, n)) + 1
             ELSE Cardinality(Internals(s, kind, id, n))
<1>1. \A j : j \in 1..n + 1 <=> j \in 1..n \/ j = n + 1
  OBVIOUS
<1>2. CASE s[n + 1].kind = kind /\ s[n + 1].frame = id
  <2>1. Internals(s, kind, id, n + 1) = Internals(s, kind, id, n) \cup {n + 1}
    BY <1>1, <1>2 DEF Internals
  <2>2. n + 1 \notin Internals(s, kind, id, n)
    BY DEF Internals
  <2> QED BY <1>2, <2>1, <2>2, InternalsFinite, FS_AddElement
<1>3. CASE ~(s[n + 1].kind = kind /\ s[n + 1].frame = id)
  <2>1. Internals(s, kind, id, n + 1) = Internals(s, kind, id, n)
    BY <1>1, <1>3 DEF Internals
  <2> QED BY <1>3, <2>1
<1> QED BY <1>2, <1>3

LEMMA InternalsAgree ==
  ASSUME NEW s, NEW t, NEW n \in Nat, \A j \in 1..n : s[j] = t[j]
  PROVE  \A id : InternalsOpen(s, id, n) = InternalsOpen(t, id, n)
<1>1. \A kind, id : Internals(s, kind, id, n) = Internals(t, kind, id, n)
  BY DEF Internals
<1> QED BY <1>1 DEF InternalsOpen

(***************************************************************************)
(* The depth the VM was at, from what is noted of the frames.              *)
(***************************************************************************)
LEMMA AllNoted ==
  ASSUME IInv, OrderInv, DepthInv, finished, NEW c \in 1..Len(frames)
  PROVE  DeepAs(c, frames[c].steps) /\ frames[c].steps \in Seq(Op)
<1>1. vm = <<>> /\ Len(vm) = 0
  BY DEF OrderInv, EndedEmpty
<1>2. ~IsOpen(c, Len(history))
  BY <1>1 DEF OrderInv, OpenRuns
<1> QED BY <1>2, VmFacts DEF DepthInv, NotedDepths, NotedFrame

LEMMA DepthOfStep ==
  ASSUME IInv, OrderInv, DepthInv, finished, NEW b \in 1..Len(history), history[b].kind = "step",
         NEW c, c = history[b].frame, NEW i, i = history[b].index
  PROVE  DepthOf(Plain(history[b])) = DepthsOf(frames[c].steps)[i]
<1>1. PICK x : x = Plain(history[b])
  OBVIOUS
<1>2. PICK a \in 1..Len(history) : /\ Plain(history[a]) = x
                                   /\ DepthOf(x) = history[a].depth
  <2>1. \E a \in 1..Len(history) : Plain(history[a]) = x
    BY <1>1
  <2> QED BY <2>1 DEF DepthOf
<1>3. history[a].kind = "step" /\ history[a].frame = c /\ history[a].index = i
  BY <1>1, <1>2 DEF Plain
<1>4. c \in 1..Len(frames)
  BY VmFacts
<1>5. DeepAs(c, frames[c].steps)
  BY <1>4, AllNoted
<1> QED BY <1>1, <1>2, <1>3, <1>5 DEF DeepAs

LEMMA DepthOfCall ==
  ASSUME IInv, OrderInv, DepthInv, finished, NEW b \in 1..Len(history), history[b].kind = "call",
         NEW k, k = history[b].frame, NEW c \in 1..Len(frames), c = frames[k].parent
  PROVE  /\ DepthOf(Plain(history[b])) = DepthsOf(frames[c].steps)[frames[k].parent_step]
         /\ frames[k].parent_step \in 0..Len(frames[c].steps)
<1>1. PICK x : x = Plain(history[b])
  OBVIOUS
<1>2. PICK a \in 1..Len(history) : /\ Plain(history[a]) = x
                                   /\ DepthOf(x) = history[a].depth
  <2>1. \E a \in 1..Len(history) : Plain(history[a]) = x
    BY <1>1
  <2> QED BY <2>1 DEF DepthOf
<1>3. history[a].kind = "call" /\ history[a].frame = k
  BY <1>1, <1>2 DEF Plain
<1>4. DeepAs(c, frames[c].steps)
  BY AllNoted
<1> QED BY <1>1, <1>2, <1>3, <1>4 DEF DeepAs

-----------------------------------------------------------------------------
(***************************************************************************)
(* The depth the writer is at: an activation that has something to show    *)
(* has as many internal calls open as the VM had functions, up to the one  *)
(* that the next step opens.                                               *)
(***************************************************************************)
HeldBy(act) ==
  LET steps == frames[act.id].steps
  IN  /\ act.i < Len(steps) \/ act.kids # {} =>
           act.depth + (IF act.pending_call THEN 1 ELSE 0) = DepthsOf(steps)[act.i]
      /\ act.pending_call => act.i > 0 /\ steps[act.i] = "call"

(* What DepthFollowsVm says of one event of a stream. *)
FollowsAt(s, n) ==
  LET e == s[n]
      within == IF e.kind = "call" THEN frames[e.frame].parent ELSE e.frame
      spliced == e.kind = "call" /\ within # NoParent
  IN  /\ e.kind = "step" => InternalsOpen(s, e.frame, n) = DepthOf(e)
      /\ spliced => \/ InternalsOpen(s, within, n) = DepthOf(e)
                    \/ /\ ~InRange(within, e.frame)
                       /\ StoppedAfterCall(within)

Held(em, s) ==
  \A m \in 1..Len(em) : /\ HeldBy(em[m])
                        /\ InternalsOpen(s, em[m].id, Len(s)) = em[m].depth

AllFollow(s) == \A n \in 1..Len(s) : FollowsAt(s, n)

(* Internal calls are of frames that were called. *)
InternalsAreCalled(s, q) ==
  \A j \in 1..Len(s) : s[j].kind \in {"fn", "fnret"} => Did("call", s[j].frame, q)

AtDepth(em, s, q) == Held(em, s) /\ AllFollow(s) /\ InternalsAreCalled(s, q)

DepthPlace ==
  /\ PlaceInv
  /\ DepthInv
  /\ AtDepth(emitting, out, Len(FrameEvents))

LEMMA FollowsVm == DepthPlace => DepthFollowsVm
<1> SUFFICES ASSUME DepthPlace, NEW n \in 1..Len(out) PROVE
      LET e == out[n]
          within == IF e.kind = "call" THEN frames[e.frame].parent ELSE e.frame
          spliced == e.kind = "call" /\ within # NoParent
      IN  /\ e.kind = "step" => OpenInternals(e.frame, n) = DepthOf(e)
          /\ spliced => \/ OpenInternals(within, n) = DepthOf(e)
                        \/ /\ ~InRange(within, e.frame)
                           /\ StoppedAfterCall(within)
  BY DEF DepthFollowsVm
<1>1. \A id : OpenInternals(id, n) = InternalsOpen(out, id, n)
  BY DEF OpenInternals, InternalsOpen, Internals
<1>2. FollowsAt(out, n)
  BY DEF DepthPlace, AtDepth, AllFollow
<1> QED BY <1>1, <1>2 DEF FollowsAt

LEMMA DepthNow ==
  ASSUME UNCHANGED <<frames, history>>, NEW em, em = emitting', NEW s, s = out',
         NEW q, q = Len(FrameEvents'), AtDepth(em, s, q)
  PROVE  AtDepth(emitting, out, Len(FrameEvents))'
<1>1. \A n : FollowsAt(out, n)' <=> FollowsAt(s, n)
  BY DEF FollowsAt, DepthOf, InRange, StoppedAfterCall, Plain, InternalsOpen, Internals
<1>2. \A m : HeldBy(emitting[m])' <=> HeldBy(em[m])
  BY DEF HeldBy
<1>3. \A id : InternalsOpen(out, id, Len(out))' = InternalsOpen(s, id, Len(s))
  BY DEF InternalsOpen, Internals
<1>4. \A m : InternalsOpen(out, emitting[m].id, Len(out))' = InternalsOpen(s, em[m].id, Len(s))
  BY DEF InternalsOpen, Internals
<1>5. Held(emitting, out)'
  BY <1>2, <1>4 DEF AtDepth, Held
<1>6. AllFollow(out)'
  BY <1>1 DEF AtDepth, AllFollow
<1>7. InternalsAreCalled(out, Len(FrameEvents))'
  BY DEF AtDepth, InternalsAreCalled, Did
<1> QED BY <1>5, <1>6, <1>7 DEF AtDepth

(* One more event. *)
LEMMA FollowsGrows ==
  ASSUME NEW S, NEW s \in Seq(S), NEW e \in S, NEW L \in Nat, L = Len(s), NEW t, t = Append(s, e)
  PROVE  \A n \in 1..L : FollowsAt(t, n) <=> FollowsAt(s, n)
<1> SUFFICES ASSUME NEW n \in 1..L PROVE FollowsAt(t, n) <=> FollowsAt(s, n)
  OBVIOUS
<1>1. t[n] = s[n] /\ \A j \in 1..n : s[j] = t[j]
  BY AppendFacts
<1>2. \A id : InternalsOpen(s, id, n) = InternalsOpen(t, id, n)
  <2>1. PICK k \in Nat : k = n
    OBVIOUS
  <2>2. PICK a, b : a = s /\ b = t /\ \A j \in 1..k : a[j] = b[j]
    BY <1>1, <2>1
  <2>3. \A id : InternalsOpen(a, id, k) = InternalsOpen(b, id, k)
    BY <2>2, InternalsAgree
  <2> QED BY <2>1, <2>2, <2>3
<1> QED BY <1>1, <1>2 DEF FollowsAt

Grows(s, e, t) == s \in Seq(OutEvent) /\ e \in OutEvent /\ t = Append(s, e)

LEMMA GrowsFacts ==
  ASSUME NEW s, NEW e, NEW t, Grows(s, e, t)
  PROVE  /\ t \in Seq(OutEvent) /\ Len(s) \in Nat /\ Len(t) = Len(s) + 1 /\ t[Len(t)] = e
         /\ \A id : /\ InternalsOpen(t, id, Len(t)) = InternalsOpen(s, id, Len(s)) + Change(e, id)
                    /\ InternalsOpen(s, id, Len(s)) \in Int
<1>1. s \in Seq(OutEvent) /\ e \in OutEvent /\ t = Append(s, e)
  BY DEF Grows
<1>2. PICK L \in Nat : L = Len(s)
  BY <1>1
<1>3. t \in Seq(OutEvent) /\ Len(t) = L + 1 /\ t[Len(t)] = e
  BY <1>1, <1>2, AppendFacts
<1>4. ASSUME NEW id
      PROVE  /\ InternalsOpen(t, id, L + 1) = InternalsOpen(s, id, L) + Change(e, id)
             /\ InternalsOpen(s, id, L) \in Int
  <2>1. t[L + 1] = e /\ \A j \in 1..L : s[j] = t[j]
    BY <1>1, <1>2, AppendFacts
  <2>2. InternalsOpen(s, id, L) = InternalsOpen(t, id, L)
    BY <2>1, InternalsAgree
  <2>3. PICK a \in Nat : a = Cardinality(Internals(t, "fn", id, L))
    BY InternalsFinite
  <2>4. PICK b \in Nat : b = Cardinality(Internals(t, "fnret", id, L))
    BY InternalsFinite
  <2>5. \A kind : Cardinality(Internals(t, kind, id, L + 1)) =
                    IF t[L + 1].kind = kind /\ t[L + 1].frame = id
                      THEN Cardinality(Internals(t, kind, id, L)) + 1
                      ELSE Cardinality(Internals(t, kind, id, L))
    BY OneMoreInternal
  <2>6. Cardinality(Internals(t, "fn", id, L + 1)) = IF e.kind = "fn" /\ e.frame = id THEN a + 1 ELSE a
    BY <2>1, <2>3, <2>5
  <2>7. Cardinality(Internals(t, "fnret", id, L + 1)) = IF e.kind = "fnret" /\ e.frame = id THEN b + 1 ELSE b
    BY <2>1, <2>4, <2>5
  <2>8. InternalsOpen(t, id, L) = a - b
    BY <2>3, <2>4 DEF InternalsOpen
  <2>9. InternalsOpen(t, id, L + 1) = (a - b) + Change(e, id)
    BY <2>6, <2>7 DEF InternalsOpen, Change
  <2> QED BY <2>2, <2>8, <2>9
<1> QED BY <1>1, <1>2, <1>3, <1>4

LEMMA StreamGrows ==
  ASSUME NEW s, NEW e, NEW t, Grows(s, e, t), NEW p \in Nat, NEW q \in Nat, p <= q,
         AllFollow(s), InternalsAreCalled(s, p),
         FollowsAt(t, Len(t)), e.kind \in {"fn", "fnret"} => Did("call", e.frame, q)
  PROVE  AllFollow(t) /\ InternalsAreCalled(t, q)
<1>1. s \in Seq(OutEvent) /\ e \in OutEvent /\ t = Append(s, e)
  BY DEF Grows
<1>2. PICK L \in Nat : L = Len(s)
  BY <1>1
<1>3. Len(t) = L + 1 /\ t[L + 1] = e /\ \A j \in 1..L : t[j] = s[j]
  BY <1>1, <1>2, AppendFacts
<1>4. \A j \in 1..L + 1 : j \in 1..L \/ j = L + 1
  OBVIOUS
<1>5. \A n \in 1..L : FollowsAt(t, n)
  BY <1>1, <1>2, FollowsGrows DEF AllFollow
<1>6. AllFollow(t)
  BY <1>3, <1>4, <1>5 DEF AllFollow
<1>7. \A kind, k : Did(kind, k, p) => Did(kind, k, q)
  <2>1. \A b \in 1..p : b \in 1..q
    OBVIOUS
  <2> QED BY <2>1 DEF Did
<1>8. InternalsAreCalled(t, q)
  BY <1>2, <1>3, <1>4, <1>7 DEF InternalsAreCalled
<1> QED BY <1>6, <1>8

(* A frame that was not called has no internal calls. *)
LEMMA FreshInternals ==
  ASSUME NEW s, NEW q, NEW id, InternalsAreCalled(s, q), ~Did("call", id, q)
  PROVE  InternalsOpen(s, id, Len(s)) = 0
<1>1. \A kind \in {"fn", "fnret"} : Internals(s, kind, id, Len(s)) = {}
  BY DEF Internals, InternalsAreCalled
<1>2. Internals(s, "fn", id, Len(s)) = {} /\ Internals(s, "fnret", id, Len(s)) = {}
  BY <1>1
<1>3. Cardinality({}) = 0
  BY FS_EmptySet
<1> QED BY <1>2, <1>3 DEF InternalsOpen

(* The activations but the innermost are of other frames. *)
LEMMA OthersDiffer ==
  ASSUME PlaceInv, NEW n, n = Len(emitting), NEW m \in 1..n, m # n
  PROVE  emitting[m].id # emitting[n].id
<1>1. n \in Nat /\ m \in 1..Len(emitting) /\ n \in 1..Len(emitting) /\ m < n
  BY PlaceFacts
<1>2. emitting[m].id < emitting[n].id
  BY <1>1 DEF PlaceInv, EmittingIsOpen
<1>3. emitting[m].id \in Nat /\ emitting[n].id \in Nat
  BY <1>1, PlaceFacts
<1> QED BY <1>2, <1>3

(* A change of the innermost activation, and of no other. *)
LEMMA HeldWithCurrent ==
  ASSUME PlaceInv, Emitting, Held(emitting, out), NEW act \in ActivationSet, act.id = Current.id,
         NEW u, u = [emitting EXCEPT ![Len(emitting)] = act], HeldBy(act),
         NEW t, InternalsOpen(t, act.id, Len(t)) = act.depth,
         \A id : id # act.id => InternalsOpen(t, id, Len(t)) = InternalsOpen(out, id, Len(out))
  PROVE  Held(u, t)
<1>1. WriterTypeOK
  BY DEF PlaceInv, TypeInv
<1>2. PICK n : n = Len(emitting)
  OBVIOUS
<1>3. /\ n \in Nat \ {0} /\ Current = emitting[n]
      /\ Len(u) = n /\ \A m \in 1..n : u[m] = IF m = n THEN act ELSE emitting[m]
  <2>1. emitting \in Seq(ActivationSet) /\ emitting # <<>>
    BY <1>1, WriterTypes DEF Emitting
  <2>2. PICK em \in Seq(ActivationSet) : em = emitting /\ em # <<>> /\ n = Len(em)
    BY <1>2, <2>1
  <2>3. u = [em EXCEPT ![n] = act]
    BY <2>2
  <2>4. Len(u) = n /\ \A m \in 1..n : u[m] = IF m = n THEN act ELSE em[m]
    BY <2>2, <2>3, WithLastFacts
  <2> QED BY <1>2, <2>2, <2>4 DEF Current
<1> SUFFICES ASSUME NEW m \in 1..n
             PROVE  HeldBy(u[m]) /\ InternalsOpen(t, u[m].id, Len(t)) = u[m].depth
  BY <1>3 DEF Held
<1>4. CASE m = n
  <2>1. u[m] = act
    BY <1>3, <1>4
  <2> QED BY <2>1
<1>5. CASE m # n
  <2>1. u[m] = emitting[m] /\ emitting[m].id # act.id
    BY <1>2, <1>3, <1>5, OthersDiffer
  <2>2. HeldBy(emitting[m]) /\ InternalsOpen(out, emitting[m].id, Len(out)) = emitting[m].depth
    BY <1>2 DEF Held
  <2> QED BY <2>1, <2>2
<1> QED BY <1>4, <1>5

-----------------------------------------------------------------------------
(***************************************************************************)
(* Each action of the writer keeps its depth.                              *)
(***************************************************************************)
LEMMA EmitTopKeepsDepth ==
  ASSUME DepthPlace, UNCHANGED observerVars, finished, EmitTop, Len(FrameEvents') = Len(FrameEvents) + 1
  PROVE  AtDepth(emitting, out, Len(FrameEvents))'
<1>1. UNCHANGED <<history, frames>> /\ ~Emitting /\ TopsLeft # {} /\ PlaceInv /\ WriterTypeOK
  BY DEF observerVars, EmitTop, DepthPlace, PlaceInv, TypeInv
<1>2. PICK p \in Nat : p = Len(FrameEvents) /\ p < Len(history)
  BY <1>1, PlaceFacts, MoreWhileTopsLeft
<1>3. PICK e : e = history[p + 1]
  OBVIOUS
<1>4. PICK id \in 1..Len(frames) : id = First(TopsLeft) /\ frames[id].parent = NoParent
  BY <1>1, TopsFacts DEF TopsLeft, children
<1>5. e.kind = "call" /\ e.frame = id
  BY <1>1, <1>2, <1>3, <1>4, NextTop
<1>6. PICK x \in OutEvent : x = Entered(id) /\ x.kind = "call" /\ x.frame = id
  BY OutEvents DEF Entered
<1>7. PICK act : act = Activation(id) /\ act.id = id /\ act.i = 0 /\ act.depth = 0 /\ act.pending_call = FALSE
  BY ActivationFacts
<1>8. PICK s \in Seq(OutEvent) : s = out /\ AllFollow(s) /\ InternalsAreCalled(s, p)
  BY <1>1, <1>2, WriterTypes DEF DepthPlace, AtDepth
<1>9. PICK t : t = Append(s, x) /\ t = out'
  BY <1>4, <1>6, <1>8 DEF EmitTop
<1>10. PICK u : u = <<act>> /\ u = emitting'
  BY <1>4, <1>7 DEF EmitTop
<1>11. Grows(s, x, t)
  BY <1>6, <1>8, <1>9 DEF Grows
<1>12. FollowsAt(t, Len(t))
  BY <1>4, <1>6, <1>11, GrowsFacts DEF FollowsAt
<1>13. AllFollow(t) /\ InternalsAreCalled(t, p + 1)
  <2>1. x.kind \notin {"fn", "fnret"} /\ AllFollow(s) /\ InternalsAreCalled(s, p)
    BY <1>6, <1>8
  <2>2. p \in Nat /\ p + 1 \in Nat /\ p <= p + 1
    BY <1>2
  <2> QED BY <1>11, <1>12, <2>1, <2>2, StreamGrows
<1>14. InternalsOpen(t, id, Len(t)) = 0
  <2>1. ~Did("call", id, p)
    BY <1>1, <1>2, <1>3, <1>5, FreshFrame DEF PlaceInv, TypeInv
  <2>2. InternalsOpen(s, id, Len(s)) = 0
    BY <1>8, <2>1, FreshInternals
  <2>3. Change(x, id) = 0
    BY <1>6 DEF Change
  <2> QED BY <1>11, <2>2, <2>3, GrowsFacts
<1>15. HeldBy(act)
  <2>1. frames[id].steps \in Seq(Op)
    BY <1>1, VmFacts DEF PlaceInv, TypeInv, NotedFrame
  <2>2. DepthsOf(frames[id].steps)[0] = 0
    BY <2>1, DepthsFacts
  <2> QED BY <1>7, <2>2 DEF HeldBy
<1>16. Held(u, t)
  BY <1>7, <1>10, <1>14, <1>15 DEF Held
<1> QED BY <1>1, <1>2, <1>9, <1>10, <1>13, <1>16, DepthNow DEF AtDepth

(* An action that writes one event and changes only the innermost activation. *)
LEMMA InternalKeepsDepth ==
  ASSUME DepthPlace, UNCHANGED <<history, frames>>, Emitting, FrameEvents' = FrameEvents,
         NEW act \in ActivationSet, act.id = Current.id, HeldBy(act),
         emitting' = [emitting EXCEPT ![Len(emitting)] = act],
         NEW x \in OutEvent, out' = Append(out, x), x.kind \in {"fn", "fnret"}, x.frame = Current.id,
         act.depth = Current.depth + Change(x, act.id)
  PROVE  AtDepth(emitting, out, Len(FrameEvents))'
<1>1. PlaceInv /\ WriterTypeOK
  BY DEF DepthPlace, PlaceInv, TypeInv
<1>2. PICK p \in Nat : p = Len(FrameEvents)
  BY <1>1, PlaceFacts
<1>3. PICK c \in 1..Len(frames) : c = Current.id
  BY <1>1, CurrentFacts
<1>4. Len(emitting) \in 1..Len(emitting) /\ Current = emitting[Len(emitting)] /\ Current.depth \in Nat
  BY <1>1, CurrentFacts
<1>5. PICK s \in Seq(OutEvent) : s = out /\ AllFollow(s) /\ InternalsAreCalled(s, p) /\ Held(emitting, s)
  BY <1>1, <1>2, WriterTypes DEF DepthPlace, AtDepth
<1>6. PICK t : t = Append(s, x) /\ t = out'
  BY <1>5
<1>7. PICK u : u = [emitting EXCEPT ![Len(emitting)] = act] /\ u = emitting'
  OBVIOUS
<1>8. Grows(s, x, t)
  BY <1>5, <1>6 DEF Grows
<1>9. FollowsAt(t, Len(t))
  BY <1>8, GrowsFacts DEF FollowsAt
<1>10. Did("call", c, p)
  BY <1>2, <1>3, <1>4 DEF IsOpen, PlaceInv, EmittingIsOpen, DepthPlace
<1>11. AllFollow(t) /\ InternalsAreCalled(t, p)
  <2>1. x.frame = c /\ p <= p /\ p \in Nat
    BY <1>2, <1>3
  <2> QED BY <1>5, <1>8, <1>9, <1>10, <2>1, StreamGrows
<1>12. InternalsOpen(t, act.id, Len(t)) = act.depth
  <2>1. InternalsOpen(s, act.id, Len(s)) = Current.depth
    BY <1>4, <1>5 DEF Held
  <2> QED BY <1>8, <2>1, GrowsFacts
<1>13. \A id : id # act.id => InternalsOpen(t, id, Len(t)) = InternalsOpen(s, id, Len(s))
  <2>1. \A id : id # act.id => Change(x, id) = 0
    BY DEF Change
  <2> QED BY <1>8, <2>1, GrowsFacts
<1>14. Held(u, t)
  BY <1>1, <1>5, <1>7, <1>12, <1>13, HeldWithCurrent
<1>15. p = Len(FrameEvents')
  BY <1>2
<1> QED BY <1>6, <1>7, <1>11, <1>14, <1>15, DepthNow DEF AtDepth

LEMMA OpenInternalKeepsDepth ==
  ASSUME DepthPlace, UNCHANGED observerVars, OpenInternal
  PROVE  AtDepth(emitting, out, Len(FrameEvents))'
<1>1. UNCHANGED <<history, frames>> /\ Emitting /\ PlaceInv /\ WriterTypeOK
  BY DEF observerVars, OpenInternal, DepthPlace, PlaceInv, TypeInv
<1>2. PICK act \in ActivationSet :
        /\ act.id = Current.id /\ act.i = Current.i /\ act.kids = Current.kids
        /\ act.depth = Current.depth + 1 /\ act.pending_call = FALSE
        /\ emitting' = [emitting EXCEPT ![Len(emitting)] = act]
  BY <1>1, OpenInternalFacts
<1>3. Len(emitting) \in 1..Len(emitting) /\ Current = emitting[Len(emitting)] /\ Current.depth \in Nat
  BY <1>1, CurrentFacts
<1>4. PICK x \in OutEvent : x = InternalCall(Current.id) /\ ~OfFrame(x)
  BY <1>1, CurrentFacts, OutEvents
<1>5. out' = Append(out, x)
  BY <1>4 DEF OpenInternal
<1>6. FrameEvents' = FrameEvents
  BY <1>1, <1>4, <1>5, EventsGrow, WriterTypes DEF FrameEvents
<1>7. HeldBy(Current)
  BY <1>3 DEF DepthPlace, AtDepth, Held
<1>8. HeldBy(act)
  <2>1. PICK D, steps : steps = frames[Current.id].steps /\ D = DepthsOf(steps)
    OBVIOUS
  <2>2. Current.i < Len(steps) /\ Current.pending_call
    BY <2>1 DEF OpenInternal, StepsLeft
  <2>3. Current.depth + 1 = D[Current.i]
    BY <1>7, <2>1, <2>2 DEF HeldBy
  <2>4. act.depth + 0 = D[act.i] /\ act.pending_call = FALSE
    BY <1>2, <1>3, <2>3
  <2>5. steps = frames[act.id].steps
    BY <1>2, <2>1
  <2> QED BY <2>1, <2>4, <2>5 DEF HeldBy
<1>9. x.kind = "fn" /\ x.frame = Current.id /\ Change(x, act.id) = 1
  BY <1>2, <1>4 DEF InternalCall, Change
<1>10. act.depth = Current.depth + Change(x, act.id)
  BY <1>2, <1>9
<1>11. x \in OutEvent /\ x.kind \in {"fn", "fnret"} /\ x.frame = Current.id
  BY <1>4, <1>9
<1>12. /\ act \in ActivationSet /\ act.id = Current.id
       /\ emitting' = [emitting EXCEPT ![Len(emitting)] = act]
  BY <1>2
<1> QED BY <1>1, <1>5, <1>6, <1>8, <1>10, <1>11, <1>12, InternalKeepsDepth

LEMMA CloseInternalKeepsDepth ==
  ASSUME DepthPlace, UNCHANGED observerVars, CloseInternal
  PROVE  AtDepth(emitting, out, Len(FrameEvents))'
<1>1. UNCHANGED <<history, frames>> /\ Emitting /\ PlaceInv /\ WriterTypeOK
  BY DEF observerVars, CloseInternal, DepthPlace, PlaceInv, TypeInv
<1>2. PICK act \in ActivationSet :
        /\ act.id = Current.id /\ act.i = Current.i /\ act.kids = Current.kids
        /\ act.depth = Current.depth - 1 /\ act.pending_call = Current.pending_call
        /\ emitting' = [emitting EXCEPT ![Len(emitting)] = act]
  BY <1>1, CloseInternalFacts
<1>3. Len(emitting) \in 1..Len(emitting) /\ Current = emitting[Len(emitting)] /\ Current.depth \in Nat
  BY <1>1, CurrentFacts
<1>4. PICK x \in OutEvent : x = InternalReturn(Current.id) /\ ~OfFrame(x)
  BY <1>1, CurrentFacts, OutEvents
<1>5. out' = Append(out, x)
  BY <1>4 DEF CloseInternal
<1>6. FrameEvents' = FrameEvents
  BY <1>1, <1>4, <1>5, EventsGrow, WriterTypes DEF FrameEvents
<1>7. HeldBy(Current)
  BY <1>3 DEF DepthPlace, AtDepth, Held
<1>8. HeldBy(act)
  BY <1>2, <1>7 DEF HeldBy, CloseInternal, StepsLeft
<1>9. x.kind = "fnret" /\ x.frame = Current.id /\ Change(x, act.id) = 0 - 1
  BY <1>2, <1>4 DEF InternalReturn, Change
<1>10. act.depth = Current.depth + Change(x, act.id)
  BY <1>2, <1>3, <1>9
<1>11. x \in OutEvent /\ x.kind \in {"fn", "fnret"} /\ x.frame = Current.id
  BY <1>4, <1>9
<1>12. /\ act \in ActivationSet /\ act.id = Current.id
       /\ emitting' = [emitting EXCEPT ![Len(emitting)] = act]
  BY <1>2
<1> QED BY <1>1, <1>5, <1>6, <1>8, <1>10, <1>11, <1>12, InternalKeepsDepth

LEMMA ReturnFrameKeepsDepth ==
  ASSUME DepthPlace, UNCHANGED observerVars, finished, ReturnFrame,
         Len(FrameEvents') = Len(FrameEvents) + 1
  PROVE  AtDepth(emitting, out, Len(FrameEvents))'
<1>1. UNCHANGED <<history, frames>> /\ Emitting /\ PlaceInv /\ WriterTypeOK
  BY DEF observerVars, ReturnFrame, DepthPlace, PlaceInv, TypeInv
<1>2. PICK p \in Nat : p = Len(FrameEvents)
  BY <1>1, PlaceFacts
<1>3. PICK c \in 1..Len(frames) : c = Current.id
  BY <1>1, CurrentFacts
<1>4. PICK x \in OutEvent : x = Left(c) /\ x.kind = "return"
  BY OutEvents DEF Left
<1>5. PICK s \in Seq(OutEvent) : s = out /\ AllFollow(s) /\ InternalsAreCalled(s, p) /\ Held(emitting, s)
  BY <1>1, <1>2, WriterTypes DEF DepthPlace, AtDepth
<1>6. PICK t : t = Append(s, x) /\ t = out'
  BY <1>3, <1>4, <1>5 DEF ReturnFrame
<1>7. PICK u : u = Outer(emitting) /\ u = emitting'
  BY DEF ReturnFrame
<1>8. Grows(s, x, t)
  BY <1>4, <1>5, <1>6 DEF Grows
<1>9. FollowsAt(t, Len(t))
  BY <1>4, <1>8, GrowsFacts DEF FollowsAt
<1>10. AllFollow(t) /\ InternalsAreCalled(t, p + 1)
  <2>1. p <= p + 1 /\ p \in Nat /\ p + 1 \in Nat /\ x.kind \notin {"fn", "fnret"}
    BY <1>2, <1>4
  <2> QED BY <1>5, <1>8, <1>9, <2>1, StreamGrows
<1>11. \A id : InternalsOpen(t, id, Len(t)) = InternalsOpen(s, id, Len(s))
  <2>1. \A id : Change(x, id) = 0
    BY <1>4 DEF Change
  <2> QED BY <1>8, <2>1, GrowsFacts
<1>12. Held(u, t)
  <2>1. emitting \in Seq(ActivationSet) /\ emitting # <<>>
    BY <1>1, WriterTypes DEF Emitting
  <2>2. /\ Len(u) = Len(emitting) - 1
        /\ \A i \in 1..Len(emitting) - 1 : u[i] = emitting[i]
    BY <1>7, <2>1, OuterFacts
  <2>3. \A i \in 1..Len(emitting) - 1 : i \in 1..Len(emitting)
    BY <2>1
  <2>4. \A i \in 1..Len(u) : u[i] = emitting[i] /\ i \in 1..Len(emitting)
    BY <2>2, <2>3
  <2> QED BY <1>5, <1>11, <2>4 DEF Held
<1> QED BY <1>1, <1>2, <1>6, <1>7, <1>10, <1>12, DepthNow DEF AtDepth

LEMMA SpliceKidKeepsDepth ==
  ASSUME DepthPlace, UNCHANGED observerVars, finished, SpliceKid,
         Len(FrameEvents') = Len(FrameEvents) + 1
  PROVE  AtDepth(emitting, out, Len(FrameEvents))'
<1>1. UNCHANGED <<history, frames>> /\ Emitting /\ PlaceInv /\ WriterTypeOK /\ IInv /\ OrderInv
  BY DEF observerVars, SpliceKid, DepthPlace, PlaceInv, TypeInv
<1>2. PICK p \in Nat : p = Len(FrameEvents) /\ p < Len(history)
  BY <1>1, PlaceFacts, MoreWhileEmitting
<1>3. PICK e : e = history[p + 1]
  OBVIOUS
<1>4. PICK n : /\ n = Len(emitting) /\ n \in 1..Len(emitting) /\ Current = emitting[n]
               /\ Current \in ActivationSet /\ Current.depth \in Nat /\ Current.i \in Nat
               /\ Current.kids \in SUBSET (1..Len(frames)) /\ Current.id \in 1..Len(frames)
               /\ Current.pending_call \in BOOLEAN
  BY <1>1, CurrentFacts
<1>5. PICK id \in Current.kids, act \in ActivationSet :
        /\ id = First(Current.kids)
        /\ act.id = Current.id /\ act.i = Current.i /\ act.kids = Current.kids \ {id}
        /\ act.depth = Current.depth /\ act.pending_call = Current.pending_call
        /\ emitting' = Append([emitting EXCEPT ![Len(emitting)] = act], Activation(id))
        /\ out' = Append(out, Entered(id))
  BY <1>1, SpliceKidFacts
<1>6. id \in 1..Len(frames) /\ e.kind = "call" /\ e.frame = id
  <2>1. id \in 1..Len(frames)
    BY <1>4, <1>5
  <2> QED BY <1>1, <1>2, <1>3, <1>5, <2>1, NextOfCurrent
<1>7. PICK x \in OutEvent : x = Entered(id) /\ x.kind = "call" /\ x.frame = id
  BY <1>6, OutEvents DEF Entered
<1>8. p + 1 \in 1..Len(history)
  BY <1>1, <1>2, PlaceFacts
<1>9. x = Plain(history[p + 1])
  BY <1>1, <1>3, <1>6, <1>7, <1>8 DEF Entered, Plain, OrderInv, EventIndexes
<1>10. PICK s \in Seq(OutEvent) : s = out /\ AllFollow(s) /\ InternalsAreCalled(s, p) /\ Held(emitting, s)
  BY <1>1, <1>2, WriterTypes DEF DepthPlace, AtDepth
<1>11. PICK t : t = Append(s, x) /\ t = out'
  BY <1>5, <1>7, <1>10
<1>12. PICK v : v = [emitting EXCEPT ![Len(emitting)] = act]
  OBVIOUS
<1>13. PICK kid \in ActivationSet : /\ kid = Activation(id) /\ kid.id = id /\ kid.i = 0 /\ kid.depth = 0
                                    /\ kid.pending_call = FALSE
  BY <1>6, ActivationFacts
<1>14. PICK u : u = Append(v, kid) /\ u = emitting'
  BY <1>5, <1>12, <1>13
<1>15. Grows(s, x, t)
  BY <1>7, <1>10, <1>11 DEF Grows
<1>16. \A k : InternalsOpen(t, k, Len(t)) = InternalsOpen(s, k, Len(s))
  <2>1. \A k : Change(x, k) = 0
    BY <1>7 DEF Change
  <2> QED BY <1>15, <2>1, GrowsFacts
<1>17. HeldBy(Current) /\ InternalsOpen(s, Current.id, Len(s)) = Current.depth
  BY <1>4, <1>10 DEF Held
<1>18. FollowsAt(t, Len(t))
  <2>1. PICK c \in 1..Len(frames), at \in Nat : c = Current.id /\ at = Current.i
    BY <1>4
  <2>2. PICK steps \in Seq(Op) : steps = frames[c].steps
    BY <1>1, <2>1, VmFacts DEF NotedFrame
  <2>3. id \in KidsBefore(c, at)
    BY <1>1, <1>4, <1>5, <2>1 DEF PlaceInv, KidsLeft
  <2>4. frames[id].parent = c
    BY <2>3 DEF KidsBefore, kid_at, kid_end, children
  <2>5. PICK b \in Nat : b = frames[id].parent_step /\ b <= Len(steps) /\ DepthOf(x) = DepthsOf(steps)[b]
    <3>1. history[p + 1].kind = "call" /\ id = history[p + 1].frame
      BY <1>3, <1>6
    <3>2. /\ DepthOf(Plain(history[p + 1])) = DepthsOf(frames[c].steps)[frames[id].parent_step]
          /\ frames[id].parent_step \in 0..Len(frames[c].steps)
      BY <1>1, <1>8, <2>1, <2>4, <3>1, DepthOfCall DEF DepthPlace
    <3> QED BY <1>9, <2>2, <3>2
  <2>6. Current.depth + (IF Current.pending_call THEN 1 ELSE 0) = DepthsOf(steps)[at]
    BY <1>5, <1>17, <2>1, <2>2 DEF HeldBy
  <2>7. at <= Len(steps) /\ Len(steps) \in Nat
    BY <1>1, <1>4, <2>1, <2>2 DEF PlaceInv, StepsShown
  <2>8. InternalsOpen(t, c, Len(t)) = Current.depth
    BY <1>16, <1>17, <2>1
  <2>9. CASE at < Len(steps)
    <3>1. ~Current.pending_call
      BY <2>1, <2>2, <2>9 DEF SpliceKid, MaySplice, StepsLeft
    <3>2. b = at
      BY <2>2, <2>3, <2>5, <2>9 DEF KidsBefore, kid_at
    <3>3. InternalsOpen(t, c, Len(t)) = DepthOf(x)
      BY <1>4, <2>5, <2>6, <2>8, <3>1, <3>2
    <3> QED BY <1>7, <1>15, <2>4, <3>3, GrowsFacts DEF FollowsAt
  <2>10. CASE ~(at < Len(steps))
    <3>1. at = Len(steps)
      BY <2>7, <2>10
    <3>2. ~InRange(c, id)
      BY <2>2, <2>3, <2>10 DEF KidsBefore, kid_end
    <3>3. b = at
      BY <2>2, <2>5, <2>7, <3>1, <3>2, NoStepAssumption DEF InRange
    <3>4. CASE Current.pending_call
      <4>1. at > 0 /\ steps[at] = "call"
        BY <1>17, <2>1, <2>2, <3>4 DEF HeldBy
      <4>2. StoppedAfterCall(c)
        BY <2>2, <3>1, <4>1 DEF StoppedAfterCall
      <4> QED BY <1>7, <1>15, <2>4, <3>2, <4>2, GrowsFacts DEF FollowsAt
    <3>5. CASE ~Current.pending_call
      <4>1. InternalsOpen(t, c, Len(t)) = DepthOf(x)
        BY <1>4, <2>5, <2>6, <2>8, <3>3, <3>5
      <4> QED BY <1>7, <1>15, <2>4, <4>1, GrowsFacts DEF FollowsAt
    <3> QED BY <3>4, <3>5
  <2> QED BY <2>9, <2>10
<1>19. AllFollow(t) /\ InternalsAreCalled(t, p + 1)
  <2>1. p <= p + 1 /\ p \in Nat /\ p + 1 \in Nat /\ x.kind \notin {"fn", "fnret"}
    BY <1>2, <1>7
  <2> QED BY <1>10, <1>15, <1>18, <2>1, StreamGrows
<1>20. HeldBy(act)
  <2>1. act.kids # {} => Current.kids # {}
    BY <1>5
  <2>2. act.id = Current.id /\ act.i = Current.i /\ act.depth = Current.depth /\ act.pending_call = Current.pending_call
    BY <1>5
  <2> QED BY <1>17, <2>1, <2>2 DEF HeldBy
<1>21. Held(v, t)
  <2>1. InternalsOpen(t, act.id, Len(t)) = act.depth
    BY <1>5, <1>16, <1>17
  <2>2. \A k : k # act.id => InternalsOpen(t, k, Len(t)) = InternalsOpen(out, k, Len(out))
    BY <1>10, <1>16
  <2>3. Held(emitting, out) /\ act \in ActivationSet /\ act.id = Current.id
    BY <1>5, <1>10
  <2> QED BY <1>1, <1>12, <1>20, <2>1, <2>2, <2>3, HeldWithCurrent
<1>22. HeldBy(kid) /\ InternalsOpen(t, kid.id, Len(t)) = kid.depth
  <2>1. ~Did("call", id, p)
    BY <1>1, <1>2, <1>3, <1>6, FreshFrame
  <2>2. InternalsOpen(s, id, Len(s)) = 0
    BY <1>10, <2>1, FreshInternals
  <2>3. frames[id].steps \in Seq(Op)
    BY <1>1, <1>6, VmFacts DEF NotedFrame
  <2>4. DepthsOf(frames[id].steps)[0] = 0
    BY <2>3, DepthsFacts
  <2>5. HeldBy(kid)
    BY <1>13, <2>4 DEF HeldBy
  <2> QED BY <1>13, <1>16, <2>2, <2>5
<1>23. Held(u, t)
  <2>1. emitting \in Seq(ActivationSet) /\ emitting # <<>>
    BY <1>1, WriterTypes DEF Emitting
  <2>2. v \in Seq(ActivationSet)
    BY <1>5, <1>12, <2>1, WithLastFacts
  <2>3. PICK m \in Nat : m = Len(v)
    BY <2>2
  <2>4. Len(u) = m + 1 /\ u[m + 1] = kid /\ \A i \in 1..m : u[i] = v[i]
    <3>1. u = Append(v, kid) /\ kid \in ActivationSet
      BY <1>13, <1>14
    <3> QED BY <2>2, <2>3, <3>1, AppendFacts
  <2>5. \A i \in 1..m + 1 : i \in 1..m \/ i = m + 1
    OBVIOUS
  <2> QED BY <1>21, <1>22, <2>3, <2>4, <2>5 DEF Held
<1> QED BY <1>1, <1>2, <1>11, <1>14, <1>19, <1>23, DepthNow DEF AtDepth

LEMMA EmitStepKeepsDepth ==
  ASSUME DepthPlace, UNCHANGED observerVars, finished, EmitStep,
         Len(FrameEvents') = Len(FrameEvents) + 1
  PROVE  AtDepth(emitting, out, Len(FrameEvents))'
<1>1. /\ UNCHANGED <<history, frames>> /\ Emitting /\ PlaceInv /\ WriterTypeOK /\ IInv /\ OrderInv
      /\ Current.kids = {} /\ StepsLeft /\ ~Current.pending_call
  BY DEF observerVars, EmitStep, DepthPlace, PlaceInv, TypeInv
<1>2. PICK p \in Nat : p = Len(FrameEvents) /\ p < Len(history)
  BY <1>1, PlaceFacts, MoreWhileEmitting
<1>3. PICK e : e = history[p + 1]
  OBVIOUS
<1>4. PICK n : /\ n = Len(emitting) /\ n \in 1..Len(emitting) /\ Current = emitting[n]
  BY <1>1, CurrentFacts
<1>5. PICK c \in 1..Len(frames), at \in Nat : c = Current.id /\ at = Current.i
  BY <1>1, CurrentFacts
<1>6. PICK steps \in Seq(Op) : steps = frames[c].steps
  BY <1>1, VmFacts DEF NotedFrame
<1>7. PICK depth \in Nat : depth = Current.depth
  BY <1>1, CurrentFacts
<1>8. PICK D : D = DepthsOf(steps)
  OBVIOUS
<1>9. PICK op : op = steps[at + 1] /\ op = StepOp
  BY <1>5, <1>6 DEF StepOp
<1>10. at < Len(steps) /\ at + 1 \in 1..Len(steps) /\ (at + 1) - 1 = at
  BY <1>1, <1>5, <1>6 DEF StepsLeft
<1>11. e.kind = "step" /\ e.frame = c /\ e.index = at
  BY <1>1, <1>2, <1>3, <1>5, NextOfCurrent
<1>12. p + 1 \in 1..Len(history)
  BY <1>1, <1>2, PlaceFacts
<1>13. PICK x \in OutEvent : x = Shown(c, at) /\ x.kind = "step" /\ x.frame = c
  BY <1>5, OutEvents DEF Shown
<1>14. PICK y \in OutEvent : y = InternalReturn(c) /\ y.kind = "fnret" /\ y.frame = c
  BY OutEvents DEF InternalReturn
<1>15. x = Plain(history[p + 1])
  BY <1>3, <1>11, <1>13 DEF Shown, Plain
<1>16. PICK s \in Seq(OutEvent) : s = out /\ AllFollow(s) /\ InternalsAreCalled(s, p) /\ Held(emitting, s)
  BY <1>1, <1>2, WriterTypes DEF DepthPlace, AtDepth
<1>17. PICK r : r = Append(s, x)
  OBVIOUS
<1>18. Grows(s, x, r)
  BY <1>13, <1>16, <1>17 DEF Grows
<1>19. HeldBy(Current) /\ InternalsOpen(s, c, Len(s)) = depth
  BY <1>4, <1>5, <1>7, <1>16 DEF Held
<1>20. depth = D[at]
  <2>1. depth + 0 = D[at]
    BY <1>1, <1>5, <1>6, <1>7, <1>8, <1>10, <1>19 DEF HeldBy
  <2> QED BY <1>7, <2>1
<1>21. \A k : InternalsOpen(r, k, Len(r)) = InternalsOpen(s, k, Len(s))
  <2>1. \A k : Change(x, k) = 0
    BY <1>13 DEF Change
  <2> QED BY <1>18, <2>1, GrowsFacts
<1>22. FollowsAt(r, Len(r))
  <2>1. DepthOf(x) = D[at]
    <3>1. history[p + 1].kind = "step" /\ c = history[p + 1].frame /\ at = history[p + 1].index
      BY <1>3, <1>11
    <3>2. DepthOf(Plain(history[p + 1])) = DepthsOf(frames[c].steps)[at]
      BY <1>1, <1>12, <3>1, DepthOfStep DEF DepthPlace
    <3> QED BY <1>6, <1>8, <1>15, <3>2
  <2>2. InternalsOpen(r, c, Len(r)) = DepthOf(x)
    BY <1>19, <1>20, <1>21, <2>1
  <2> QED BY <1>13, <1>18, <2>2, GrowsFacts DEF FollowsAt
<1>23. AllFollow(r) /\ InternalsAreCalled(r, p + 1)
  <2>1. p <= p + 1 /\ p \in Nat /\ p + 1 \in Nat /\ x.kind \notin {"fn", "fnret"}
    BY <1>2, <1>13
  <2> QED BY <1>16, <1>18, <1>22, <2>1, StreamGrows
<1>24. PICK act \in ActivationSet :
           /\ act.id = c /\ act.i = at + 1
           /\ act.depth = IF ClosesInternal(op) THEN depth - 1 ELSE depth
           /\ act.pending_call = (op = "call")
           /\ emitting' = [emitting EXCEPT ![Len(emitting)] = act]
           /\ out' = IF ClosesInternal(op) THEN Append(r, y) ELSE r
  BY <1>1, <1>5, <1>7, <1>9, <1>13, <1>14, <1>16, <1>17, EmitStepFacts
<1>25. PICK t : t = out'
  OBVIOUS
<1>26. PICK u : u = [emitting EXCEPT ![Len(emitting)] = act] /\ u = emitting'
  BY <1>24
<1>27. ClosesInternal(op) <=> op = "ret" /\ depth > 0
  BY <1>7 DEF ClosesInternal
<1>28. HeldBy(act)
  <2>1. D[at + 1] = DepthAfter(op, depth)
    BY <1>6, <1>8, <1>9, <1>10, <1>20, DepthsFacts
  <2>4. act.pending_call <=> op = "call"
    BY <1>24
  <2>5. act.depth = IF op = "ret" /\ depth > 0 THEN depth - 1 ELSE depth
    BY <1>24, <1>27
  <2>2. act.depth + (IF act.pending_call THEN 1 ELSE 0) = D[at + 1]
    <3>1. CASE op = "call"
      BY <1>7, <2>1, <2>4, <2>5, <3>1 DEF DepthAfter
    <3>2. CASE op # "call"
      BY <1>7, <2>1, <2>4, <2>5, <3>2 DEF DepthAfter
    <3> QED BY <3>1, <3>2
  <2>3. act.pending_call => at + 1 > 0 /\ steps[at + 1] = "call"
    <3>1. at + 1 > 0
      BY <1>5
    <3> QED BY <1>9, <2>4, <3>1
  <2> QED BY <1>6, <1>8, <1>24, <2>2, <2>3 DEF HeldBy
<1>29. /\ AllFollow(t) /\ InternalsAreCalled(t, p + 1) /\ InternalsOpen(t, c, Len(t)) = act.depth
       /\ \A k : k # c => InternalsOpen(t, k, Len(t)) = InternalsOpen(s, k, Len(s))
  <2>1. CASE ClosesInternal(op)
    <3>1. Grows(r, y, t)
      <4>1. r \in Seq(OutEvent)
        BY <1>18, GrowsFacts
      <4> QED BY <1>14, <1>24, <1>25, <2>1, <4>1 DEF Grows
    <3>2. FollowsAt(t, Len(t))
      BY <1>14, <3>1, GrowsFacts DEF FollowsAt
    <3>3. Did("call", c, p + 1)
      <4>1. IsOpen(c, p)
        BY <1>1, <1>2, <1>4, <1>5 DEF PlaceInv, EmittingIsOpen
      <4>2. \A b \in 1..p : b \in 1..p + 1
        BY <1>2
      <4> QED BY <4>1, <4>2 DEF IsOpen, Did
    <3>4. AllFollow(t) /\ InternalsAreCalled(t, p + 1)
      <4>1. p + 1 \in Nat /\ p + 1 <= p + 1 /\ (y.kind \in {"fn", "fnret"} => Did("call", y.frame, p + 1))
        BY <1>2, <1>14, <3>3
      <4> QED BY <1>23, <3>1, <3>2, <4>1, StreamGrows
    <3>5. \A k : Change(y, k) = IF k = c THEN 0 - 1 ELSE 0
      BY <1>14 DEF Change
    <3>6. \A k : /\ InternalsOpen(t, k, Len(t)) = InternalsOpen(r, k, Len(r)) + Change(y, k)
                 /\ InternalsOpen(r, k, Len(r)) \in Int
      BY <3>1, GrowsFacts
    <3>7. act.depth = depth - 1
      BY <1>24, <2>1
    <3>8. InternalsOpen(t, c, Len(t)) = act.depth
      BY <1>7, <1>19, <1>21, <3>5, <3>6, <3>7
    <3>9. \A k : k # c => InternalsOpen(t, k, Len(t)) = InternalsOpen(s, k, Len(s))
      BY <1>21, <3>5, <3>6
    <3> QED BY <3>4, <3>8, <3>9
  <2>2. CASE ~ClosesInternal(op)
    <3>1. t = r /\ act.depth = depth
      BY <1>24, <1>25, <2>2
    <3> QED BY <1>19, <1>21, <1>23, <3>1
  <2> QED BY <2>1, <2>2
<1>30. Held(u, t)
  <2>1. /\ act \in ActivationSet /\ act.id = Current.id
        /\ InternalsOpen(t, act.id, Len(t)) = act.depth
        /\ \A k : k # act.id => InternalsOpen(t, k, Len(t)) = InternalsOpen(out, k, Len(out))
    BY <1>5, <1>16, <1>24, <1>29
  <2>2. Held(emitting, out) /\ PlaceInv /\ Emitting /\ u = [emitting EXCEPT ![Len(emitting)] = act]
    BY <1>1, <1>16, <1>26
  <2> QED BY <1>28, <2>1, <2>2, HeldWithCurrent
<1>31. /\ UNCHANGED <<frames, history>> /\ u = emitting' /\ t = out' /\ p + 1 = Len(FrameEvents')
       /\ AtDepth(u, t, p + 1)
  BY <1>1, <1>2, <1>25, <1>26, <1>29, <1>30 DEF AtDepth
<1> QED BY <1>31, DepthNow

LEMMA CloseKeepsDepth ==
  ASSUME DepthPlace, UNCHANGED <<history, frames, emitting, out>>
  PROVE  AtDepth(emitting, out, Len(FrameEvents))'
<1>1. FrameEvents' = FrameEvents
  BY DEF FrameEvents
<1>2. PICK p : p = Len(FrameEvents) /\ p = Len(FrameEvents')
  BY <1>1
<1>3. PICK em : em = emitting /\ em = emitting'
  OBVIOUS
<1>4. PICK s : s = out /\ s = out'
  OBVIOUS
<1>5. AtDepth(em, s, p)
  BY <1>2, <1>3, <1>4 DEF DepthPlace
<1> QED BY <1>2, <1>3, <1>4, <1>5, DepthNow

(* These actions show one event of a frame. *)
LEMMA ShowsAnEvent ==
  ASSUME TypeInv, EmitTop \/ SpliceKid \/ EmitStep \/ ReturnFrame
  PROVE  Len(FrameEvents') = Len(FrameEvents) + 1
<1>1. WriterTypeOK /\ out \in Seq(OutEvent)
  BY WriterTypes DEF TypeInv
<1>2. ASSUME NEW e \in OutEvent, OfFrame(e), NEW s, s = Append(out, e)
      PROVE  s \in Seq(OutEvent) /\ Len(EventsOfFrames(s)) = Len(FrameEvents) + 1
  <2>1. EventsOfFrames(s) = Append(EventsOfFrames(out), e) /\ EventsOfFrames(out) \in Seq(OutEvent)
    BY <1>1, <1>2, EventsGrow
  <2>2. s \in Seq(OutEvent)
    BY <1>1, <1>2, AppendFacts
  <2> QED BY <2>1, <2>2, AppendFacts DEF FrameEvents
<1>3. ASSUME NEW e \in OutEvent, OfFrame(e), out' = Append(out, e)
      PROVE  Len(FrameEvents') = Len(FrameEvents) + 1
  BY <1>2, <1>3 DEF FrameEvents
<1>4. CASE EmitTop
  BY <1>1, <1>3, <1>4, TopsFacts, OutEvents DEF EmitTop
<1>5. CASE SpliceKid
  <2>1. PICK id \in Current.kids : out' = Append(out, Entered(id))
    BY <1>1, <1>5, SpliceKidFacts
  <2>2. id \in 1..Len(frames)
    BY <1>1, <1>5, <2>1, CurrentFacts DEF SpliceKid
  <2> QED BY <1>3, <2>1, <2>2, OutEvents
<1>6. CASE EmitStep
  <2>1. PICK c \in 1..Len(frames), at \in Nat : c = Current.id /\ at = Current.i
    BY <1>1, <1>6, CurrentFacts DEF EmitStep
  <2>2. PICK e \in OutEvent : e = Shown(c, at) /\ OfFrame(e)
    BY <2>1, OutEvents
  <2>3. PICK y \in OutEvent : y = InternalReturn(c) /\ ~OfFrame(y)
    BY <2>1, OutEvents
  <2>4. PICK s : s = Append(out, e)
    OBVIOUS
  <2>5. s \in Seq(OutEvent) /\ Len(EventsOfFrames(s)) = Len(FrameEvents) + 1
    BY <1>2, <2>2, <2>4
  <2>6. out' = s \/ out' = Append(s, y)
    BY <1>1, <1>6, <2>1, <2>2, <2>3, <2>4, EmitStepFacts
  <2>7. EventsOfFrames(Append(s, y)) = EventsOfFrames(s)
    BY <2>3, <2>5, EventsGrow
  <2> QED BY <2>5, <2>6, <2>7 DEF FrameEvents
<1>7. CASE ReturnFrame
  BY <1>1, <1>3, <1>7, CurrentFacts, OutEvents DEF ReturnFrame
<1> QED BY <1>4, <1>5, <1>6, <1>7

LEMMA WriterKeepsDepth ==
  ASSUME DepthPlace, WriterNext
  PROVE  AtDepth(emitting, out, Len(FrameEvents))'
<1>1. TypeInv /\ UNCHANGED observerVars /\ finished
  BY WriterKeepsTypes, WritingIsLate DEF DepthPlace, PlaceInv, TypeInv
<1>2. CASE EmitTop
  BY <1>1, <1>2, ShowsAnEvent, EmitTopKeepsDepth
<1>3. CASE OpenInternal
  BY <1>1, <1>3, OpenInternalKeepsDepth
<1>4. CASE SpliceKid
  BY <1>1, <1>4, ShowsAnEvent, SpliceKidKeepsDepth
<1>5. CASE EmitStep
  BY <1>1, <1>5, ShowsAnEvent, EmitStepKeepsDepth
<1>6. CASE CloseInternal
  BY <1>1, <1>6, CloseInternalKeepsDepth
<1>7. CASE ReturnFrame
  BY <1>1, <1>7, ShowsAnEvent, ReturnFrameKeepsDepth
<1>8. CASE Close
  BY <1>1, <1>8, CloseKeepsDepth DEF Close, observerVars
<1> QED BY <1>2, <1>3, <1>4, <1>5, <1>6, <1>7, <1>8 DEF WriterNext

LEMMA UnwrittenDepth == emitting = <<>> /\ out = <<>> => AtDepth(emitting, out, Len(FrameEvents))
<1> SUFFICES ASSUME emitting = <<>>, out = <<>> PROVE AtDepth(emitting, out, Len(FrameEvents))
  OBVIOUS
<1>1. 1..Len(emitting) = {} /\ 1..Len(out) = {}
  OBVIOUS
<1> QED BY <1>1 DEF AtDepth, Held, AllFollow, InternalsAreCalled

LEMMA UnwrittenDepthNext ==
  emitting' = <<>> /\ out' = <<>> => AtDepth(emitting, out, Len(FrameEvents))'
<1>1. (emitting = <<>> /\ out = <<>> => AtDepth(emitting, out, Len(FrameEvents)))'
  BY UnwrittenDepth, PTL
<1> QED BY <1>1

LEMMA InitDepth == Init => DepthPlace
BY InitPlace, InitDepths, UnwrittenDepth DEF Init, DepthPlace

LEMMA NextDepth == DepthPlace /\ [Next]_vars => DepthPlace'
<1> SUFFICES ASSUME DepthPlace, [Next]_vars PROVE DepthPlace'
  OBVIOUS
<1>1. PlaceInv'
  BY NextPlace DEF DepthPlace
<1>2. [ObserverNext]_observerVars
  BY WriterKeepsTypes DEF Next, vars, observerVars, DepthPlace, PlaceInv, TypeInv
<1>3. DepthInv'
  BY <1>2, NextDepths DEF DepthPlace, PlaceInv, TypeInv
<1>4. CASE ObserverNext /\ UNCHANGED writerVars
  <2>1. emitting' = <<>> /\ out' = <<>>
    BY <1>4, ObserverStops DEF DepthPlace, PlaceInv, TypeInv, Unwritten, writerVars
  <2> QED BY <1>1, <1>3, <2>1, UnwrittenDepthNext DEF DepthPlace
<1>5. CASE WriterNext
  BY <1>1, <1>3, <1>5, WriterKeepsDepth DEF DepthPlace
<1>6. CASE UNCHANGED vars
  BY <1>1, <1>3, <1>6, CloseKeepsDepth DEF DepthPlace, vars
<1> QED BY <1>4, <1>5, <1>6 DEF Next

(***************************************************************************)
(* The internal calls the writer deduces from call and ret instructions    *)
(* are the VM's: every step, and every nested frame's call but that of a   *)
(* syscall which stopped its parent right after a call instruction, is     *)
(* written at the function depth the VM was at.                            *)
(***************************************************************************)
THEOREM DepthIsTheVms == Spec => []DepthFollowsVm
BY InitDepth, NextDepth, FollowsVm, PTL DEF Spec

-----------------------------------------------------------------------------
(***************************************************************************)
(* The calls a stream of events leaves open.                               *)
(***************************************************************************)
OpenCall == [close : {"return", "fnret", "nothing"}, frame : Nat]

LEMMA CallsAfterCases ==
  ASSUME NEW open \in Seq(OpenCall), NEW e, e.frame \in Nat
  PROVE  /\ CallsAfter(open, e) \in Seq(OpenCall)
         /\ e.kind = "call" => CallsAfter(open, e) = Append(open, [close |-> "return", frame |-> e.frame])
         /\ e.kind = "fn" => CallsAfter(open, e) = Append(open, [close |-> "fnret", frame |-> e.frame])
         /\ e.kind = "step" => CallsAfter(open, e) = open
         /\ /\ e.kind \in {"return", "fnret"}
            /\ open # <<>>
            /\ open[Len(open)] = [close |-> e.kind, frame |-> e.frame]
            => CallsAfter(open, e) = Outer(open)
<1>1. PICK a \in OpenCall : a = [close |-> "return", frame |-> e.frame]
  BY DEF OpenCall
<1>2. PICK b \in OpenCall : b = [close |-> "fnret", frame |-> e.frame]
  BY DEF OpenCall
<1>3. PICK c \in OpenCall : c = Unbalanced
  BY DEF OpenCall, Unbalanced
<1>4. e.kind = "call" => CallsAfter(open, e) = Append(open, a)
  BY <1>1 DEF CallsAfter
<1>5. e.kind = "fn" => CallsAfter(open, e) = Append(open, b)
  BY <1>2 DEF CallsAfter
<1>6. e.kind = "step" => CallsAfter(open, e) = open
  BY DEF CallsAfter
<1>7. e.kind \in {"return", "fnret"} =>
        CallsAfter(open, e) =
          IF open # <<>> /\ open[Len(open)] = [close |-> e.kind, frame |-> e.frame]
          THEN Outer(open) ELSE Append(open, c)
  BY <1>3 DEF CallsAfter
<1>8. e.kind \notin {"call", "fn", "return", "fnret"} => CallsAfter(open, e) = open
  BY DEF CallsAfter
<1>9. /\ Append(open, a) \in Seq(OpenCall) /\ Append(open, b) \in Seq(OpenCall)
      /\ Append(open, c) \in Seq(OpenCall)
  BY AppendFacts
<1>10. open # <<>> => Outer(open) \in Seq(OpenCall)
  BY OuterFacts
<1>11. CallsAfter(open, e) \in Seq(OpenCall)
  BY <1>4, <1>5, <1>7, <1>8, <1>9, <1>10
<1> QED BY <1>1, <1>2, <1>4, <1>5, <1>6, <1>7, <1>11

IsCallsUpTo(f, s, n) ==
  /\ f[0] = <<>>
  /\ \A i \in 1..n : f[i] = CallsAfter(f[i - 1], s[i])

LEMMA CallsUpToAgree ==
  ASSUME NEW N \in Nat, NEW f, NEW g, NEW s, NEW t, IsCallsUpTo(f, s, N), IsCallsUpTo(g, t, N),
         \A i \in 1..N : s[i] = t[i]
  PROVE  f[N] = g[N]
<1> DEFINE Good == {n \in 0..N : f[n] = g[n]}
<1>1. 0 \in Good
  BY DEF IsCallsUpTo
<1>2. ASSUME NEW i \in 1..N, i - 1 \in Good PROVE i \in Good
  <2>1. f[i - 1] = g[i - 1]
    BY <1>2
  <2> QED BY <2>1 DEF IsCallsUpTo
<1>3. \A n \in 0..N : n \in Good
  <2> HIDE DEF Good
  <2> QED BY <1>1, <1>2, Induction
<1> QED BY <1>3

LEMMA CallsFold ==
  ASSUME NEW S, NEW s \in Seq(S), \A e \in S : e.frame \in Nat
  PROVE  \E f \in [0..Len(s) -> Seq(OpenCall)] :
           IsCallsUpTo(f, s, Len(s)) /\ OpenCallsAfter(s) = f[Len(s)]
<1>1. PICK N \in Nat : N = Len(s)
  OBVIOUS
<1>2. PICK Calls : Calls = Seq(OpenCall)
  OBVIOUS
<1>3. PICK step : step = [p \in (1..N) \X Calls |-> CallsAfter(p[2], s[p[1]])]
  OBVIOUS
<1>4. step \in [(1..N) \X Calls -> Calls]
  <2>1. ASSUME NEW p \in (1..N) \X Calls PROVE CallsAfter(p[2], s[p[1]]) \in Calls
    <3>1. PICK i \in 1..N : i = p[1]
      OBVIOUS
    <3>2. PICK open \in Calls : open = p[2]
      OBVIOUS
    <3>3. s[i].frame \in Nat
      BY <1>1
    <3>4. CallsAfter(open, s[i]) \in Calls
      BY <1>2, <3>2, <3>3, CallsAfterCases
    <3> QED BY <3>1, <3>2, <3>4
  <2> QED BY <1>3, <2>1
<1>5. <<>> \in Calls
  BY <1>2
<1>6. PICK f \in [0..N -> Calls] : IsFold(f, <<>>, step, N)
  BY <1>4, <1>5, FoldExists
<1>7. ASSUME NEW i \in 1..N PROVE f[i] = CallsAfter(f[i - 1], s[i])
  <2>1. PICK open \in Calls : open = f[i - 1]
    OBVIOUS
  <2>2. <<i, open>> \in (1..N) \X Calls
    BY <2>1
  <2>3. step[<<i, open>>] = CallsAfter(open, s[i])
    BY <1>3, <2>2
  <2> QED BY <1>6, <2>1, <2>3 DEF IsFold
<1>8. IsCallsUpTo(f, s, N)
  BY <1>6, <1>7 DEF IsCallsUpTo, IsFold
<1> DEFINE rhs(g) == [n \in 0..Len(s) |-> IF n = 0 THEN <<>> ELSE CallsAfter(g[n - 1], s[n])]
<1>9. f = rhs(f)
  <2>1. ASSUME NEW n \in 0..N
        PROVE  f[n] = IF n = 0 THEN <<>> ELSE CallsAfter(f[n - 1], s[n])
    <3>1. CASE n = 0
      BY <1>6, <3>1 DEF IsFold
    <3>2. CASE n # 0
      <4>1. n \in 1..N
        BY <3>2
      <4> QED BY <1>7, <3>2, <4>1
    <3> QED BY <3>1, <3>2
  <2> QED BY <1>1, <1>6, <2>1
<1>10. OpenCallsAfter(s) = (CHOOSE g : g = rhs(g))[Len(s)]
  BY DEF OpenCallsAfter
<1>11. PICK g : g = rhs(g) /\ OpenCallsAfter(s) = g[N]
  <2> HIDE DEF rhs
  <2>1. (CHOOSE g : g = rhs(g)) = rhs(CHOOSE g : g = rhs(g))
    BY <1>9
  <2> QED BY <1>1, <1>10, <2>1
<1>12. IsCallsUpTo(g, s, N)
  <2>1. \A n \in 0..N : g[n] = IF n = 0 THEN <<>> ELSE CallsAfter(g[n - 1], s[n])
    BY <1>1, <1>11
  <2>2. g[0] = <<>>
    <3>1. 0 \in 0..N
      OBVIOUS
    <3> HIDE DEF rhs
    <3> QED BY <2>1, <3>1
  <2>3. ASSUME NEW n \in 1..N
        PROVE  g[n] = CallsAfter(g[n - 1], s[n])
    <3>1. n \in 0..N /\ n # 0
      OBVIOUS
    <3> QED BY <2>1, <3>1
  <2> QED BY <2>2, <2>3 DEF IsCallsUpTo
<1>13. f[N] = g[N]
  BY <1>8, <1>12, CallsUpToAgree
<1> QED BY <1>1, <1>2, <1>6, <1>8, <1>11, <1>13

LEMMA CallsGrow ==
  ASSUME NEW S, NEW s \in Seq(S), NEW e \in S, \A x \in S : x.frame \in Nat
  PROVE  /\ OpenCallsAfter(s) \in Seq(OpenCall)
         /\ OpenCallsAfter(Append(s, e)) = CallsAfter(OpenCallsAfter(s), e)
<1>1. PICK N \in Nat : N = Len(s)
  OBVIOUS
<1>2. PICK f \in [0..N -> Seq(OpenCall)] : IsCallsUpTo(f, s, N) /\ OpenCallsAfter(s) = f[N]
  BY <1>1, CallsFold
<1>3. PICK t \in Seq(S) : t = Append(s, e)
  BY AppendFacts
<1>4. Len(t) = N + 1 /\ t[N + 1] = e /\ \A i \in 1..N : s[i] = t[i]
  BY <1>1, <1>3, AppendFacts
<1>5. PICK g \in [0..N + 1 -> Seq(OpenCall)] : IsCallsUpTo(g, t, N + 1) /\ OpenCallsAfter(t) = g[N + 1]
  BY <1>4, CallsFold
<1>6. IsCallsUpTo(g, t, N)
  BY <1>5 DEF IsCallsUpTo
<1>7. f[N] = g[N]
  BY <1>2, <1>4, <1>6, CallsUpToAgree
<1>8. g[N + 1] = CallsAfter(g[N], e)
  <2>1. N + 1 \in 1..N + 1 /\ (N + 1) - 1 = N
    OBVIOUS
  <2>2. g[N + 1] = CallsAfter(g[(N + 1) - 1], t[N + 1])
    BY <1>5, <2>1 DEF IsCallsUpTo
  <2> QED BY <1>4, <2>1, <2>2
<1> QED BY <1>2, <1>3, <1>5, <1>7, <1>8

LEMMA NoCalls == OpenCallsAfter(<<>>) = <<>>
<1>1. PICK S : S = {}
  OBVIOUS
<1>5. <<>> \in Seq(S) /\ Len(<<>>) = 0
  OBVIOUS
<1>2. PICK s \in Seq(S) : s = <<>> /\ Len(s) = 0
  BY <1>5
<1>3. \A e \in S : e.frame \in Nat
  BY <1>1
<1>4. PICK f : IsCallsUpTo(f, s, Len(s)) /\ OpenCallsAfter(s) = f[Len(s)]
  BY <1>2, <1>3, CallsFold
<1> QED BY <1>2, <1>4 DEF IsCallsUpTo

(***************************************************************************)
(* What is open: of every activation its call, then as many internal calls *)
(* as it has open, outermost activation first.                             *)
(***************************************************************************)
ToReturn(id) == [close |-> "return", frame |-> id]
ToFnret(id) == [close |-> "fnret", frame |-> id]

(* The open calls after the a-th and up to the b-th are the activation's. *)
IsOf(act, open, a, b) ==
  /\ b = a + 1 + act.depth
  /\ open[a + 1] = ToReturn(act.id)
  /\ \A j \in a + 2..b : open[j] = ToFnret(act.id)

(* The first b open calls are those of the first n activations. *)
AreStacked(at, em, open, n, b) ==
  /\ at[0] = 0
  /\ at[n] = b
  /\ \A l, m \in 0..n : l <= m => at[l] <= at[m]
  /\ \A m \in 1..n : IsOf(em[m], open, at[m - 1], at[m])

StackedTo(em, open, n, b) == \E at \in [0..n -> Nat] : AreStacked(at, em, open, n, b)

Stacked(em, open) == StackedTo(em, open, Len(em), Len(open))

Closable(open) == \A j \in 1..Len(open) : open[j] # Unbalanced

LEMMA NothingStacked == \A em, open : StackedTo(em, open, 0, 0)
<1> SUFFICES ASSUME NEW em, NEW open PROVE StackedTo(em, open, 0, 0)
  OBVIOUS
<1>1. PICK at : at = [m \in 0..0 |-> 0]
  OBVIOUS
<1>2. at \in [0..0 -> Nat] /\ at[0] = 0 /\ \A m \in 0..0 : at[m] = 0
  BY <1>1
<1> QED BY <1>2 DEF StackedTo, AreStacked

LEMMA StackOne ==
  ASSUME NEW em, NEW open, NEW n \in Nat, NEW a \in Nat, NEW b \in Nat, a <= b,
         StackedTo(em, open, n, a), IsOf(em[n + 1], open, a, b)
  PROVE  StackedTo(em, open, n + 1, b)
<1>1. PICK at \in [0..n -> Nat] : AreStacked(at, em, open, n, a)
  BY DEF StackedTo
<1>2. PICK bt : bt = [m \in 0..n + 1 |-> IF m = n + 1 THEN b ELSE at[m]]
  OBVIOUS
<1>3. bt \in [0..n + 1 -> Nat] /\ bt[n + 1] = b /\ \A m \in 0..n : bt[m] = at[m]
  BY <1>2
<1>4. \A m \in 0..n + 1 : m \in 0..n \/ m = n + 1
  OBVIOUS
<1>5. \A m \in 1..n + 1 : (m \in 1..n /\ m \in 0..n /\ m - 1 \in 0..n) \/ (m = n + 1 /\ m - 1 = n)
  OBVIOUS
<1>6. bt[0] = 0 /\ bt[n] = a
  BY <1>1, <1>3 DEF AreStacked
<1>7. ASSUME NEW l \in 0..n + 1, NEW m \in 0..n + 1, l <= m PROVE bt[l] <= bt[m]
  <2>1. CASE m \in 0..n
    <3>1. l \in 0..n
      BY <1>7, <2>1
    <3> QED BY <1>1, <1>3, <1>7, <2>1, <3>1 DEF AreStacked
  <2>2. CASE m = n + 1 /\ l \in 0..n
    <3>1. at[l] <= at[n] /\ at[n] = a /\ at[l] \in Nat
      BY <1>1, <2>2 DEF AreStacked
    <3> QED BY <1>3, <2>2, <3>1
  <2>3. CASE m = n + 1 /\ l = n + 1
    BY <1>3, <2>3
  <2> QED BY <1>4, <2>1, <2>2, <2>3
<1>8. ASSUME NEW m \in 1..n + 1 PROVE IsOf(em[m], open, bt[m - 1], bt[m])
  <2>1. CASE m \in 1..n /\ m \in 0..n /\ m - 1 \in 0..n
    BY <1>1, <1>3, <2>1 DEF AreStacked
  <2>2. CASE m = n + 1 /\ m - 1 = n
    BY <1>3, <1>6, <2>2
  <2> QED BY <1>5, <2>1, <2>2
<1> QED BY <1>3, <1>6, <1>7, <1>8 DEF StackedTo, AreStacked

LEMMA UnstackOne ==
  ASSUME NEW em, NEW open, NEW n \in Nat, NEW b \in Nat, StackedTo(em, open, n + 1, b)
  PROVE  \E a \in Nat : a <= b /\ StackedTo(em, open, n, a) /\ IsOf(em[n + 1], open, a, b)
<1>1. PICK bt \in [0..n + 1 -> Nat] : AreStacked(bt, em, open, n + 1, b)
  BY DEF StackedTo
<1>2. PICK at : at = [m \in 0..n |-> bt[m]]
  OBVIOUS
<1>3. at \in [0..n -> Nat] /\ \A m \in 0..n : bt[m] = at[m]
  BY <1>2
<1>4. PICK a \in Nat : a = at[n]
  BY <1>3
<1>5. n \in 0..n + 1 /\ n + 1 \in 1..n + 1 /\ (n + 1) - 1 = n /\ n \in 0..n
  OBVIOUS
<1>6. a <= b /\ IsOf(em[n + 1], open, a, b)
  <2>1. bt[n] = a /\ bt[n + 1] = b
    BY <1>1, <1>3, <1>4, <1>5 DEF AreStacked
  <2>2. bt[n] <= b /\ IsOf(em[n + 1], open, bt[(n + 1) - 1], bt[n + 1])
    BY <1>1, <1>5 DEF AreStacked
  <2> QED BY <1>5, <2>1, <2>2
<1>7. \A l, m \in 0..n : l <= m => at[l] <= at[m]
  <2>1. \A m \in 0..n : m \in 0..n + 1
    OBVIOUS
  <2> QED BY <1>1, <1>3, <2>1 DEF AreStacked
<1>8. ASSUME NEW m \in 1..n PROVE IsOf(em[m], open, at[m - 1], at[m])
  <2>1. m \in 1..n + 1 /\ m \in 0..n /\ m - 1 \in 0..n
    OBVIOUS
  <2> QED BY <1>1, <1>3, <2>1 DEF AreStacked
<1>9. at[0] = 0
  BY <1>1, <1>3 DEF AreStacked
<1>10. StackedTo(em, open, n, a)
  BY <1>3, <1>4, <1>7, <1>8, <1>9 DEF StackedTo, AreStacked
<1> QED BY <1>4, <1>6, <1>10

(* It matters only which frames are emitted and at what depth. *)
LEMMA SameStack ==
  ASSUME NEW em, NEW open, NEW u, NEW other, NEW n \in Nat, NEW b \in Nat, StackedTo(em, open, n, b),
         \A m \in 1..n : em[m].depth \in Nat,
         \A m \in 1..n : u[m].id = em[m].id /\ u[m].depth = em[m].depth,
         \A j \in 1..b : other[j] = open[j]
  PROVE  StackedTo(u, other, n, b)
<1>1. PICK at \in [0..n -> Nat] : AreStacked(at, em, open, n, b)
  BY DEF StackedTo
<1>2. ASSUME NEW m \in 1..n PROVE IsOf(u[m], other, at[m - 1], at[m])
  <2>1. m \in 0..n /\ m - 1 \in 0..n /\ n \in 0..n
    OBVIOUS
  <2>2. PICK x \in Nat, y \in Nat : x = at[m - 1] /\ y = at[m]
    BY <1>1, <2>1
  <2>3. PICK d \in Nat : d = em[m].depth /\ d = u[m].depth
    OBVIOUS
  <2>4. PICK id : id = em[m].id /\ id = u[m].id
    OBVIOUS
  <2>5. /\ y = x + 1 + d /\ open[x + 1] = ToReturn(id)
        /\ \A j \in x + 2..y : open[j] = ToFnret(id)
    BY <1>1, <2>2, <2>3, <2>4 DEF AreStacked, IsOf
  <2>6. y <= b
    <3>1. m <= n
      OBVIOUS
    <3>2. at[m] <= at[n] /\ at[n] = b
      BY <1>1, <2>1, <3>1 DEF AreStacked
    <3> QED BY <2>2, <3>2
  <2>7. x + 1 \in 1..b /\ \A j \in x + 2..y : j \in 1..b
    <3>1. y = x + 1 + d /\ x \in Nat /\ y \in Nat /\ d \in Nat
      BY <2>2, <2>3, <2>5
    <3>2. x + 1 \in 1..b
      BY <2>6, <3>1
    <3>3. ASSUME NEW j \in x + 2..y PROVE j \in 1..b
      BY <2>6, <3>1
    <3> QED BY <3>2, <3>3
  <2>8. other[x + 1] = ToReturn(id) /\ \A j \in x + 2..y : other[j] = ToFnret(id)
    BY <2>5, <2>7
  <2> QED BY <2>2, <2>3, <2>4, <2>5, <2>8 DEF IsOf
<1> QED BY <1>1, <1>2 DEF StackedTo, AreStacked

LEMMA Restack ==
  ASSUME NEW em, NEW open, NEW u, NEW other, NEW n \in Nat, NEW a \in Nat, NEW b \in Nat, a <= b,
         StackedTo(em, open, n, a),
         \A m \in 1..n : em[m].depth \in Nat,
         \A m \in 1..n : u[m].id = em[m].id /\ u[m].depth = em[m].depth,
         \A j \in 1..a : other[j] = open[j],
         IsOf(u[n + 1], other, a, b)
  PROVE  StackedTo(u, other, n + 1, b)
<1>1. StackedTo(u, other, n, a)
  BY SameStack
<1> QED BY <1>1, StackOne

(* The open calls are those of the activations, each with its returns due. *)
Balanced(em, open) ==
  /\ open \in Seq(OpenCall)
  /\ Closable(open)
  /\ Stacked(em, open)

LEMMA OpensMore ==
  ASSUME NEW open \in Seq(OpenCall), Closable(open), NEW call \in OpenCall, call # Unbalanced
  PROVE  /\ Append(open, call) \in Seq(OpenCall) /\ Closable(Append(open, call))
         /\ Len(open) \in Nat /\ Len(Append(open, call)) = Len(open) + 1
         /\ Append(open, call)[Len(open) + 1] = call
         /\ \A j \in 1..Len(open) : Append(open, call)[j] = open[j]
<1>1. PICK more, L : more = Append(open, call) /\ L = Len(open)
  OBVIOUS
<1>2. /\ more \in Seq(OpenCall) /\ L \in Nat /\ Len(more) = L + 1 /\ more[L + 1] = call
      /\ \A j \in 1..L : more[j] = open[j]
  BY <1>1, AppendFacts
<1>3. \A j \in 1..L + 1 : j \in 1..L \/ j = L + 1
  BY <1>2
<1>4. Closable(more)
  BY <1>1, <1>2, <1>3 DEF Closable
<1> QED BY <1>1, <1>2, <1>4

LEMMA LeavesLess ==
  ASSUME NEW open \in Seq(OpenCall), Closable(open), open # <<>>
  PROVE  /\ Outer(open) \in Seq(OpenCall) /\ Closable(Outer(open))
         /\ Len(open) \in Nat \ {0} /\ Len(Outer(open)) = Len(open) - 1
         /\ \A j \in 1..Len(open) - 1 : Outer(open)[j] = open[j]
<1>1. PICK fewer, L : fewer = Outer(open) /\ L = Len(open)
  OBVIOUS
<1>2. /\ fewer \in Seq(OpenCall) /\ L \in Nat \ {0} /\ Len(fewer) = L - 1
      /\ \A j \in 1..L - 1 : fewer[j] = open[j]
  BY <1>1, OuterFacts
<1>3. \A j \in 1..L - 1 : j \in 1..L
  BY <1>2
<1>4. Closable(fewer)
  BY <1>1, <1>2, <1>3 DEF Closable
<1> QED BY <1>1, <1>2, <1>4

LEMMA CallsToClose ==
  ASSUME NEW id \in Nat
  PROVE  /\ ToReturn(id) \in OpenCall /\ ToReturn(id) # Unbalanced
         /\ ToFnret(id) \in OpenCall /\ ToFnret(id) # Unbalanced
BY DEF ToReturn, ToFnret, OpenCall, Unbalanced

(***************************************************************************)
(* Activations and the fields of theirs the open calls depend on.          *)
(***************************************************************************)
Alike(em, u, n) == \A m \in 1..n : u[m].id = em[m].id /\ u[m].depth = em[m].depth

Acts(em, n) == n \in Nat /\ Len(em) = n /\ \A m \in 1..n : em[m].id \in Nat /\ em[m].depth \in Nat

LEMMA SameActs ==
  ASSUME NEW em, NEW open, NEW u, NEW n, Acts(em, n), Acts(u, n), Balanced(em, open),
         Alike(em, u, n)
  PROVE  Balanced(u, open)
<1>1. StackedTo(em, open, n, Len(open)) /\ n \in Nat /\ Len(open) \in Nat
  BY DEF Balanced, Stacked, Acts
<1>2. \A m \in 1..n : em[m].depth \in Nat
  BY DEF Acts
<1>3. \A j \in 1..Len(open) : open[j] = open[j]
  OBVIOUS
<1>4. StackedTo(u, open, n, Len(open))
  BY <1>1, <1>2, <1>3, SameStack DEF Alike
<1> QED BY <1>4 DEF Balanced, Stacked, Acts

LEMMA BeginsFrame ==
  ASSUME NEW em, NEW open, NEW u, NEW n, NEW k, Acts(em, n), Balanced(em, open),
         Acts(u, k), k = n + 1, Alike(em, u, n), u[k].depth = 0
  PROVE  Balanced(u, Append(open, ToReturn(u[k].id)))
<1>0. PICK more : more = Append(open, ToReturn(u[k].id))
  OBVIOUS
<1>1. n \in Nat /\ n + 1 \in 1..n + 1 /\ Len(u) = n + 1 /\ Len(em) = n
  BY DEF Acts
<1>2. PICK id \in Nat : id = u[n + 1].id
  BY <1>1 DEF Acts
<1>3. PICK L : L = Len(open)
  OBVIOUS
<1>4. open \in Seq(OpenCall) /\ Closable(open) /\ StackedTo(em, open, n, L)
  BY <1>1, <1>3 DEF Balanced, Stacked
<1>5. /\ more \in Seq(OpenCall) /\ Closable(more) /\ L \in Nat
      /\ Len(more) = L + 1 /\ more[L + 1] = ToReturn(id) /\ \A j \in 1..L : more[j] = open[j]
  <2>1. PICK call \in OpenCall : call = ToReturn(id) /\ call # Unbalanced
    BY CallsToClose
  <2>2. more = Append(open, call)
    BY <1>0, <1>2, <2>1
  <2> QED BY <1>3, <1>4, <2>1, <2>2, OpensMore
<1>6. IsOf(u[n + 1], more, L, L + 1)
  <2>1. L + 1 = L + 1 + 0 /\ L + 2..L + 1 = {}
    BY <1>5
  <2> QED BY <1>2, <1>5, <2>1 DEF IsOf
<1>7. L <= L + 1 /\ L + 1 \in Nat
  BY <1>5
<1>8. \A m \in 1..n : em[m].depth \in Nat
  BY DEF Acts
<1>9. \A m \in 1..n : u[m].id = em[m].id /\ u[m].depth = em[m].depth
  BY DEF Alike
<1>10. StackedTo(u, more, n + 1, L + 1)
  BY <1>1, <1>4, <1>5, <1>6, <1>7, <1>8, <1>9, Restack
<1> QED BY <1>0, <1>1, <1>5, <1>10 DEF Balanced, Stacked

(* The innermost activation's open calls are the last ones. *)
LEMMA LastCalls ==
  ASSUME NEW em, NEW open, NEW n, Acts(em, n), n # 0, Balanced(em, open)
  PROVE  \E m \in Nat, a \in Nat, L \in Nat \ {0} :
           /\ n = m + 1 /\ L = Len(open) /\ a < L
           /\ StackedTo(em, open, m, a) /\ IsOf(em[n], open, a, L)
<1>1. PICK m \in Nat : n = m + 1
  <2>1. n \in Nat
    BY DEF Acts
  <2>2. n - 1 \in Nat /\ n = (n - 1) + 1
    BY <2>1
  <2> QED BY <2>2
<1>2. PICK L \in Nat : L = Len(open)
  BY DEF Balanced
<1>3. StackedTo(em, open, m + 1, L)
  BY <1>1, <1>2 DEF Balanced, Stacked, Acts
<1>4. PICK a \in Nat : a <= L /\ StackedTo(em, open, m, a) /\ IsOf(em[m + 1], open, a, L)
  BY <1>2, <1>3, UnstackOne
<1>5. L \in Nat \ {0} /\ a < L
  <2>1. n \in 1..n /\ em[n].depth \in Nat
    BY <1>1 DEF Acts
  <2>2. PICK d \in Nat : d = em[n].depth
    BY <2>1
  <2>3. L = a + 1 + d
    BY <1>1, <1>4, <2>2 DEF IsOf
  <2> QED BY <1>2, <1>4, <2>2, <2>3
<1> QED BY <1>1, <1>2, <1>4, <1>5

LEMMA OpensInternal ==
  ASSUME NEW em, NEW open, NEW u, NEW n, Acts(em, n), Acts(u, n), n # 0,
         Balanced(em, open),
         Alike(em, u, n - 1),
         u[n].id = em[n].id, u[n].depth = em[n].depth + 1
  PROVE  Balanced(u, Append(open, ToFnret(em[n].id)))
<1>0. PICK more : more = Append(open, ToFnret(em[n].id))
  OBVIOUS
<1>1. PICK m \in Nat, a \in Nat, L \in Nat \ {0} :
        /\ n = m + 1 /\ L = Len(open) /\ a < L
        /\ StackedTo(em, open, m, a) /\ IsOf(em[n], open, a, L)
  BY LastCalls
<1>2. PICK id \in Nat, d \in Nat : id = em[n].id /\ d = em[n].depth
  BY <1>1 DEF Acts
<1>3. u[n].id = id /\ u[n].depth = d + 1
  BY <1>2
<1>4. /\ more \in Seq(OpenCall) /\ Closable(more)
      /\ Len(more) = L + 1 /\ more[L + 1] = ToFnret(id) /\ \A j \in 1..L : more[j] = open[j]
  <2>1. PICK call \in OpenCall : call = ToFnret(id) /\ call # Unbalanced
    BY CallsToClose
  <2>2. more = Append(open, call) /\ L = Len(open)
    BY <1>0, <1>1, <1>2, <2>1
  <2>3. open \in Seq(OpenCall) /\ Closable(open)
    BY DEF Balanced
  <2> QED BY <2>1, <2>2, <2>3, OpensMore
<1>5. IsOf(u[n], more, a, L + 1)
  <2>1. L = a + 1 + d /\ open[a + 1] = ToReturn(id) /\ \A j \in a + 2..L : open[j] = ToFnret(id)
    BY <1>1, <1>2 DEF IsOf
  <2>2. L + 1 = a + 1 + (d + 1)
    BY <1>1, <1>2, <2>1
  <2>3. more[a + 1] = ToReturn(id)
    <3>1. a + 1 \in 1..L
      BY <1>1
    <3> QED BY <1>4, <2>1, <3>1
  <2>4. ASSUME NEW j \in a + 2..L + 1 PROVE more[j] = ToFnret(id)
    <3>1. CASE j = L + 1
      BY <1>4, <3>1
    <3>2. CASE j # L + 1
      <4>1. j <= L
        BY <1>1, <3>2
      <4>2. j \in a + 2..L /\ j \in 1..L
        BY <1>1, <4>1
      <4> QED BY <1>4, <2>1, <4>2
    <3> QED BY <3>1, <3>2
  <2> QED BY <1>3, <2>2, <2>3, <2>4 DEF IsOf
<1>6. \A k \in 1..m : u[k].id = em[k].id /\ u[k].depth = em[k].depth
  BY <1>1 DEF Alike
<1>7. \A k \in 1..m : em[k].depth \in Nat
  BY <1>1 DEF Acts
<1>8. a <= L + 1 /\ L + 1 \in Nat /\ \A j \in 1..a : more[j] = open[j]
  BY <1>1, <1>4
<1>9. StackedTo(u, more, m + 1, L + 1)
  BY <1>1, <1>5, <1>6, <1>7, <1>8, Restack
<1> QED BY <1>0, <1>1, <1>4, <1>9 DEF Balanced, Stacked, Acts

(* The internal call that is open innermost is the last open one. *)
LEMMA LeavesInternal ==
  ASSUME NEW em, NEW open, NEW u, NEW n, Acts(em, n), Acts(u, n), n # 0,
         Balanced(em, open),
         Alike(em, u, n - 1),
         u[n].id = em[n].id, em[n].depth > 0, u[n].depth = em[n].depth - 1
  PROVE  open # <<>> /\ open[Len(open)] = ToFnret(em[n].id) /\ Balanced(u, Outer(open))
<1>0. PICK fewer : fewer = Outer(open)
  OBVIOUS
<1>1. PICK m \in Nat, a \in Nat, L \in Nat \ {0} :
        /\ n = m + 1 /\ L = Len(open) /\ a < L
        /\ StackedTo(em, open, m, a) /\ IsOf(em[n], open, a, L)
  BY LastCalls
<1>2. PICK id \in Nat, d \in Nat : id = em[n].id /\ d = em[n].depth /\ d > 0
  BY <1>1 DEF Acts
<1>3. u[n].id = id /\ u[n].depth = d - 1
  BY <1>2
<1>4. open # <<>>
  BY <1>1
<1>5. /\ fewer \in Seq(OpenCall) /\ Closable(fewer)
      /\ Len(fewer) = L - 1 /\ \A j \in 1..L - 1 : fewer[j] = open[j]
  <2>1. open \in Seq(OpenCall) /\ Closable(open) /\ L = Len(open)
    BY <1>1 DEF Balanced
  <2> QED BY <1>0, <1>4, <2>1, LeavesLess
<1>6. L = a + 1 + d /\ open[a + 1] = ToReturn(id) /\ \A j \in a + 2..L : open[j] = ToFnret(id)
  BY <1>1, <1>2 DEF IsOf
<1>7. a + 1 \in 1..L - 1 /\ L \in a + 2..L /\ a <= L - 1 /\ L - 1 \in Nat
  BY <1>1, <1>2, <1>6
<1>8. IsOf(u[n], fewer, a, L - 1)
  <2>1. L - 1 = a + 1 + (d - 1)
    BY <1>1, <1>2, <1>6
  <2>2. fewer[a + 1] = ToReturn(id)
    BY <1>5, <1>6, <1>7
  <2>3. ASSUME NEW j \in a + 2..L - 1 PROVE fewer[j] = ToFnret(id)
    <3>1. j \in a + 2..L /\ j \in 1..L - 1
      BY <1>1
    <3> QED BY <1>5, <1>6, <3>1
  <2> QED BY <1>3, <2>1, <2>2, <2>3 DEF IsOf
<1>9. \A k \in 1..m : u[k].id = em[k].id /\ u[k].depth = em[k].depth
  BY <1>1 DEF Alike
<1>10. \A k \in 1..m : em[k].depth \in Nat
  BY <1>1 DEF Acts
<1>11. \A j \in 1..a : fewer[j] = open[j]
  BY <1>1, <1>5, <1>7
<1>12. StackedTo(u, fewer, m + 1, L - 1)
  BY <1>1, <1>7, <1>8, <1>9, <1>10, <1>11, Restack
<1> QED BY <1>0, <1>1, <1>2, <1>4, <1>5, <1>6, <1>7, <1>12 DEF Balanced, Stacked, Acts

(* A frame with no internal call open leaves by closing its own call. *)
LEMMA LeavesFrame ==
  ASSUME NEW em, NEW open, NEW u, NEW n, Acts(em, n), n # 0, Balanced(em, open),
         Len(u) = n - 1, \A m \in 1..n - 1 : u[m] = em[m],
         em[n].depth = 0
  PROVE  open # <<>> /\ open[Len(open)] = ToReturn(em[n].id) /\ Balanced(u, Outer(open))
<1>0. PICK fewer : fewer = Outer(open)
  OBVIOUS
<1>1. PICK m \in Nat, a \in Nat, L \in Nat \ {0} :
        /\ n = m + 1 /\ L = Len(open) /\ a < L
        /\ StackedTo(em, open, m, a) /\ IsOf(em[n], open, a, L)
  BY LastCalls
<1>2. open # <<>>
  BY <1>1
<1>3. L = a + 1 /\ open[a + 1] = ToReturn(em[n].id)
  BY <1>1 DEF IsOf
<1>4. /\ fewer \in Seq(OpenCall) /\ Closable(fewer)
      /\ Len(fewer) = a /\ \A j \in 1..a : fewer[j] = open[j]
  <2>1. /\ fewer \in Seq(OpenCall) /\ Closable(fewer)
        /\ Len(fewer) = L - 1 /\ \A j \in 1..L - 1 : fewer[j] = open[j]
    <3>1. open \in Seq(OpenCall) /\ Closable(open) /\ L = Len(open)
      BY <1>1 DEF Balanced
    <3> QED BY <1>0, <1>2, <3>1, LeavesLess
  <2>2. L - 1 = a
    BY <1>1, <1>3
  <2> QED BY <2>1, <2>2
<1>5. \A k \in 1..m : u[k].id = em[k].id /\ u[k].depth = em[k].depth
  BY <1>1
<1>6. \A k \in 1..m : em[k].depth \in Nat
  BY <1>1 DEF Acts
<1>7. StackedTo(u, fewer, m, a)
  BY <1>1, <1>4, <1>5, <1>6, SameStack
<1>8. Len(u) = m
  BY <1>1
<1> QED BY <1>0, <1>1, <1>2, <1>3, <1>4, <1>7, <1>8 DEF Balanced, Stacked

-----------------------------------------------------------------------------
BalancedNow == Balanced(emitting, OpenCalls)

LEMMA ActsFacts ==
  ASSUME Len(frames) \in Nat, NEW em \in Seq(ActivationSet), NEW n, n = Len(em)
  PROVE  Acts(em, n)
<1>1. \A act \in ActivationSet : act.id \in Nat /\ act.depth \in Nat
  BY DEF ActivationSet
<1>2. n \in Nat /\ \A m \in 1..n : em[m] \in ActivationSet
  OBVIOUS
<1> QED BY <1>1, <1>2 DEF Acts

LEMMA WriterActs ==
  ASSUME TypeInv
  PROVE  /\ Len(frames) \in Nat /\ emitting \in Seq(ActivationSet)
         /\ Acts(emitting, Len(emitting))
<1>1. WriterTypeOK /\ IInv
  BY DEF TypeInv
<1>2. Len(frames) \in Nat /\ emitting \in Seq(ActivationSet)
  BY <1>1, VmFacts, WriterTypes
<1> QED BY <1>2, ActsFacts

LEMMA CallsNext ==
  ASSUME TypeInv, NEW s \in Seq(OutEvent), NEW x \in OutEvent
  PROVE  /\ OpenCallsAfter(s) \in Seq(OpenCall) /\ x.frame \in Nat
         /\ OpenCallsAfter(Append(s, x)) = CallsAfter(OpenCallsAfter(s), x)
<1>1. \A e \in OutEvent : e.frame \in Nat
  BY WriterActs DEF OutEvent
<1> QED BY <1>1, CallsGrow

(* A frame is entered: its call is the innermost open one. *)
LEMMA EntersFrame ==
  ASSUME TypeInv, BalancedNow, NEW id \in 1..Len(frames), NEW v \in Seq(ActivationSet),
         Len(v) = Len(emitting),
         \A m \in 1..Len(v) : v[m].id = emitting[m].id /\ v[m].depth = emitting[m].depth,
         emitting' = Append(v, Activation(id)), out' = Append(out, Entered(id))
  PROVE  BalancedNow'
<1>1. PICK kid \in ActivationSet : kid = Activation(id) /\ kid.id = id /\ kid.depth = 0
  BY ActivationFacts
<1>2. PICK x \in OutEvent : x = Entered(id) /\ x.kind = "call" /\ x.frame = id
  BY OutEvents DEF Entered
<1>3. PICK n : n = Len(emitting) /\ Acts(emitting, n) /\ n \in Nat
  BY WriterActs DEF Acts
<1>4. PICK open : open = OpenCalls /\ Balanced(emitting, open)
  BY DEF BalancedNow
<1>5. PICK u : u = emitting' /\ u = Append(v, kid)
  BY <1>1
<1>6. /\ u \in Seq(ActivationSet) /\ Len(u) = n + 1 /\ u[n + 1] = kid
      /\ \A m \in 1..n : u[m] = v[m]
  BY <1>3, <1>5, AppendFacts
<1>7. Acts(u, n + 1)
  BY <1>6, ActsFacts, WriterActs
<1>8. PICK more : more = OpenCalls' /\ more = Append(open, ToReturn(id))
  <2>1. out \in Seq(OutEvent) /\ out' = Append(out, x)
    BY <1>2, WriterTypes DEF TypeInv
  <2>2. open \in Seq(OpenCall) /\ OpenCallsAfter(out') = CallsAfter(open, x) /\ x.frame \in Nat
    BY <1>4, <2>1, CallsNext DEF OpenCalls
  <2>3. CallsAfter(open, x) = Append(open, ToReturn(id))
    <3>1. CallsAfter(open, x) = Append(open, [close |-> "return", frame |-> x.frame])
      BY <1>2, <2>2, CallsAfterCases
    <3> QED BY <1>2, <3>1 DEF ToReturn
  <2> QED BY <2>2, <2>3 DEF OpenCalls
<1>9. PICK k : k = n + 1
  OBVIOUS
<1>10. Acts(u, k) /\ u[k].depth = 0 /\ more = Append(open, ToReturn(u[k].id))
  BY <1>1, <1>6, <1>7, <1>8, <1>9
<1>11. Alike(emitting, u, n)
  BY <1>3, <1>6 DEF Alike
<1>12. Balanced(u, more)
  BY <1>3, <1>4, <1>9, <1>10, <1>11, BeginsFrame
<1> QED BY <1>5, <1>8, <1>12 DEF BalancedNow

LEMMA EmitTopKeepsBalance ==
  ASSUME TypeInv, BalancedNow, EmitTop
  PROVE  BalancedNow'
<1>1. PICK id \in 1..Len(frames) : id = First(TopsLeft)
  BY TopsFacts DEF TypeInv, EmitTop
<1>2. emitting = <<>> /\ emitting' = <<Activation(id)>> /\ out' = Append(out, Entered(id))
  BY <1>1 DEF EmitTop, Emitting
<1>3. PICK kid \in ActivationSet : kid = Activation(id)
  BY ActivationFacts
<1>4. <<kid>> = Append(<<>>, kid)
  OBVIOUS
<1>5. emitting' = Append(emitting, Activation(id))
  BY <1>2, <1>3, <1>4
<1>6. emitting \in Seq(ActivationSet)
  BY WriterActs
<1> QED BY <1>2, <1>5, <1>6, EntersFrame

LEMMA SpliceKidKeepsBalance ==
  ASSUME TypeInv, BalancedNow, SpliceKid
  PROVE  BalancedNow'
<1>1. WriterTypeOK /\ Emitting
  BY DEF TypeInv, SpliceKid
<1>2. PICK id \in Current.kids, act \in ActivationSet :
        /\ act.id = Current.id /\ act.depth = Current.depth
        /\ emitting' = Append([emitting EXCEPT ![Len(emitting)] = act], Activation(id))
        /\ out' = Append(out, Entered(id))
  BY <1>1, SpliceKidFacts
<1>3. id \in 1..Len(frames)
  BY <1>1, <1>2, CurrentFacts
<1>4. PICK v \in Seq(ActivationSet) : v = [emitting EXCEPT ![Len(emitting)] = act]
  BY <1>1, WithLastFacts, WriterTypes DEF Emitting
<1>5. PICK n : n = Len(emitting)
  OBVIOUS
<1>6. /\ n \in Nat \ {0} /\ Current = emitting[n]
      /\ Len(v) = n /\ \A m \in 1..n : v[m] = IF m = n THEN act ELSE emitting[m]
  BY <1>1, <1>4, <1>5, WithCurrentFacts
<1>7. \A m \in 1..n : v[m].id = emitting[m].id /\ v[m].depth = emitting[m].depth
  BY <1>2, <1>6
<1> QED BY <1>2, <1>3, <1>4, <1>5, <1>6, <1>7, EntersFrame

(* An action that replaces the activation it works on. *)
Replaced(em, u, act) ==
  /\ act \in ActivationSet
  /\ act.id = Current.id
  /\ u = [em EXCEPT ![Len(em)] = act]

LEMMA ReplacesLast ==
  ASSUME TypeInv, Emitting, NEW act, NEW u, Replaced(emitting, u, act)
  PROVE  \E n : /\ n = Len(emitting) /\ n # 0 /\ Acts(emitting, n) /\ Acts(u, n)
                /\ Alike(emitting, u, n - 1) /\ emitting[n] = Current
                /\ u[n].id = emitting[n].id /\ u[n].depth = act.depth
                /\ (act.depth = Current.depth => Alike(emitting, u, n))
<1>1. PICK n : n = Len(emitting) /\ Acts(emitting, n)
  BY WriterActs
<1>2. /\ WriterTypeOK /\ act \in ActivationSet /\ act.id = Current.id
      /\ u = [emitting EXCEPT ![Len(emitting)] = act]
  BY DEF TypeInv, Replaced
<1>3. /\ n \in Nat \ {0} /\ Current = emitting[n]
      /\ Len(u) = n /\ \A m \in 1..n : u[m] = IF m = n THEN act ELSE emitting[m]
  <2>1. emitting \in Seq(ActivationSet) /\ emitting # <<>>
    BY <1>2, WriterTypes DEF Emitting
  <2>2. PICK t : t = [emitting EXCEPT ![Len(emitting)] = act]
    OBVIOUS
  <2>3. /\ Len(t) = Len(emitting)
        /\ \A m \in 1..Len(emitting) : t[m] = IF m = Len(emitting) THEN act ELSE emitting[m]
    BY <1>2, <2>1, <2>2, WithLastFacts
  <2>4. n \in Nat \ {0} /\ Current = emitting[n]
    BY <1>1, <1>2, CurrentFacts
  <2>5. t = u /\ n = Len(emitting)
    BY <1>1, <1>2, <2>2
  <2> QED BY <2>3, <2>4, <2>5
<1>4. u \in Seq(ActivationSet)
  BY <1>2, WithLastFacts, WriterTypes DEF Emitting
<1>5. Acts(u, n)
  BY <1>3, <1>4, ActsFacts, WriterActs
<1>6. \A m \in 1..n - 1 : m \in 1..n /\ m # n
  BY <1>3
<1>7. Alike(emitting, u, n - 1)
  BY <1>3, <1>6 DEF Alike
<1>8. n \in 1..n /\ u[n] = act
  BY <1>3
<1>9. act.depth = Current.depth => Alike(emitting, u, n)
  BY <1>2, <1>3 DEF Alike
<1> QED BY <1>1, <1>2, <1>3, <1>5, <1>7, <1>8, <1>9

LEMMA OpenInternalKeepsBalance ==
  ASSUME TypeInv, BalancedNow, OpenInternal
  PROVE  BalancedNow'
<1>1. WriterTypeOK /\ Emitting
  BY DEF TypeInv, OpenInternal
<1>2. PICK act \in ActivationSet :
        /\ act.id = Current.id /\ act.depth = Current.depth + 1
        /\ emitting' = [emitting EXCEPT ![Len(emitting)] = act]
  BY <1>1, OpenInternalFacts
<1>3. PICK u : u = emitting' /\ Replaced(emitting, u, act)
  BY <1>2 DEF Replaced
<1>4. PICK n : /\ n = Len(emitting) /\ n # 0 /\ Acts(emitting, n) /\ Acts(u, n)
               /\ Alike(emitting, u, n - 1) /\ emitting[n] = Current
               /\ u[n].id = emitting[n].id /\ u[n].depth = act.depth
  BY <1>1, <1>2, <1>3, ReplacesLast
<1>5. PICK open : open = OpenCalls /\ Balanced(emitting, open)
  BY DEF BalancedNow
<1>6. PICK id : id = Current.id /\ id \in 1..Len(frames)
  BY <1>1, CurrentFacts
<1>7. PICK x \in OutEvent : x = InternalCall(id) /\ x.kind = "fn" /\ x.frame = id
  BY <1>6, OutEvents DEF InternalCall
<1>8. OpenCalls' = Append(open, ToFnret(id))
  <2>1. out \in Seq(OutEvent) /\ out' = Append(out, x)
    BY <1>1, <1>6, <1>7, WriterTypes DEF OpenInternal
  <2>2. open \in Seq(OpenCall) /\ OpenCallsAfter(out') = CallsAfter(open, x) /\ x.frame \in Nat
    BY <1>5, <2>1, CallsNext DEF OpenCalls
  <2>3. CallsAfter(open, x) = Append(open, [close |-> "fnret", frame |-> x.frame])
    BY <1>7, <2>2, CallsAfterCases
  <2> QED BY <1>7, <2>2, <2>3 DEF OpenCalls, ToFnret
<1>9. u[n].depth = emitting[n].depth + 1
  BY <1>2, <1>4
<1>10. Balanced(u, Append(open, ToFnret(emitting[n].id)))
  BY <1>4, <1>5, <1>9, OpensInternal
<1> QED BY <1>3, <1>4, <1>6, <1>8, <1>10 DEF BalancedNow

(* The return of the innermost internal call closes it. *)
LEMMA ReturnsInternal ==
  ASSUME TypeInv, Emitting, NEW s \in Seq(OutEvent), Balanced(emitting, OpenCallsAfter(s)),
         Current.depth > 0, NEW act, NEW u, Replaced(emitting, u, act),
         act.depth = Current.depth - 1
  PROVE  Balanced(u, OpenCallsAfter(Append(s, InternalReturn(Current.id))))
<1>1. PICK n : /\ n = Len(emitting) /\ n # 0 /\ Acts(emitting, n) /\ Acts(u, n)
               /\ Alike(emitting, u, n - 1) /\ emitting[n] = Current
               /\ u[n].id = emitting[n].id /\ u[n].depth = act.depth
  BY ReplacesLast
<1>2. PICK open : open = OpenCallsAfter(s) /\ Balanced(emitting, open)
  OBVIOUS
<1>3. PICK id : id = Current.id /\ id \in 1..Len(frames)
  BY CurrentFacts DEF TypeInv
<1>4. PICK x \in OutEvent : x = InternalReturn(id) /\ x.kind = "fnret" /\ x.frame = id
  BY <1>3, OutEvents DEF InternalReturn
<1>5. PICK em : em = emitting
  OBVIOUS
<1>6. open # <<>> /\ open[Len(open)] = ToFnret(em[n].id) /\ Balanced(u, Outer(open))
  <2>1. Acts(em, n) /\ Acts(u, n) /\ n # 0 /\ Balanced(em, open) /\ Alike(em, u, n - 1)
    BY <1>1, <1>2, <1>5
  <2>2. u[n].id = em[n].id /\ em[n].depth > 0 /\ u[n].depth = em[n].depth - 1
    BY <1>1, <1>5
  <2> QED BY <2>1, <2>2, LeavesInternal
<1>7. OpenCallsAfter(Append(s, x)) = Outer(open)
  <2>1. open \in Seq(OpenCall) /\ OpenCallsAfter(Append(s, x)) = CallsAfter(open, x) /\ x.frame \in Nat
    BY <1>2, CallsNext
  <2>2. open[Len(open)] = [close |-> x.kind, frame |-> x.frame]
    BY <1>1, <1>3, <1>4, <1>5, <1>6 DEF ToFnret
  <2>3. CallsAfter(open, x) = Outer(open)
    BY <1>4, <1>6, <2>1, <2>2, CallsAfterCases
  <2> QED BY <2>1, <2>3
<1> QED BY <1>3, <1>4, <1>6, <1>7

LEMMA CloseInternalKeepsBalance ==
  ASSUME TypeInv, BalancedNow, CloseInternal
  PROVE  BalancedNow'
<1>1. WriterTypeOK /\ Emitting /\ Current.depth > 0
  BY DEF TypeInv, CloseInternal
<1>2. PICK act \in ActivationSet :
        /\ act.id = Current.id /\ act.depth = Current.depth - 1
        /\ emitting' = [emitting EXCEPT ![Len(emitting)] = act]
  BY <1>1, CloseInternalFacts
<1>3. PICK u : u = emitting' /\ Replaced(emitting, u, act)
  BY <1>2 DEF Replaced
<1>4. PICK s \in Seq(OutEvent) : s = out /\ out' = Append(s, InternalReturn(Current.id))
  BY <1>1, WriterTypes DEF CloseInternal
<1>5. Balanced(emitting, OpenCallsAfter(s))
  BY <1>4 DEF BalancedNow, OpenCalls
<1>6. Balanced(u, OpenCallsAfter(Append(s, InternalReturn(Current.id))))
  BY <1>1, <1>2, <1>3, <1>5, ReturnsInternal
<1> QED BY <1>3, <1>4, <1>6 DEF BalancedNow, OpenCalls

LEMMA EmitStepKeepsBalance ==
  ASSUME TypeInv, BalancedNow, EmitStep
  PROVE  BalancedNow'
<1>1. WriterTypeOK /\ Emitting
  BY DEF TypeInv, EmitStep
<1>2. PICK act \in ActivationSet :
        /\ act.id = Current.id
        /\ act.depth = IF ClosesInternal(StepOp) THEN Current.depth - 1 ELSE Current.depth
        /\ emitting' = [emitting EXCEPT ![Len(emitting)] = act]
        /\ out' = IF ClosesInternal(StepOp)
                  THEN Append(Append(out, Shown(Current.id, Current.i)), InternalReturn(Current.id))
                  ELSE Append(out, Shown(Current.id, Current.i))
  BY <1>1, EmitStepFacts
<1>3. PICK u : u = emitting' /\ Replaced(emitting, u, act)
  BY <1>2 DEF Replaced
<1>4. PICK x \in OutEvent : x = Shown(Current.id, Current.i) /\ x.kind = "step"
  BY <1>1, CurrentFacts, OutEvents DEF Shown
<1>5. PICK s \in Seq(OutEvent) : s = Append(out, x)
  BY <1>1, AppendFacts, WriterTypes
<1>6. OpenCallsAfter(s) = OpenCalls
  <2>1. PICK open : open = OpenCalls
    OBVIOUS
  <2>2. open \in Seq(OpenCall) /\ OpenCallsAfter(s) = CallsAfter(open, x) /\ x.frame \in Nat
    BY <1>1, <1>5, <2>1, CallsNext, WriterTypes DEF OpenCalls
  <2> QED BY <1>4, <2>1, <2>2, CallsAfterCases
<1>7. Balanced(emitting, OpenCallsAfter(s))
  BY <1>6 DEF BalancedNow
<1>8. CASE ClosesInternal(StepOp)
  <2>1. Current.depth > 0 /\ act.depth = Current.depth - 1
    BY <1>2, <1>8 DEF ClosesInternal
  <2>2. Balanced(u, OpenCallsAfter(Append(s, InternalReturn(Current.id))))
    BY <1>1, <1>2, <1>3, <1>7, <2>1, ReturnsInternal
  <2>3. out' = Append(s, InternalReturn(Current.id))
    BY <1>2, <1>4, <1>5, <1>8
  <2> QED BY <1>3, <2>2, <2>3 DEF BalancedNow, OpenCalls
<1>9. CASE ~ClosesInternal(StepOp)
  <2>1. act.depth = Current.depth /\ out' = s
    BY <1>2, <1>4, <1>5, <1>9
  <2>2. PICK n : Acts(emitting, n) /\ Acts(u, n) /\ Alike(emitting, u, n)
    BY <1>1, <1>2, <1>3, <2>1, ReplacesLast
  <2>3. PICK open : open = OpenCallsAfter(s)
    OBVIOUS
  <2>4. Balanced(u, open)
    BY <1>7, <2>2, <2>3, SameActs
  <2> QED BY <1>3, <2>1, <2>3, <2>4 DEF BalancedNow, OpenCalls
<1> QED BY <1>8, <1>9

LEMMA ReturnFrameKeepsBalance ==
  ASSUME TypeInv, BalancedNow, ReturnFrame
  PROVE  BalancedNow'
<1>1. WriterTypeOK /\ Emitting /\ Current.depth = 0
  BY DEF TypeInv, ReturnFrame, MayReturn
<1>2. PICK n : n = Len(emitting) /\ n # 0 /\ Acts(emitting, n) /\ emitting[n] = Current
  BY <1>1, CurrentFacts, WriterActs
<1>3. PICK u : u = emitting' /\ u = Outer(emitting)
  BY DEF ReturnFrame
<1>4. Len(u) = n - 1 /\ \A m \in 1..n - 1 : u[m] = emitting[m]
  BY <1>1, <1>2, <1>3, OuterFacts, WriterTypes DEF Emitting
<1>5. PICK open : open = OpenCalls /\ Balanced(emitting, open)
  BY DEF BalancedNow
<1>6. open # <<>> /\ open[Len(open)] = ToReturn(emitting[n].id) /\ Balanced(u, Outer(open))
  <2>1. PICK em : em = emitting
    OBVIOUS
  <2>2. Acts(em, n) /\ n # 0 /\ Balanced(em, open) /\ em[n].depth = 0
    BY <1>1, <1>2, <1>5, <2>1
  <2>3. Len(u) = n - 1 /\ \A m \in 1..n - 1 : u[m] = em[m]
    BY <1>4, <2>1
  <2>4. open # <<>> /\ open[Len(open)] = ToReturn(em[n].id) /\ Balanced(u, Outer(open))
    BY <2>2, <2>3, LeavesFrame
  <2> QED BY <2>1, <2>4
<1>7. PICK x \in OutEvent : x = Left(Current.id) /\ x.kind = "return" /\ x.frame = Current.id
  BY <1>1, CurrentFacts, OutEvents DEF Left
<1>8. OpenCalls' = Outer(open)
  <2>1. out \in Seq(OutEvent) /\ out' = Append(out, x)
    BY <1>1, <1>7, WriterTypes DEF ReturnFrame
  <2>2. open \in Seq(OpenCall) /\ OpenCallsAfter(out') = CallsAfter(open, x) /\ x.frame \in Nat
    BY <1>5, <2>1, CallsNext DEF OpenCalls
  <2>3. open[Len(open)] = [close |-> x.kind, frame |-> x.frame]
    BY <1>2, <1>6, <1>7 DEF ToReturn
  <2>4. CallsAfter(open, x) = Outer(open)
    BY <1>6, <1>7, <2>2, <2>3, CallsAfterCases
  <2> QED BY <2>2, <2>4 DEF OpenCalls
<1> QED BY <1>3, <1>6, <1>8 DEF BalancedNow

LEMMA SameBalance ==
  ASSUME BalancedNow, UNCHANGED <<emitting, out>>
  PROVE  BalancedNow'
BY DEF BalancedNow, OpenCalls

LEMMA UnwrittenBalance == emitting = <<>> /\ out = <<>> => BalancedNow
<1> SUFFICES ASSUME emitting = <<>>, out = <<>> PROVE BalancedNow
  OBVIOUS
<1>1. PICK em, open : em = emitting /\ open = OpenCalls /\ em = <<>> /\ open = <<>>
  BY NoCalls DEF OpenCalls
<1>2. Len(em) = 0 /\ Len(open) = 0 /\ 1..Len(open) = {} /\ open \in Seq(OpenCall)
  BY <1>1
<1>3. StackedTo(em, open, 0, 0)
  BY NothingStacked
<1> QED BY <1>1, <1>2, <1>3 DEF BalancedNow, Balanced, Closable, Stacked

LEMMA UnwrittenBalanceNext == emitting' = <<>> /\ out' = <<>> => BalancedNow'
<1>1. (emitting = <<>> /\ out = <<>> => BalancedNow)'
  BY UnwrittenBalance, PTL
<1> QED BY <1>1

BalanceInv == PlaceInv /\ BalancedNow

LEMMA InitBalance == Init => BalanceInv
BY InitPlace, UnwrittenBalance DEF Init, BalanceInv

LEMMA NextBalance == BalanceInv /\ [Next]_vars => BalanceInv'
<1> SUFFICES ASSUME BalanceInv, [Next]_vars PROVE BalanceInv'
  OBVIOUS
<1>1. PlaceInv' /\ TypeInv /\ BalancedNow
  BY NextPlace DEF BalanceInv, PlaceInv
<1>2. CASE ObserverNext /\ UNCHANGED writerVars
  <2>1. emitting' = <<>> /\ out' = <<>>
    BY <1>1, <1>2, ObserverStops DEF TypeInv, Unwritten, writerVars
  <2> QED BY <1>1, <2>1, UnwrittenBalanceNext DEF BalanceInv
<1>3. CASE WriterNext
  <2> SUFFICES BalancedNow'
    BY <1>1 DEF BalanceInv
  <2>1. CASE EmitTop
    BY <1>1, <2>1, EmitTopKeepsBalance
  <2>2. CASE OpenInternal
    BY <1>1, <2>2, OpenInternalKeepsBalance
  <2>3. CASE SpliceKid
    BY <1>1, <2>3, SpliceKidKeepsBalance
  <2>4. CASE EmitStep
    BY <1>1, <2>4, EmitStepKeepsBalance
  <2>5. CASE CloseInternal
    BY <1>1, <2>5, CloseInternalKeepsBalance
  <2>6. CASE ReturnFrame
    BY <1>1, <2>6, ReturnFrameKeepsBalance
  <2>7. CASE Close
    BY <1>1, <2>7, SameBalance DEF Close
  <2> QED BY <1>3, <2>1, <2>2, <2>3, <2>4, <2>5, <2>6, <2>7 DEF WriterNext
<1>4. CASE UNCHANGED vars
  BY <1>1, <1>4, SameBalance DEF BalanceInv, vars
<1> QED BY <1>2, <1>3, <1>4 DEF Next

(* A complete container has every frame left, and so every call closed. *)
LEMMA BalanceShows == BalanceInv => CallsBalanced
<1> SUFFICES ASSUME BalanceInv PROVE CallsBalanced
  OBVIOUS
<1>1. PICK open : open = OpenCalls /\ Balanced(emitting, open)
  BY DEF BalanceInv, BalancedNow
<1>2. ASSUME closed PROVE open = <<>>
  <2>1. finished
    BY <1>2 DEF BalanceInv, PlaceInv, TypeInv, Unwritten
  <2>2. Len(FrameEvents) = Len(history)
    BY <1>2 DEF BalanceInv, PlaceInv, ClosedDone
  <2>3. PICK p \in Nat : p = Len(FrameEvents)
    BY PlaceFacts DEF BalanceInv
  <2>4. emitting = <<>>
    BY <2>1, <2>2, <2>3, MoreWhileEmitting DEF BalanceInv, Emitting
  <2>5. StackedTo(emitting, open, 0, Len(open))
    BY <1>1, <2>4 DEF Balanced, Stacked
  <2>6. Len(open) = 0
    BY <2>5 DEF StackedTo, AreStacked
  <2> QED BY <1>1, <2>6 DEF Balanced
<1>3. \A j \in 1..Len(open) : open[j] # Unbalanced
  BY <1>1 DEF Balanced, Closable
<1> QED BY <1>1, <1>2, <1>3 DEF CallsBalanced

(***************************************************************************)
(* "... so the call stream stays balanced" (record.rs:263-264), for        *)
(* transactions of any size that fail in any way: every return closes the  *)
(* innermost open call, and none is open in a complete container.          *)
(***************************************************************************)
THEOREM StreamIsBalanced == Spec => []CallsBalanced
BY InitBalance, NextBalance, BalanceShows, PTL DEF Spec

=============================================================================
