-------------------------- MODULE SourceWalkProofs ---------------------------
(***************************************************************************)
(* Proofs about SourceWalk, for every set of programs.                     *)
(*                                                                         *)
(* The invariants the runs check are not inductive.  What makes them so is *)
(* the discipline of the frames on the stack, stated part by part below:   *)
(* what a frame's scan has promised about the callees it does not count    *)
(* as recursable, where a suspended frame stands, and that a frame lies    *)
(* above the passenger's way only if it has nothing left to record.        *)
(* The second half follows the walk through the call graph and through the *)
(* bodies: what it has looked up, what it has left behind, and which lines *)
(* of an open frame are recorded.                                          *)
(***************************************************************************)
EXTENDS SourceWalk, FiniteSetTheorems, SequenceTheorems, TLAPS

(* Before the root is entered nothing has happened. *)
Untouched ==
  ~started => stack = <<>> /\ visited = {} /\ pending = NoName /\ ~surfaced

(* What a frame's scan left out of its recursable calls is visited. *)
Scanned(frame) ==
  /\ frame.post = HasPostRecursionStep(frame.fn, frame.recursable)
  /\ \A l \in 1..Len(LinesOf(frame.fn)) :
       \A i \in 1..Len(LinesOf(frame.fn)[l].calls) :
         <<l, i>> \in frame.recursable \/ LinesOf(frame.fn)[l].calls[i] \in visited

FramesScanned == \A k \in 1..Len(stack) : Scanned(stack[k])

(* A suspended frame stands just past one of its recursable calls. *)
Suspended(frame) ==
  frame.idx > 0 /\ <<frame.line, frame.idx - 1>> \in frame.recursable

CallersSuspended == \A k \in 1..Len(stack) - 1 : Suspended(stack[k])

(* A frame that will neither step nor enter a callee any more. *)
Exhausted(frame) == ~frame.post /\ ~BeforeTail(frame)

PassengerChain ==
  \A j \in 1..Len(stack) : stack[j].passenger =>
    \A i \in 1..j - 1 : Exhausted(stack[i])

SurfacedLast == surfaced => \A k \in 1..Len(stack) : Exhausted(stack[k])

(* A step after the frame's last recursable call is still buffered. *)
Walked(frame, l) == l < frame.line \/ (l = frame.line /\ frame.idx > 0)

LastStepBuffered ==
  stack # <<>> =>
    ((\E l \in 1..Len(LinesOf(Top.fn)) :
        /\ ~LinesOf(Top.fn)[l].blank
        /\ \A p \in Top.recursable : p[1] < l
        /\ Walked(Top, l))
     => pending = Top.fn)

(* Every call event is of a function that was marked visited. *)
IInv ==
  /\ TypeOK
  /\ Untouched
  /\ FramesScanned
  /\ CallersSuspended
  /\ PassengerChain
  /\ SurfacedLast
  /\ LastStepBuffered

-----------------------------------------------------------------------------
(***************************************************************************)
(* What the program tables and the scan contain.                           *)
(***************************************************************************)
LEMMA ProgramShape ==
  ASSUME prog \in Programs, NEW f \in Listed
  PROVE  /\ f \in Name
         /\ prog.root \in Listed
         /\ LinesOf(f) \in Seq(Line)
         /\ Len(LinesOf(f)) \in Nat
         /\ \A l \in 1..Len(LinesOf(f)) :
              /\ LinesOf(f)[l] \in Line
              /\ Len(LinesOf(f)[l].calls) \in Nat
              /\ LinesOf(f)[l].close # 0 => LinesOf(f)[l].close > l /\ ~LinesOf(f)[l].blank
<1>1. IsProgram(prog)
  BY ProgramsAssumption
<1>2. LinesOf(f) \in Seq(Line)
  BY <1>1 DEF IsProgram, LinesOf, Listed
<1>3. \A l \in 1..Len(LinesOf(f)) : LinesOf(f)[l] \in Line
  BY <1>2
<1>4. \A l \in 1..Len(LinesOf(f)) : Len(LinesOf(f)[l].calls) \in Nat
  BY <1>3 DEF Line
<1>5. \A l \in 1..Len(LinesOf(f)) :
        LinesOf(f)[l].close # 0 => LinesOf(f)[l].close > l /\ ~LinesOf(f)[l].blank
  BY <1>1 DEF IsProgram, LinesOf, Listed
<1> QED
  BY <1>1, <1>2, <1>3, <1>4, <1>5 DEF IsProgram, Listed

LEMMA RecursableIs ==
  ASSUME prog \in Programs, NEW f \in Listed, NEW vis
  PROVE  /\ Recursable(f, vis) \in SUBSET (Nat \X Nat)
         /\ \A l \in 1..Len(LinesOf(f)) :
              \A i \in 1..Len(LinesOf(f)[l].calls) :
                <<l, i>> \in Recursable(f, vis)
                  <=> LinesOf(f)[l].calls[i] \notin vis \cup {f}
<1>1. \A l \in 1..Len(LinesOf(f)) : Len(LinesOf(f)[l].calls) \in Nat
  BY ProgramShape
<1>2. Len(LinesOf(f)) \in Nat
  BY ProgramShape
<1>3. Recursable(f, vis) \in SUBSET (Nat \X Nat)
  <2>1. ASSUME NEW p \in Recursable(f, vis) PROVE p \in Nat \X Nat
    <3>1. PICK l \in 1..Len(LinesOf(f)) :
            p \in {<<l, i>> : i \in {k \in 1..Len(LinesOf(f)[l].calls) :
                                       LinesOf(f)[l].calls[k] \notin vis \cup {f}}}
      BY DEF Recursable
    <3>2. PICK i \in 1..Len(LinesOf(f)[l].calls) : p = <<l, i>>
      BY <3>1
    <3> QED
      BY <1>1, <1>2, <3>2
  <2> QED
    BY <2>1
<1>4. ASSUME NEW l \in 1..Len(LinesOf(f)),
             NEW i \in 1..Len(LinesOf(f)[l].calls)
      PROVE  <<l, i>> \in Recursable(f, vis)
               <=> LinesOf(f)[l].calls[i] \notin vis \cup {f}
  <2>1. ASSUME LinesOf(f)[l].calls[i] \notin vis \cup {f}
        PROVE  <<l, i>> \in Recursable(f, vis)
    BY <2>1 DEF Recursable
  <2>2. ASSUME <<l, i>> \in Recursable(f, vis)
        PROVE  LinesOf(f)[l].calls[i] \notin vis \cup {f}
    <3>1. PICK m \in 1..Len(LinesOf(f)) :
            <<l, i>> \in {<<m, j>> : j \in {k \in 1..Len(LinesOf(f)[m].calls) :
                                       LinesOf(f)[m].calls[k] \notin vis \cup {f}}}
      BY <2>2 DEF Recursable
    <3>2. PICK j \in {k \in 1..Len(LinesOf(f)[m].calls) :
                        LinesOf(f)[m].calls[k] \notin vis \cup {f}} :
            <<l, i>> = <<m, j>>
      BY <3>1
    <3> QED
      BY <3>2
  <2> QED
    BY <2>1, <2>2
<1> QED
  BY <1>3, <1>4

LEMMA NewFrameIs ==
  ASSUME prog \in Programs, NEW f \in Listed, NEW vis, NEW b \in BOOLEAN
  PROVE  NewFrame(f, vis, b) \in Frame
  BY RecursableIs DEF NewFrame, Frame, HasPostRecursionStep

(***************************************************************************)
(* The top frame moves on: the position of the innermost frame is all that *)
(* changes on the stack, and it only moves past calls.                     *)
(***************************************************************************)
LEMMA TopIs ==
  ASSUME TypeOK, stack # <<>>
  PROVE  /\ Len(stack) \in Nat \ {0}
         /\ Top \in Frame
         /\ Top.fn \in Listed
         /\ \A k \in 1..Len(stack) : stack[k] \in Frame
<1>1. Len(stack) \in Nat \ {0}
  BY EmptySeq DEF TypeOK
<1>2. \A k \in 1..Len(stack) : stack[k] \in Frame
  BY ElementOfSeq DEF TypeOK
<1>3. Top \in Frame
  BY <1>1, <1>2 DEF Top
<1>4. Top.fn \in Listed
  BY <1>3 DEF Frame
<1> QED
  BY <1>1, <1>2, <1>3, <1>4

LEMMA WithTopIs ==
  ASSUME TypeOK, stack # <<>>, NEW fr \in Frame
  PROVE  /\ WithTop(fr) \in Seq(Frame)
         /\ Len(WithTop(fr)) = Len(stack)
         /\ WithTop(fr)[Len(stack)] = fr
         /\ \A k \in 1..Len(stack) - 1 : WithTop(fr)[k] = stack[k]
  BY TopIs, ExceptSeq DEF WithTop, TypeOK

LEMMA PassedLineIsPassed ==
  ASSUME NEW fr, NEW later, fr.line \in Nat, fr.idx \in Nat,
         fr.recursable \in SUBSET (Nat \X Nat),
         later.recursable = fr.recursable,
         later.line = fr.line + 1, later.idx = 0
  PROVE  BeforeTail(later) => BeforeTail(fr)
  BY DEF BeforeTail, BeforeOrAt

LEMMA TopMoves ==
  ASSUME IInv, stack # <<>>, prog' = prog, surfaced' = surfaced,
         visited \subseteq visited',
         NEW fr \in Frame, stack' = WithTop(fr),
         fr.fn = Top.fn, fr.recursable = Top.recursable, fr.post = Top.post,
         fr.passenger = Top.passenger,
         BeforeTail(fr) => BeforeTail(Top)
  PROVE  /\ stack' \in Seq(Frame)'
         /\ FramesScanned'
         /\ CallersSuspended'
         /\ PassengerChain'
         /\ SurfacedLast'
<1>1. /\ Len(stack) \in Nat \ {0}
      /\ Len(stack') = Len(stack)
      /\ stack'[Len(stack)] = fr
      /\ \A k \in 1..Len(stack) - 1 : stack'[k] = stack[k]
      /\ stack' \in Seq(Frame)
  BY TopIs, WithTopIs DEF IInv
<1>2. \A k \in 1..Len(stack) : k = Len(stack) \/ k \in 1..Len(stack) - 1
  BY <1>1
<1>3. Frame' = Frame
  BY DEF Frame, Listed
<1>4. FramesScanned'
  <2>1. ASSUME NEW k \in 1..Len(stack) PROVE Scanned(stack[k])'
    <3>1. Scanned(stack[k])
      BY DEF IInv, FramesScanned
    <3>2. stack'[k].fn = stack[k].fn /\ stack'[k].recursable = stack[k].recursable
          /\ stack'[k].post = stack[k].post
      BY <1>1, <1>2 DEF Top
    <3> QED
      BY <3>1, <3>2 DEF Scanned, LinesOf, HasPostRecursionStep
  <2> QED
    BY <1>1, <2>1 DEF FramesScanned
<1>5. CallersSuspended'
  BY <1>1 DEF IInv, CallersSuspended, Suspended
<1>6. \A k \in 1..Len(stack) : Exhausted(stack[k]) => Exhausted(stack'[k])
  BY <1>1, <1>2 DEF Exhausted, Top
<1>7. PassengerChain'
  BY <1>1, <1>2, <1>6 DEF IInv, PassengerChain, Top, Exhausted, BeforeTail, BeforeOrAt
<1>8. SurfacedLast'
  BY <1>1, <1>6 DEF IInv, SurfacedLast, Exhausted, BeforeTail, BeforeOrAt
<1> QED
  BY <1>1, <1>3, <1>4, <1>5, <1>7, <1>8

-----------------------------------------------------------------------------
(***************************************************************************)
(* The events of an action are events.                                     *)
(***************************************************************************)
LEMMA EventsAre ==
  ASSUME NEW f \in Name, NEW l \in Nat
  PROVE  /\ CallOf(f) \in Event
         /\ StepOf(f, l) \in Event
         /\ ReturnOf(f) \in Event
         /\ ValueOf(f) \in Event
         /\ \A n \in Nat : Repeat(StepOf(f, l), n) \in Seq(Event)
<1>1. StepOf(f, l) \in Event
  BY DEF StepOf, Event
<1>2. \A n \in Nat : Repeat(StepOf(f, l), n) \in Seq(Event)
  BY <1>1, SeqDef DEF Repeat
<1> QED
  BY <1>1, <1>2 DEF CallOf, ReturnOf, ValueOf, Event

LEMMA LoopEventsAre ==
  ASSUME NEW f \in Name, NEW h \in Nat, NEW c \in Nat, c > h, NEW n \in 0..MaxIters
  PROVE  LoopEvents(f, h, c, n) \in Seq(Event)
<1> DEFINE span == c - h
           count == IF n = MaxIters THEN n * span ELSE n * span + 1
<1>1. span \in Nat \ {0} /\ n \in Nat
  BY MaxItersAssumption
<1>2. n * span \in Nat
  BY <1>1
<1>3. count \in Nat
  BY <1>2
<1>4. \A i \in 1..count : h + ((i - 1) % span) \in Nat
  BY <1>1, <1>3
<1>5. \A i \in 1..count : StepOf(f, h + ((i - 1) % span)) \in Event
  BY <1>4, EventsAre
<1> HIDE DEF count
<1>6. [i \in 1..count |-> StepOf(f, h + ((i - 1) % span))] \in [1..count -> Event]
  BY <1>5
<1>7. [i \in 1..count |-> StepOf(f, h + ((i - 1) % span))] \in Seq(Event)
  BY <1>3, <1>6, SeqDef
<1> QED
  BY <1>7 DEF LoopEvents, count

LEMMA PendingIs ==
  ASSUME TypeOK, stack # <<>>
  PROVE  /\ Top.fn \in Name
         /\ Top.line \in Nat \ {0}
         /\ Top.idx \in Nat
         /\ InBody => /\ Top.line \in 1..Len(LinesOf(Top.fn))
                      /\ CurrentLine \in Line
                      /\ CurrentLine.calls \in Seq(Name)
                      /\ Len(CurrentLine.calls) \in Nat
                      /\ CurrentLine.close \in Nat
                      /\ CurrentLine.stmts \in Nat
                      /\ CurrentLine.close # 0 => /\ CurrentLine.close > Top.line
                                                  /\ ~CurrentLine.blank
<1>1. Top \in Frame /\ Top.fn \in Listed
  BY TopIs
<1>2. Top.line \in Nat \ {0} /\ Top.idx \in Nat
  BY <1>1 DEF Frame
<1>3. prog \in Programs
  BY DEF TypeOK
<1>4. Top.fn \in Name
  BY <1>1, <1>3, ProgramShape
<1>5. ASSUME InBody
      PROVE  /\ Top.line \in 1..Len(LinesOf(Top.fn))
             /\ CurrentLine \in Line
             /\ CurrentLine.close # 0 => CurrentLine.close > Top.line /\ ~CurrentLine.blank
  <2>1. PICK fn \in Listed : fn = Top.fn
    BY <1>1
  <2>2. PICK l \in Nat \ {0} : l = Top.line
    BY <1>2
  <2>3. l \in 1..Len(LinesOf(fn))
    BY <1>3, <1>5, <2>1, <2>2, ProgramShape DEF InBody
  <2> QED
    BY <1>3, <2>1, <2>2, <2>3, ProgramShape DEF CurrentLine
<1>6. ASSUME InBody
      PROVE  /\ CurrentLine.calls \in Seq(Name)
             /\ Len(CurrentLine.calls) \in Nat
             /\ CurrentLine.close \in Nat
             /\ CurrentLine.stmts \in Nat
  BY <1>5, <1>6 DEF Line
<1> QED
  BY <1>2, <1>4, <1>5, <1>6

-----------------------------------------------------------------------------
(***************************************************************************)
(* The invariant holds initially and every action preserves it.            *)
(***************************************************************************)
LEMMA InitIInv == Init => IInv
<1> SUFFICES ASSUME Init PROVE IInv
  OBVIOUS
<1>1. Len(stack) = 0 /\ stack \in Seq(Frame) /\ out \in Seq(Event)
  BY EmptySeq DEF Init
<1>2. TypeOK
  BY <1>1 DEF Init, TypeOK
<1>3. FramesScanned /\ CallersSuspended /\ PassengerChain /\ SurfacedLast
  BY <1>1 DEF FramesScanned, CallersSuspended, PassengerChain, SurfacedLast
<1> QED
  BY <1>2, <1>3 DEF Init, IInv, Untouched, LastStepBuffered

LEMMA EnterRootIInv == IInv /\ EnterRoot => IInv'
<1> SUFFICES ASSUME IInv, EnterRoot PROVE IInv'
  OBVIOUS
<1>0. PICK fr : fr = NewFrame(prog.root, {prog.root}, seed)
  OBVIOUS
<1>1. prog \in Programs /\ prog.root \in Listed /\ prog.root \in Name /\ seed \in BOOLEAN
  BY ProgramsAssumption DEF IInv, TypeOK, IsProgram, Listed
<1>2. fr \in Frame
  BY <1>0, <1>1, NewFrameIs
<1>3. Frame' = Frame /\ Listed' = Listed
  BY DEF EnterRoot, Frame, Listed
<1>4. TypeOK'
  BY <1>0, <1>1, <1>2, <1>3, EventsAre DEF IInv, TypeOK, EnterRoot
<1>5. /\ Len(stack') = 1
      /\ stack'[1] = fr
      /\ Top' = fr
      /\ ~surfaced'
      /\ stack' # <<>>
  BY <1>0 DEF EnterRoot, IInv, Untouched, Top
<1>6. fr.line = 1 /\ fr.idx = 0 /\ fr.fn = prog.root
  BY <1>0 DEF NewFrame
<1>7. FramesScanned'
  <2>1. fr.post = HasPostRecursionStep(fr.fn, fr.recursable)
    BY <1>0 DEF NewFrame
  <2>2. \A l \in 1..Len(LinesOf(fr.fn)) : \A i \in 1..Len(LinesOf(fr.fn)[l].calls) :
          <<l, i>> \in fr.recursable \/ LinesOf(fr.fn)[l].calls[i] \in {prog.root}
    BY <1>0, <1>1, <1>6, RecursableIs DEF NewFrame
  <2>3. Scanned(fr)'
    BY <2>1, <2>2 DEF EnterRoot, Scanned, HasPostRecursionStep, LinesOf
  <2> QED
    BY <1>5, <2>3 DEF FramesScanned
<1>8. CallersSuspended' /\ PassengerChain' /\ SurfacedLast'
  BY <1>5 DEF CallersSuspended, PassengerChain, SurfacedLast
<1>9. LastStepBuffered'
  <2>1. \A l \in 1..Len(LinesOf(fr.fn)) : ~Walked(fr, l)
    BY <1>1, <1>6, ProgramShape DEF Walked
  <2>2. LinesOf(fr.fn)' = LinesOf(fr.fn)
    BY DEF LinesOf, EnterRoot
  <2> QED
    BY <1>5, <2>1, <2>2 DEF LastStepBuffered, Walked
<1>10. Untouched'
  BY DEF Untouched, EnterRoot
<1> QED
  BY <1>4, <1>7, <1>8, <1>9, <1>10 DEF IInv

(***************************************************************************)
(* The actions that only move the top frame forward.                       *)
(***************************************************************************)
LEMMA SimulateLoopIInv == IInv /\ SimulateLoop => IInv'
<1> SUFFICES ASSUME IInv, SimulateLoop PROVE IInv'
  OBVIOUS
<1>0. PICK fr : fr = [Top EXCEPT !.line = CurrentLine.close + 1]
  OBVIOUS
<1>1. stack # <<>> /\ InBody /\ TypeOK
  BY DEF SimulateLoop, AtLoop, AtNewLine, InBody, IInv
<1>2. /\ Top \in Frame
      /\ Top.fn \in Name
      /\ Top.fn \in Listed
      /\ Top.line \in Nat
      /\ CurrentLine.close \in Nat
      /\ CurrentLine.close > Top.line
  BY <1>1, TopIs, PendingIs DEF SimulateLoop, AtLoop
<1>3. fr \in Frame
  BY <1>0, <1>2 DEF Frame
<1>4. /\ fr.fn = Top.fn
      /\ fr.recursable = Top.recursable
      /\ fr.post = Top.post
      /\ fr.passenger = Top.passenger
      /\ fr.line > Top.line
  BY <1>0, <1>2 DEF Frame
<1>5. BeforeTail(fr) => BeforeTail(Top)
  BY <1>2, <1>3, <1>4 DEF BeforeTail, BeforeOrAt, Frame
<1>6. stack' = WithTop(fr) /\ prog' = prog /\ visited' = visited /\ surfaced' = surfaced
  BY <1>0 DEF SimulateLoop
<1>7. /\ stack' \in Seq(Frame)'
      /\ FramesScanned'
      /\ CallersSuspended'
      /\ PassengerChain'
      /\ SurfacedLast'
  BY <1>1, <1>3, <1>4, <1>5, <1>6, TopMoves
<1>8. out' \in Seq(Event)
  <2>1. PICK n \in 0..MaxIters :
          out' = out \o LoopEvents(Top.fn, Top.line, CurrentLine.close, n)
    BY DEF SimulateLoop
  <2>2. LoopEvents(Top.fn, Top.line, CurrentLine.close, n) \in Seq(Event)
    BY <1>2, LoopEventsAre
  <2> QED
    BY <1>1, <2>1, <2>2, ConcatProperties DEF TypeOK
<1>9. TypeOK'
  BY <1>1, <1>2, <1>7, <1>8 DEF TypeOK, SimulateLoop, Listed
<1>10. Top' = fr
  BY <1>1, <1>3, <1>6, TopIs, WithTopIs DEF Top
<1>11. LastStepBuffered'
  BY <1>4, <1>10 DEF LastStepBuffered, SimulateLoop
<1>12. Untouched'
  BY <1>1 DEF IInv, Untouched, SimulateLoop
<1> QED
  BY <1>7, <1>9, <1>11, <1>12 DEF IInv

LEMMA SkipBlankLineIInv == IInv /\ SkipBlankLine => IInv'
<1> SUFFICES ASSUME IInv, SkipBlankLine PROVE IInv'
  OBVIOUS
<1>0. PICK fr : fr = [Top EXCEPT !.line = @ + 1]
  OBVIOUS
<1>1. stack # <<>> /\ InBody /\ TypeOK
  BY DEF SkipBlankLine, AtNewLine, InBody, IInv
<1>2. /\ Top \in Frame
      /\ Top.line \in Nat
      /\ Top.idx = 0
  BY <1>1, TopIs, PendingIs DEF SkipBlankLine, AtNewLine
<1>3. fr \in Frame
  BY <1>0, <1>2 DEF Frame
<1>4. /\ fr.fn = Top.fn
      /\ fr.recursable = Top.recursable
      /\ fr.post = Top.post
      /\ fr.passenger = Top.passenger
      /\ fr.line = Top.line + 1
      /\ fr.idx = 0
  BY <1>0, <1>2 DEF Frame
<1>5. BeforeTail(fr) => BeforeTail(Top)
  BY <1>2, <1>3, <1>4 DEF BeforeTail, BeforeOrAt, Frame
<1>6. stack' = WithTop(fr) /\ prog' = prog /\ visited' = visited /\ surfaced' = surfaced
      /\ pending' = pending
  BY <1>0 DEF SkipBlankLine
<1>7. /\ stack' \in Seq(Frame)'
      /\ FramesScanned'
      /\ CallersSuspended'
      /\ PassengerChain'
      /\ SurfacedLast'
  BY <1>1, <1>3, <1>4, <1>5, <1>6, TopMoves
<1>8. TypeOK'
  BY <1>1, <1>7 DEF TypeOK, SkipBlankLine, Listed
<1>9. Top' = fr
  BY <1>1, <1>3, <1>6, TopIs, WithTopIs DEF Top
<1>10. LastStepBuffered'
  <2>1. LinesOf(fr.fn)' = LinesOf(fr.fn)
    BY <1>6 DEF LinesOf
  <2>2. \A l \in 1..Len(LinesOf(fr.fn)) :
          ~LinesOf(fr.fn)[l].blank /\ Walked(fr, l) => Walked(Top, l)
    BY <1>1, <1>2, <1>4, TopIs, ProgramShape
    DEF Walked, SkipBlankLine, CurrentLine, TypeOK
  <2> QED
    BY <1>1, <1>4, <1>6, <1>9, <2>1, <2>2 DEF IInv, LastStepBuffered, Walked
<1>11. Untouched'
  BY <1>1 DEF IInv, Untouched, SkipBlankLine
<1> QED
  BY <1>7, <1>8, <1>10, <1>11 DEF IInv

LEMMA StepLineIInv == IInv /\ StepLine => IInv'
<1> SUFFICES ASSUME IInv, StepLine PROVE IInv'
  OBVIOUS
<1>0. PICK fr : fr = [Top EXCEPT !.idx = 1]
  OBVIOUS
<1>1. stack # <<>> /\ InBody /\ TypeOK
  BY DEF StepLine, AtNewLine, InBody, IInv
<1>2. /\ Top \in Frame
      /\ Top.fn \in Name
      /\ Top.fn \in Listed
      /\ Top.line \in Nat
      /\ Top.idx = 0
      /\ CurrentLine.stmts \in Nat
  BY <1>1, TopIs, PendingIs DEF StepLine, AtNewLine
<1>3. fr \in Frame
  BY <1>0, <1>2 DEF Frame
<1>4. /\ fr.fn = Top.fn
      /\ fr.recursable = Top.recursable
      /\ fr.post = Top.post
      /\ fr.passenger = Top.passenger
      /\ fr.line = Top.line
      /\ fr.idx = 1
  BY <1>0, <1>2 DEF Frame
<1>5. BeforeTail(fr) => BeforeTail(Top)
  BY <1>2, <1>3, <1>4 DEF BeforeTail, BeforeOrAt, Frame
<1>6. stack' = WithTop(fr) /\ prog' = prog /\ visited' = visited /\ surfaced' = surfaced
  BY <1>0 DEF StepLine
<1>7. /\ stack' \in Seq(Frame)'
      /\ FramesScanned'
      /\ CallersSuspended'
      /\ PassengerChain'
      /\ SurfacedLast'
  BY <1>1, <1>3, <1>4, <1>5, <1>6, TopMoves
<1>8. out' \in Seq(Event)
  BY <1>1, <1>2, EventsAre, ConcatProperties DEF TypeOK, StepLine
<1>9. TypeOK'
  BY <1>1, <1>2, <1>7, <1>8 DEF TypeOK, StepLine, Listed
<1>10. Top' = fr
  BY <1>1, <1>3, <1>6, TopIs, WithTopIs DEF Top
<1>11. LastStepBuffered'
  BY <1>4, <1>10 DEF LastStepBuffered, StepLine
<1>12. Untouched'
  BY <1>1 DEF IInv, Untouched, StepLine
<1> QED
  BY <1>7, <1>9, <1>11, <1>12 DEF IInv

LEMMA SkipCalleeIInv == IInv /\ SkipCallee => IInv'
<1> SUFFICES ASSUME IInv, SkipCallee PROVE IInv'
  OBVIOUS
<1>0. PICK fr : fr = PastCallee(Top)
  OBVIOUS
<1>1. stack # <<>> /\ InBody /\ TypeOK
  BY DEF SkipCallee, HasCallee, AtCalls, InBody, IInv
<1>2. /\ Top \in Frame
      /\ Top.line \in Nat
      /\ Top.idx \in Nat \ {0}
      /\ Top.idx <= Len(CurrentLine.calls)
      /\ CurrentLine.calls \in Seq(Name)
      /\ Len(CurrentLine.calls) \in Nat
  BY <1>1, TopIs, PendingIs DEF SkipCallee, HasCallee, AtCalls
<1>3. fr \in Frame
  BY <1>0, <1>2 DEF Frame, PastCallee
<1>4. /\ fr.fn = Top.fn
      /\ fr.recursable = Top.recursable
      /\ fr.post = Top.post
      /\ fr.passenger = Top.passenger
      /\ fr.line = Top.line
      /\ fr.idx = Top.idx + 1
  BY <1>0, <1>2 DEF Frame, PastCallee
<1>5. BeforeTail(fr) => BeforeTail(Top)
  BY <1>2, <1>3, <1>4 DEF BeforeTail, BeforeOrAt, Frame
<1>6. stack' = WithTop(fr) /\ prog' = prog /\ visited \subseteq visited'
      /\ surfaced' = surfaced /\ pending' = pending
  BY <1>0 DEF SkipCallee
<1>7. /\ stack' \in Seq(Frame)'
      /\ FramesScanned'
      /\ CallersSuspended'
      /\ PassengerChain'
      /\ SurfacedLast'
  BY <1>1, <1>3, <1>4, <1>5, <1>6, TopMoves
<1>8. Callee \in Name
  BY <1>2, ElementOfSeq DEF Callee
<1>9. TypeOK'
  BY <1>1, <1>7, <1>8 DEF TypeOK, SkipCallee, Listed
<1>10. Top' = fr
  BY <1>1, <1>3, <1>6, TopIs, WithTopIs DEF Top
<1>11. LastStepBuffered'
  <2>1. LinesOf(fr.fn)' = LinesOf(fr.fn)
    BY <1>6 DEF LinesOf
  <2>2. \A l \in 1..Len(LinesOf(fr.fn)) : Walked(fr, l) => Walked(Top, l)
    BY <1>2, <1>4 DEF Walked
  <2> QED
    BY <1>1, <1>4, <1>6, <1>10, <2>1, <2>2 DEF IInv, LastStepBuffered, Walked
<1>12. Untouched'
  BY <1>1 DEF IInv, Untouched, SkipCallee
<1> QED
  BY <1>7, <1>9, <1>11, <1>12 DEF IInv

LEMMA EndLineIInv == IInv /\ EndLine => IInv'
<1> SUFFICES ASSUME IInv, EndLine PROVE IInv'
  OBVIOUS
<1>0. PICK fr : fr = [Top EXCEPT !.line = @ + 1, !.idx = 0]
  OBVIOUS
<1>1. stack # <<>> /\ InBody /\ TypeOK
  BY DEF EndLine, AtCalls, InBody, IInv
<1>2. /\ Top \in Frame
      /\ Top.fn \in Listed
      /\ Top.line \in Nat
      /\ Top.idx \in Nat \ {0}
  BY <1>1, TopIs, PendingIs DEF EndLine, AtCalls
<1>3. fr \in Frame
  <2>1. [Top EXCEPT !.line = @ + 1] \in Frame
    BY <1>2 DEF Frame
  <2>2. [[Top EXCEPT !.line = @ + 1] EXCEPT !.idx = 0] \in Frame
    BY <2>1 DEF Frame
  <2> QED
    BY <1>0, <2>2
<1>4. /\ fr.fn = Top.fn
      /\ fr.recursable = Top.recursable
      /\ fr.post = Top.post
      /\ fr.passenger = Top.passenger
      /\ fr.line = Top.line + 1
      /\ fr.idx = 0
  BY <1>0, <1>2 DEF Frame
<1>5. BeforeTail(fr) => BeforeTail(Top)
  BY <1>2, <1>3, <1>4, PassedLineIsPassed DEF Frame
<1>6. stack' = WithTop(fr) /\ prog' = prog /\ visited' = visited /\ surfaced' = surfaced
      /\ pending' = pending
  BY <1>0 DEF EndLine
<1>7. /\ stack' \in Seq(Frame)'
      /\ FramesScanned'
      /\ CallersSuspended'
      /\ PassengerChain'
      /\ SurfacedLast'
  BY <1>1, <1>3, <1>4, <1>5, <1>6, TopMoves
<1>8. TypeOK'
  BY <1>1, <1>7 DEF TypeOK, EndLine, Listed
<1>9. Top' = fr
  BY <1>1, <1>3, <1>6, TopIs, WithTopIs DEF Top
<1>10. LastStepBuffered'
  <2>1. LinesOf(fr.fn)' = LinesOf(fr.fn)
    BY <1>6 DEF LinesOf
  <2>2. \A l \in 1..Len(LinesOf(fr.fn)) : Walked(fr, l) => Walked(Top, l)
    BY <1>1, <1>2, <1>4, ProgramShape DEF Walked, TypeOK
  <2> QED
    BY <1>1, <1>4, <1>6, <1>9, <2>1, <2>2 DEF IInv, LastStepBuffered, Walked
<1>11. Untouched'
  BY <1>1 DEF IInv, Untouched, EndLine
<1> QED
  BY <1>7, <1>8, <1>10, <1>11 DEF IInv

(***************************************************************************)
(* A call of a listed function that is not visited is one the caller's     *)
(* scan counted, so the caller is not exhausted.                           *)
(***************************************************************************)
LEMMA EnteredWasRecursable ==
  ASSUME IInv, EnterCallee
  PROVE  /\ <<Top.line, Top.idx>> \in Top.recursable
         /\ BeforeTail(Top)
<1>1. stack # <<>> /\ InBody /\ TypeOK
  BY DEF EnterCallee, HasCallee, AtCalls, InBody, IInv
<1>2. /\ Top.line \in 1..Len(LinesOf(Top.fn))
      /\ Top.idx \in 1..Len(CurrentLine.calls)
      /\ Top.line \in Nat
  BY <1>1, PendingIs DEF EnterCallee, HasCallee, AtCalls
<1>3. Scanned(Top)
  BY <1>1, TopIs DEF IInv, FramesScanned, Top
<1>4. <<Top.line, Top.idx>> \in Top.recursable
  BY <1>2, <1>3 DEF Scanned, EnterCallee, Callee, CurrentLine
<1> QED
  BY <1>2, <1>4 DEF BeforeTail, BeforeOrAt

LEMMA EnterCalleeIInv == IInv /\ EnterCallee => IInv'
<1> SUFFICES ASSUME IInv, EnterCallee PROVE IInv'
  OBVIOUS
<1>0. PICK fr : fr = PastCallee(Top)
  OBVIOUS
<1>1. PICK new : new = NewFrame(Callee, visited', HandsOver(Top))
  OBVIOUS
<1>2. stack # <<>> /\ InBody /\ TypeOK
  BY DEF EnterCallee, HasCallee, AtCalls, InBody, IInv
<1>3. /\ Top \in Frame
      /\ Top.line \in Nat
      /\ Top.idx \in Nat \ {0}
      /\ Len(stack) \in Nat \ {0}
  BY <1>2, TopIs, PendingIs DEF EnterCallee, HasCallee, AtCalls
<1>4. fr \in Frame
  BY <1>0, <1>3 DEF Frame, PastCallee
<1>5. /\ fr.fn = Top.fn
      /\ fr.recursable = Top.recursable
      /\ fr.post = Top.post
      /\ fr.passenger = Top.passenger
      /\ fr.line = Top.line
      /\ fr.idx = Top.idx + 1
  BY <1>0, <1>3 DEF Frame, PastCallee
<1>6. /\ Callee \in Listed
      /\ Callee \in Name
      /\ prog \in Programs
      /\ HandsOver(Top) \in BOOLEAN
      /\ Top.passenger \in BOOLEAN
  BY <1>2, <1>3, ProgramShape DEF EnterCallee, TypeOK, HandsOver, AtTail, Frame
<1>7. new \in Frame
  BY <1>1, <1>6, NewFrameIs
<1>8. /\ new.fn = Callee
      /\ new.line = 1
      /\ new.idx = 0
      /\ new.passenger = HandsOver(Top)
      /\ new.recursable = Recursable(Callee, visited')
      /\ new.post = HasPostRecursionStep(Callee, new.recursable)
  BY <1>1 DEF NewFrame
<1>9. /\ WithTop(fr) \in Seq(Frame)
      /\ Len(WithTop(fr)) = Len(stack)
      /\ WithTop(fr)[Len(stack)] = fr
      /\ \A k \in 1..Len(stack) - 1 : WithTop(fr)[k] = stack[k]
  BY <1>2, <1>4, WithTopIs
<1>10. stack' = Append(WithTop(fr), new)
  BY <1>0, <1>1 DEF EnterCallee
<1>11. /\ stack' \in Seq(Frame)
       /\ Len(stack') = Len(stack) + 1
       /\ stack'[Len(stack) + 1] = new
       /\ stack'[Len(stack)] = fr
       /\ \A k \in 1..Len(stack) - 1 : stack'[k] = stack[k]
  BY <1>3, <1>7, <1>9, <1>10, AppendProperties
<1>12. Top' = new
  BY <1>11 DEF Top
<1>13. /\ prog' = prog
       /\ visited' = visited \cup {Callee}
       /\ surfaced' = surfaced
       /\ Frame' = Frame
       /\ Listed' = Listed
  BY DEF EnterCallee, Frame, Listed
<1>14. out' \in Seq(Event)
  BY <1>2, <1>6, EventsAre, AppendProperties DEF TypeOK, EnterCallee
<1>15. TypeOK'
  BY <1>2, <1>6, <1>11, <1>13, <1>14 DEF TypeOK, EnterCallee
<1>16. \A k \in 1..Len(stack') :
         k = Len(stack) + 1 \/ k = Len(stack) \/ k \in 1..Len(stack) - 1
  BY <1>3, <1>11
<1>17. FramesScanned'
  <2>1. ASSUME NEW k \in 1..Len(stack) PROVE Scanned(stack[k])'
    <3>1. Scanned(stack[k])
      BY DEF IInv, FramesScanned
    <3>2. stack'[k].fn = stack[k].fn /\ stack'[k].recursable = stack[k].recursable
          /\ stack'[k].post = stack[k].post
      BY <1>3, <1>5, <1>11 DEF Top
    <3> QED
      BY <1>13, <3>1, <3>2 DEF Scanned, LinesOf, HasPostRecursionStep
  <2>2. ASSUME NEW l \in 1..Len(LinesOf(Callee)),
               NEW i \in 1..Len(LinesOf(Callee)[l].calls)
        PROVE  \/ <<l, i>> \in new.recursable
               \/ LinesOf(Callee)[l].calls[i] \in visited'
    BY <1>6, <1>8, <1>13, RecursableIs
  <2>3. Scanned(new)'
    BY <1>8, <1>13, <2>2 DEF Scanned, LinesOf, HasPostRecursionStep
  <2> QED
    BY <1>3, <1>11, <1>16, <2>1, <2>3 DEF FramesScanned
<1>18. CallersSuspended'
  <2>1. Suspended(fr)
    BY <1>3, <1>5, EnteredWasRecursable DEF Suspended
  <2>2. ASSUME NEW k \in 1..Len(stack) PROVE Suspended(stack'[k])
    BY <1>3, <1>11, <2>1 DEF IInv, CallersSuspended
  <2>3. Len(stack') - 1 = Len(stack)
    BY <1>3, <1>11
  <2> QED
    BY <2>2, <2>3 DEF CallersSuspended, Suspended
<1>19. ~Exhausted(Top)
  BY EnteredWasRecursable DEF Exhausted
<1>20. ~surfaced
  BY <1>3, <1>19 DEF IInv, SurfacedLast, Top
<1>21. \A i \in 1..Len(stack) - 1 : Top.passenger => Exhausted(stack[i])
  BY <1>3 DEF IInv, PassengerChain, Top
<1>22. new.passenger => Top.passenger /\ Exhausted(fr)
  <2>1. SUFFICES ASSUME new.passenger PROVE Top.passenger /\ Exhausted(fr)
    OBVIOUS
  <2>2. /\ Top.passenger
        /\ ~Top.post
        /\ \A p \in Top.recursable : BeforeOrAt(Top, p) => p = <<Top.line, Top.idx>>
    BY <1>8, <2>1 DEF HandsOver, AtTail
  <2>3. \A p \in fr.recursable : ~BeforeOrAt(fr, p)
    BY <1>3, <1>4, <1>5, <2>2 DEF BeforeOrAt, Frame
  <2> QED
    BY <1>5, <2>2, <2>3 DEF Exhausted, BeforeTail
<1>23. PassengerChain'
  <2>1. ASSUME NEW j \in 1..Len(stack'), stack'[j].passenger, NEW i \in 1..j - 1
        PROVE  Exhausted(stack'[i])
    <3>1. CASE j = Len(stack) + 1
      BY <1>3, <1>11, <1>21, <1>22, <2>1, <3>1
    <3>2. CASE j \in 1..Len(stack)
      <4>1. stack[j].passenger /\ i \in 1..Len(stack) - 1
        BY <1>3, <1>5, <1>11, <2>1, <3>2 DEF Top
      <4> QED
        BY <1>11, <2>1, <3>2, <4>1 DEF IInv, PassengerChain
    <3> QED
      BY <1>3, <1>16, <3>1, <3>2
  <2> QED
    BY <2>1 DEF PassengerChain, Exhausted, BeforeTail, BeforeOrAt
<1>24. SurfacedLast'
  BY <1>13, <1>20 DEF SurfacedLast
<1>25. LastStepBuffered'
  <2>1. \A l \in 1..Len(LinesOf(new.fn)) : ~Walked(new, l)
    BY <1>6, <1>8, ProgramShape DEF Walked
  <2>2. LinesOf(new.fn)' = LinesOf(new.fn)
    BY <1>13 DEF LinesOf
  <2> QED
    BY <1>12, <2>1, <2>2 DEF LastStepBuffered, Walked
<1>26. Untouched'
  BY <1>2 DEF IInv, Untouched, EnterCallee
<1> QED
  BY <1>15, <1>17, <1>18, <1>23, <1>24, <1>25, <1>26 DEF IInv

LEMMA BelowIs ==
  ASSUME TypeOK, stack # <<>>
  PROVE  /\ Below \in Seq(Frame)
         /\ Len(Below) = Len(stack) - 1
         /\ \A k \in 1..Len(stack) - 1 : Below[k] = stack[k]
<1>1. Len(stack) \in Nat \ {0} /\ \A k \in 1..Len(stack) : stack[k] \in Frame
  BY TopIs
<1>2. \A k \in 1..Len(stack) - 1 : stack[k] \in Frame
  BY <1>1
<1>3. /\ SubSeq(stack, 1, Len(stack) - 1) \in Seq(Frame)
      /\ Len(SubSeq(stack, 1, Len(stack) - 1)) =
           IF 1 <= Len(stack) - 1 THEN Len(stack) - 1 - 1 + 1 ELSE 0
      /\ \A k \in 1..Len(stack) - 1 - 1 + 1 :
           SubSeq(stack, 1, Len(stack) - 1)[k] = stack[1 + k - 1]
  BY <1>1, <1>2, SubSeqProperties
<1>4. Len(SubSeq(stack, 1, Len(stack) - 1)) = Len(stack) - 1
  <2>1. PICK n : n = Len(SubSeq(stack, 1, Len(stack) - 1))
    OBVIOUS
  <2>2. n = IF 1 <= Len(stack) - 1 THEN Len(stack) - 1 - 1 + 1 ELSE 0
    BY <1>3, <2>1
  <2>3. PICK m \in Nat \ {0} : m = Len(stack)
    BY <1>1
  <2>4. n = IF 1 <= m - 1 THEN m - 1 - 1 + 1 ELSE 0
    BY <2>2, <2>3
  <2>5. n = m - 1
    <3>1. m \in Int /\ m >= 1
      BY <2>3
    <3>2. CASE m = 1
      BY <2>4, <3>2
    <3>3. CASE m > 1
      BY <2>4, <3>1, <3>3
    <3> QED
      BY <3>1, <3>2, <3>3
  <2> QED
    BY <2>1, <2>3, <2>5
<1>5. \A k \in 1..Len(stack) - 1 : k \in 1..Len(stack) - 1 - 1 + 1 /\ 1 + k - 1 = k
  BY <1>1
<1>6. \A k \in 1..Len(stack) - 1 : SubSeq(stack, 1, Len(stack) - 1)[k] = stack[k]
  BY <1>3, <1>5
<1> QED
  BY <1>3, <1>4, <1>6 DEF Below

LEMMA LeaveFunctionIInv == IInv /\ LeaveFunction => IInv'
<1> SUFFICES ASSUME IInv, LeaveFunction PROVE IInv'
  OBVIOUS
<1>1. stack # <<>> /\ TypeOK /\ stack' = Below
  BY DEF LeaveFunction, IInv
<1>2. /\ Top \in Frame
      /\ Top.fn \in Name
      /\ Len(stack) \in Nat \ {0}
  BY <1>1, TopIs, PendingIs
<1>3. /\ stack' \in Seq(Frame)
      /\ Len(stack') = Len(stack) - 1
      /\ \A k \in 1..Len(stack) - 1 : stack'[k] = stack[k]
  BY <1>1, BelowIs
<1>4. /\ prog' = prog
      /\ visited' = visited
      /\ pending' = NoName
      /\ surfaced' = (surfaced \/ Surfaces(Top))
      /\ Frame' = Frame
      /\ Listed' = Listed
  BY DEF LeaveFunction, Frame, Listed
<1>5. out' \in Seq(Event)
  <2>1. CASE Surfaces(Top) /\ pending # NoName
    <3>1. pending \in Name
      BY <1>1, <2>1, ProgramShape DEF TypeOK
    <3>2. <<ValueOf(pending), ReturnOf(Top.fn)>> \in Seq(Event)
      <4>1. ValueOf(pending) \in Event /\ ReturnOf(Top.fn) \in Event
        BY <1>2, <3>1 DEF ValueOf, ReturnOf, Event
      <4> QED
        BY <4>1
    <3> QED
      BY <1>1, <2>1, <3>2, ConcatProperties DEF LeaveFunction, TypeOK
  <2>2. CASE ~(Surfaces(Top) /\ pending # NoName)
    BY <1>1, <1>2, <2>2, EventsAre, AppendProperties DEF LeaveFunction, TypeOK
  <2> QED
    BY <2>1, <2>2
<1>6. surfaced' \in BOOLEAN
  BY <1>1, <1>4 DEF TypeOK
<1>7. TypeOK'
  BY <1>1, <1>3, <1>4, <1>5, <1>6 DEF TypeOK, LeaveFunction
<1>8. FramesScanned'
  <2>1. ASSUME NEW k \in 1..Len(stack) - 1 PROVE Scanned(stack[k])'
    <3>1. Scanned(stack[k])
      BY <1>2 DEF IInv, FramesScanned
    <3> QED
      BY <1>3, <1>4, <3>1 DEF Scanned, LinesOf, HasPostRecursionStep
  <2> QED
    BY <1>3, <2>1 DEF FramesScanned
<1>9. CallersSuspended'
  <2>1. ASSUME NEW k \in 1..Len(stack) - 2 PROVE Suspended(stack'[k])
    BY <1>2, <1>3 DEF IInv, CallersSuspended
  <2>2. Len(stack') - 1 = Len(stack) - 2
    BY <1>2, <1>3
  <2> QED
    BY <2>1, <2>2 DEF CallersSuspended, Suspended
<1>10. PassengerChain'
  <2>1. ASSUME NEW j \in 1..Len(stack) - 1, stack'[j].passenger, NEW i \in 1..j - 1
        PROVE  Exhausted(stack'[i])
    BY <1>2, <1>3, <2>1 DEF IInv, PassengerChain
  <2> QED
    BY <1>3, <2>1 DEF PassengerChain, Exhausted, BeforeTail, BeforeOrAt
<1>11. SurfacedLast'
  <2>1. ASSUME surfaced', NEW k \in 1..Len(stack) - 1 PROVE Exhausted(stack'[k])
    <3>1. CASE surfaced
      BY <1>2, <1>3, <3>1 DEF IInv, SurfacedLast
    <3>2. CASE Surfaces(Top)
      BY <1>2, <1>3, <3>2 DEF IInv, PassengerChain, Surfaces, Top
    <3> QED
      BY <1>4, <2>1, <3>1, <3>2
  <2> QED
    BY <1>3, <2>1 DEF SurfacedLast, Exhausted, BeforeTail, BeforeOrAt
<1>12. LastStepBuffered'
  <2>1. SUFFICES ASSUME stack' # <<>>,
                        NEW l \in 1..Len(LinesOf(Top.fn))',
                        (\A p \in Top.recursable : p[1] < l)',
                        Walked(Top, l)'
                 PROVE  FALSE
    BY DEF LastStepBuffered
  <2>2. Len(stack) - 1 \in 1..Len(stack) - 1
    BY <1>2, <1>3, <2>1, EmptySeq
  <2>3. PICK fr \in Frame : fr = stack[Len(stack) - 1] /\ Suspended(fr)
    BY <1>1, <2>2, TopIs DEF IInv, CallersSuspended
  <2>4. Top' = fr
    BY <1>3, <2>2, <2>3 DEF Top
  <2>5. fr.line < l
    BY <2>1, <2>3, <2>4 DEF Suspended
  <2>6. l \in Nat /\ fr.line \in Nat
    BY <1>1, <1>4, <2>1, <2>3, <2>4, ProgramShape DEF Frame, LinesOf, TypeOK
  <2>7. l < fr.line \/ l = fr.line
    BY <2>1, <2>4 DEF Walked
  <2> QED
    BY <2>5, <2>6, <2>7
<1>13. Untouched'
  BY <1>1 DEF IInv, Untouched, LeaveFunction
<1> QED
  BY <1>7, <1>8, <1>9, <1>10, <1>11, <1>12, <1>13 DEF IInv

LEMMA NextIInv == IInv /\ [Next]_vars => IInv'
<1> SUFFICES ASSUME IInv, [Next]_vars PROVE IInv'
  OBVIOUS
<1>1. CASE UNCHANGED vars
  <2>1. TypeOK' /\ Untouched'
    BY <1>1 DEF vars, IInv, TypeOK, Frame, Listed, Untouched
  <2>2. FramesScanned'
    <3>1. ASSUME NEW k \in 1..Len(stack) PROVE Scanned(stack[k])'
      <4>1. Scanned(stack[k])
        BY DEF IInv, FramesScanned
      <4> QED
        BY <1>1, <4>1 DEF vars, Scanned, HasPostRecursionStep, LinesOf
    <3> QED
      BY <1>1, <3>1 DEF vars, FramesScanned
  <2>3. CallersSuspended'
    BY <1>1 DEF vars, IInv, CallersSuspended, Suspended
  <2>4. PassengerChain' /\ SurfacedLast'
    BY <1>1 DEF vars, IInv, PassengerChain, SurfacedLast, Exhausted, BeforeTail, BeforeOrAt
  <2>5. LastStepBuffered'
    BY <1>1 DEF vars, IInv, LastStepBuffered, LinesOf, Walked, Top
  <2> QED
    BY <2>1, <2>2, <2>3, <2>4, <2>5 DEF IInv
<1> QED
  BY <1>1, EnterRootIInv, SimulateLoopIInv, SkipBlankLineIInv, StepLineIInv,
     SkipCalleeIInv, EnterCalleeIInv, EndLineIInv, LeaveFunctionIInv DEF Next

-----------------------------------------------------------------------------
(***************************************************************************)
(* The inductive invariant holds of every recording.                       *)
(***************************************************************************)
THEOREM FramesDisciplined == Spec => []IInv
  BY InitIInv, NextIInv, PTL DEF Spec

(***************************************************************************)
(* Every variable of the walk stays in its domain.                         *)
(***************************************************************************)
THEOREM TypeCorrect == Spec => []TypeOK
<1>1. IInv => TypeOK
  BY DEF IInv
<1> QED
  BY <1>1, FramesDisciplined, PTL

(***************************************************************************)
(* For every program, the passenger of emit_function_dfs is never held by  *)
(* two frames, nor by one after it was surfaced: return_value is emitted   *)
(* at most once.                                                           *)
(***************************************************************************)
THEOREM PassengerIsUnique == Spec => []PassengerUnique
<1>1. ASSUME IInv PROVE PassengerUnique
  <2>1. ASSUME NEW i \in 1..Len(stack), Carries(stack[i])
        PROVE  ~surfaced
    BY <1>1, <2>1 DEF IInv, SurfacedLast, Exhausted, Carries
  <2>2. ASSUME NEW i \in 1..Len(stack), NEW j \in 1..Len(stack),
               Carries(stack[i]), Carries(stack[j]), i < j
        PROVE  FALSE
    BY <1>1, <2>2 DEF IInv, PassengerChain, Exhausted, Carries
  <2>3. \A i, j \in 1..Len(stack) : i = j \/ i < j \/ j < i
    OBVIOUS
  <2> QED
    BY <2>1, <2>2, <2>3 DEF PassengerUnique
<1> QED
  BY <1>1, FramesDisciplined, PTL

-----------------------------------------------------------------------------
(***************************************************************************)
(* The walk implements SourceRecording.                                    *)
(***************************************************************************)
Open == [i \in 1..Len(stack) |-> stack[i].fn]

LEMMA OpenIs ==
  ASSUME TypeOK
  PROVE  /\ Open \in Seq(Name)
         /\ Len(Open) = Len(stack)
         /\ Len(stack) \in Nat
         /\ Open = <<>> <=> stack = <<>>
<1>1. Len(stack) \in Nat /\ \A k \in 1..Len(stack) : stack[k] \in Frame
  BY ElementOfSeq, LenProperties DEF TypeOK
<1>2. \A k \in 1..Len(stack) : stack[k].fn \in Name
  BY <1>1, ProgramShape DEF TypeOK, Frame
<1>3. Open \in [1..Len(stack) -> Name]
  BY <1>2 DEF Open
<1>4. Open \in Seq(Name)
  BY <1>1, <1>3, SeqDef
<1>5. Len(Open) = Len(stack)
  BY <1>1, <1>3, <1>4, LenProperties
<1>6. Open = <<>> <=> stack = <<>>
  BY <1>4, <1>5, EmptySeq DEF TypeOK
<1> QED
  BY <1>1, <1>4, <1>5, <1>6

LEMMA OpenKept ==
  ASSUME TypeOK, stack # <<>>, NEW fr \in Frame, fr.fn = Top.fn, stack' = WithTop(fr)
  PROVE  Open' = Open
<1>1. /\ Len(stack) \in Nat \ {0}
      /\ Len(stack') = Len(stack)
      /\ stack'[Len(stack)] = fr
      /\ \A k \in 1..Len(stack) - 1 : stack'[k] = stack[k]
  BY TopIs, WithTopIs
<1>2. \A k \in 1..Len(stack) : k = Len(stack) \/ k \in 1..Len(stack) - 1
  BY <1>1
<1>3. \A k \in 1..Len(stack) : stack'[k].fn = stack[k].fn
  BY <1>1, <1>2 DEF Top
<1> QED
  BY <1>1, <1>3 DEF Open

(* Moving the position of a frame leaves its function alone. *)
LEMMA MovedFrame ==
  ASSUME NEW fr \in Frame, NEW l \in Nat \ {0}, NEW i \in Nat
  PROVE  /\ [fr EXCEPT !.line = l] \in Frame
         /\ [fr EXCEPT !.line = l].fn = fr.fn
         /\ [fr EXCEPT !.idx = i] \in Frame
         /\ [fr EXCEPT !.idx = i].fn = fr.fn
         /\ [fr EXCEPT !.line = l, !.idx = i] \in Frame
         /\ [fr EXCEPT !.line = l, !.idx = i].fn = fr.fn
<1>1. [fr EXCEPT !.line = l] \in Frame /\ [fr EXCEPT !.line = l].fn = fr.fn
  BY DEF Frame
<1>2. [fr EXCEPT !.idx = i] \in Frame /\ [fr EXCEPT !.idx = i].fn = fr.fn
  BY DEF Frame
<1>3. /\ [[fr EXCEPT !.line = l] EXCEPT !.idx = i] \in Frame
      /\ [[fr EXCEPT !.line = l] EXCEPT !.idx = i].fn = fr.fn
  BY <1>1 DEF Frame
<1> QED
  BY <1>1, <1>2, <1>3

(* After the value is surfaced no frame is at a line that gives a step. *)
LEMMA NoStepAfterSurfaced ==
  ASSUME IInv, AtNewLine, ~CurrentLine.blank
  PROVE  ~surfaced
<1>1. stack # <<>> /\ InBody /\ TypeOK
  BY DEF AtNewLine, InBody, IInv
<1>2. /\ Top \in Frame
      /\ Top.line \in 1..Len(LinesOf(Top.fn))
      /\ Top.line \in Nat
      /\ Top.idx = 0
      /\ Len(stack) \in Nat \ {0}
  BY <1>1, TopIs, PendingIs DEF AtNewLine
<1>3. SUFFICES ASSUME Exhausted(Top) PROVE FALSE
  BY <1>2 DEF IInv, SurfacedLast, Top
<1>4. \A p \in Top.recursable : p[1] < Top.line
  BY <1>2, <1>3 DEF Exhausted, BeforeTail, BeforeOrAt, Frame
<1>5. HasPostRecursionStep(Top.fn, Top.recursable)
  BY <1>2, <1>4 DEF HasPostRecursionStep, CurrentLine
<1>6. Scanned(Top)
  BY <1>2 DEF IInv, FramesScanned, Top
<1> QED
  BY <1>3, <1>5, <1>6 DEF Scanned, Exhausted

LEMMA EnterRootCalls == IInv /\ EnterRoot => Recording!Call(prog.root)
<1> SUFFICES ASSUME IInv, EnterRoot PROVE Recording!Call(prog.root)
  OBVIOUS
<1>1. prog.root \in Listed
  BY ProgramsAssumption DEF IInv, TypeOK, IsProgram, Listed
<1>2. stack = <<>> /\ visited = {} /\ ~surfaced
  BY DEF IInv, Untouched, EnterRoot
<1>3. Open = <<>> /\ Open \in Seq(Name) /\ Len(Open) = 0
  BY <1>2, OpenIs, EmptySeq DEF IInv
<1>4. Len(stack') = 1 /\ stack'[1].fn = prog.root
  BY DEF EnterRoot, NewFrame
<1>5. Open' = <<prog.root>>
  BY <1>4 DEF Open
<1>6. Open' = Append(Open, prog.root)
  BY <1>3, <1>5
<1>7. visited' \cap Listed' = (visited \cap Listed) \cup {prog.root}
  BY <1>1, <1>2 DEF EnterRoot, Listed
<1> QED
  BY <1>2, <1>3, <1>6, <1>7 DEF Recording!Call, Open, EnterRoot

LEMMA EnterCalleeCalls == IInv /\ EnterCallee => Recording!Call(Callee)
<1> SUFFICES ASSUME IInv, EnterCallee PROVE Recording!Call(Callee)
  OBVIOUS
<1>1. stack # <<>> /\ InBody /\ TypeOK
  BY DEF EnterCallee, HasCallee, AtCalls, InBody, IInv
<1>2. Top \in Frame /\ Top.idx \in Nat /\ Len(stack) \in Nat \ {0}
  BY <1>1, TopIs, PendingIs
<1>3. PICK fr \in Frame : fr = PastCallee(Top) /\ fr.fn = Top.fn
  <2>1. PICK i \in Nat : i = Top.idx + 1
    BY <1>2
  <2>2. [Top EXCEPT !.idx = i] \in Frame /\ [Top EXCEPT !.idx = i].fn = Top.fn
    BY <1>2, MovedFrame
  <2> QED
    BY <2>1, <2>2 DEF PastCallee
<1>4. PICK new : /\ new = NewFrame(Callee, visited', HandsOver(Top))
                 /\ new.fn = Callee
                 /\ new \in Frame
  <2>1. HandsOver(Top) \in BOOLEAN
    BY <1>2 DEF HandsOver, AtTail, Frame
  <2>2. NewFrame(Callee, visited', HandsOver(Top)) \in Frame
    BY <1>1, <2>1, NewFrameIs DEF EnterCallee, TypeOK
  <2> QED
    BY <2>2 DEF NewFrame
<1>5. /\ WithTop(fr) \in Seq(Frame)
      /\ Len(WithTop(fr)) = Len(stack)
      /\ WithTop(fr)[Len(stack)] = fr
      /\ \A k \in 1..Len(stack) - 1 : WithTop(fr)[k] = stack[k]
  BY <1>1, WithTopIs
<1>6. stack' = Append(WithTop(fr), new)
  BY <1>3, <1>4 DEF EnterCallee
<1>7. /\ Len(stack') = Len(stack) + 1
      /\ stack'[Len(stack) + 1] = new
      /\ stack'[Len(stack)] = fr
      /\ \A k \in 1..Len(stack) - 1 : stack'[k] = stack[k]
  BY <1>2, <1>4, <1>5, <1>6, AppendProperties
<1>8. \A k \in 1..Len(stack) : stack'[k].fn = stack[k].fn
  <2>1. \A k \in 1..Len(stack) : k = Len(stack) \/ k \in 1..Len(stack) - 1
    BY <1>2
  <2> QED
    BY <1>3, <1>7, <2>1 DEF Top
<1>9. Callee \in Name
  BY <1>1, ProgramShape DEF EnterCallee, TypeOK
<1>10. Open' = Append(Open, Callee)
  <2>1. /\ Open \in Seq(Name)
        /\ Len(Open) = Len(stack)
        /\ \A k \in 1..Len(stack) : Open[k] = stack[k].fn
    BY <1>1, OpenIs DEF Open
  <2>2. /\ Append(Open, Callee) \in Seq(Name)
        /\ Len(Append(Open, Callee)) = Len(stack) + 1
        /\ \A k \in 1..Len(stack) : Append(Open, Callee)[k] = stack[k].fn
        /\ Append(Open, Callee)[Len(stack) + 1] = Callee
    BY <1>9, <2>1, AppendProperties
  <2>3. Open' = [k \in 1..Len(stack) + 1 |-> stack'[k].fn]
    BY <1>7 DEF Open
  <2>4. \A k \in 1..Len(stack) + 1 : k = Len(stack) + 1 \/ k \in 1..Len(stack)
    BY <1>2
  <2>5. \A k \in 1..Len(stack) + 1 : stack'[k].fn = Append(Open, Callee)[k]
    BY <1>4, <1>7, <1>8, <2>2, <2>4
  <2>6. Append(Open, Callee) = [k \in 1..Len(stack) + 1 |-> Append(Open, Callee)[k]]
    BY <2>2, LenProperties
  <2> QED
    BY <2>3, <2>5, <2>6
<1>11. ~surfaced
  BY <1>2, EnteredWasRecursable DEF IInv, SurfacedLast, Exhausted, Top
<1>12. visited' \cap Listed' = (visited \cap Listed) \cup {Callee}
  BY DEF EnterCallee, Listed
<1>13. Open # <<>> /\ Callee \notin visited /\ UNCHANGED <<pending, surfaced>>
  BY <1>1, OpenIs DEF EnterCallee
<1> QED
  BY <1>10, <1>11, <1>12, <1>13 DEF Recording!Call, Open

LEMMA StepsStep == IInv /\ (SimulateLoop \/ StepLine) => Recording!Step
<1> SUFFICES ASSUME IInv, SimulateLoop \/ StepLine PROVE Recording!Step
  OBVIOUS
<1>1. stack # <<>> /\ InBody /\ AtNewLine /\ TypeOK
  BY DEF SimulateLoop, AtLoop, StepLine, AtNewLine, InBody, IInv
<1>2. /\ Top \in Frame
      /\ Len(stack) \in Nat \ {0}
      /\ CurrentLine.close \in Nat
      /\ CurrentLine.close # 0 => ~CurrentLine.blank
  BY <1>1, TopIs, PendingIs
<1>3. ~surfaced
  BY <1>1, <1>2, NoStepAfterSurfaced DEF SimulateLoop, AtLoop, StepLine
<1>4. Open' = Open
  <2>1. CASE SimulateLoop
    <3>1. PICK l \in Nat \ {0} : l = CurrentLine.close + 1
      BY <1>2
    <3>2. PICK fr \in Frame : fr = [Top EXCEPT !.line = l] /\ fr.fn = Top.fn
      BY <1>2, MovedFrame
    <3>3. stack' = WithTop(fr)
      BY <2>1, <3>1, <3>2 DEF SimulateLoop
    <3> QED
      BY <1>1, <3>2, <3>3, OpenKept
  <2>2. CASE StepLine
    <3>1. PICK fr \in Frame : fr = [Top EXCEPT !.idx = 1] /\ fr.fn = Top.fn
      BY <1>2, MovedFrame
    <3>2. stack' = WithTop(fr)
      BY <2>2, <3>1 DEF StepLine
    <3> QED
      BY <1>1, <3>1, <3>2, OpenKept
  <2> QED
    BY <2>1, <2>2
<1>5. /\ pending' = Top.fn
      /\ UNCHANGED <<prog, visited, surfaced>>
  BY DEF SimulateLoop, StepLine
<1>6. Open # <<>> /\ Len(Open) = Len(stack) /\ Open[Len(stack)] = Top.fn
  BY <1>1, <1>2, OpenIs DEF Open, Top
<1> QED
  BY <1>3, <1>4, <1>5, <1>6 DEF Recording!Step, Recording!Innermost, Open, Listed

LEMMA MovesStutter ==
  IInv /\ (SkipBlankLine \/ SkipCallee \/ EndLine) => UNCHANGED Recording!vars
<1> SUFFICES ASSUME IInv, SkipBlankLine \/ SkipCallee \/ EndLine
             PROVE  UNCHANGED Recording!vars
  OBVIOUS
<1>1. stack # <<>> /\ TypeOK
  BY DEF SkipBlankLine, AtNewLine, SkipCallee, HasCallee, AtCalls, EndLine, InBody, IInv
<1>2. Top \in Frame /\ Top.line \in Nat \ {0} /\ Top.idx \in Nat
  BY <1>1, TopIs, PendingIs
<1>3. PICK l \in Nat \ {0} : l = Top.line + 1
  BY <1>2
<1>4. PICK i \in Nat : i = Top.idx + 1
  BY <1>2
<1>5. PICK fr \in Frame : fr.fn = Top.fn /\ stack' = WithTop(fr)
  <2>1. CASE SkipBlankLine
    BY <1>2, <1>3, <2>1, MovedFrame DEF SkipBlankLine
  <2>2. CASE SkipCallee
    BY <1>2, <1>4, <2>2, MovedFrame DEF SkipCallee, PastCallee
  <2>3. CASE EndLine
    <3>1. PICK moved \in Frame : moved = [Top EXCEPT !.line = l] /\ moved.fn = Top.fn
      BY <1>2, MovedFrame
    <3>2. PICK fr \in Frame : fr = [moved EXCEPT !.idx = 0] /\ fr.fn = Top.fn
      <4>1. [moved EXCEPT !.idx = 0] \in Frame /\ [moved EXCEPT !.idx = 0].fn = Top.fn
        BY <3>1 DEF Frame
      <4> QED
        BY <4>1
    <3>3. fr = [Top EXCEPT !.line = l, !.idx = 0]
      BY <1>2, <3>1, <3>2 DEF Frame
    <3>4. stack' = WithTop(fr)
      BY <1>3, <2>3, <3>3 DEF EndLine
    <3> QED
      BY <3>2, <3>4
  <2> QED
    BY <2>1, <2>2, <2>3
<1>6. Open' = Open
  BY <1>1, <1>5, OpenKept
<1>7. /\ visited' \cap Listed' = visited \cap Listed
      /\ UNCHANGED <<pending, surfaced>>
  <2>1. CASE SkipBlankLine
    BY <2>1 DEF SkipBlankLine, Listed
  <2>2. CASE EndLine
    BY <2>2 DEF EndLine, Listed
  <2>3. CASE SkipCallee /\ Callee \in visited
    BY <2>3 DEF SkipCallee, Listed
  <2>4. CASE SkipCallee /\ Callee \notin Listed
    BY <2>4 DEF SkipCallee, Listed
  <2> QED
    BY <2>1, <2>2, <2>3, <2>4 DEF SkipCallee
<1> QED
  BY <1>6, <1>7 DEF Recording!vars, Open

LEMMA LeaveReturns == IInv /\ LeaveFunction => Recording!Return
<1> SUFFICES ASSUME IInv, LeaveFunction PROVE Recording!Return
  OBVIOUS
<1>1. stack # <<>> /\ ~InBody /\ TypeOK
  BY DEF LeaveFunction, IInv
<1>2. /\ Top \in Frame
      /\ Top.fn \in Listed
      /\ Top.line \in Nat
      /\ Len(stack) \in Nat \ {0}
  BY <1>1, TopIs, PendingIs
<1>3. /\ Len(stack') = Len(stack) - 1
      /\ \A k \in 1..Len(stack) - 1 : stack'[k] = stack[k]
  BY <1>1, BelowIs DEF LeaveFunction
<1>4. /\ Open \in Seq(Name)
      /\ Len(Open) = Len(stack)
      /\ Open # <<>>
      /\ \A k \in 1..Len(stack) : Open[k] = stack[k].fn
  BY <1>1, OpenIs DEF Open
<1>5. Open' = SubSeq(Open, 1, Len(Open) - 1)
  <2>1. Open' = [k \in 1..Len(stack) - 1 |-> Open[k]]
    BY <1>2, <1>3, <1>4 DEF Open
  <2>2. SubSeq(Open, 1, Len(stack) - 1) = Restrict(Open, 1..Len(stack) - 1)
    BY <1>2, <1>4, SubSeqRestrict
  <2> QED
    BY <1>4, <2>1, <2>2 DEF Restrict
<1>6. /\ pending' = NoName
      /\ visited' \cap Listed' = visited \cap Listed
      /\ surfaced' = (surfaced \/ Surfaces(Top))
      /\ surfaced \in BOOLEAN
  BY <1>1 DEF LeaveFunction, Listed, TypeOK
<1>7. Surfaces(Top) => pending = Top.fn
  <2>1. SUFFICES ASSUME Top.post PROVE pending = Top.fn
    BY DEF Surfaces
  <2>2. Scanned(Top)
    BY <1>2 DEF IInv, FramesScanned, Top
  <2>3. HasPostRecursionStep(Top.fn, Top.recursable)
    BY <2>1, <2>2 DEF Scanned
  <2>4. PICK l \in 1..Len(LinesOf(Top.fn)) :
          ~LinesOf(Top.fn)[l].blank /\ \A p \in Top.recursable : p[1] < l
    BY <2>3 DEF HasPostRecursionStep
  <2>5. Walked(Top, l)
    BY <1>1, <1>2, ProgramShape DEF Walked, InBody, TypeOK
  <2> QED
    BY <1>1, <2>4, <2>5 DEF IInv, LastStepBuffered
<1>8. \/ surfaced' = surfaced
      \/ ~surfaced /\ surfaced' = TRUE /\ pending = Open[Len(Open)]
  <2>1. pending = Top.fn => pending = Open[Len(Open)]
    BY <1>2, <1>4 DEF Top
  <2>2. CASE surfaced
    BY <1>6, <2>2
  <2>3. CASE ~surfaced /\ Surfaces(Top)
    BY <1>6, <1>7, <2>1, <2>3
  <2>4. CASE ~surfaced /\ ~Surfaces(Top)
    BY <1>6, <2>4
  <2> QED
    BY <2>2, <2>3, <2>4
<1> QED
  BY <1>4, <1>5, <1>6, <1>8 DEF Recording!Return, Recording!Innermost, Open

(***************************************************************************)
(* For every program the event stream of the walk is one SourceRecording   *)
(* allows: calls nest and open once, every step belongs to the innermost   *)
(* open call, and return_value lands on the last step of the recording,    *)
(* in the frame that surfaces it.                                          *)
(***************************************************************************)
THEOREM WalkImplementsRecording == Spec => ImplementsRecording
<1>1. Init => Recording!Init
  <2>1. SUFFICES ASSUME Init PROVE Recording!Init
    OBVIOUS
  <2>2. Open = <<>>
    BY <2>1, InitIInv, OpenIs DEF IInv, Init
  <2> QED
    BY <2>1, <2>2 DEF Init, Recording!Init, Open
<1>2. IInv /\ [Next]_vars => [Recording!Next]_(Recording!vars)
  <2>1. SUFFICES ASSUME IInv, [Next]_vars
                 PROVE  Recording!Next \/ UNCHANGED Recording!vars
    OBVIOUS
  <2>2. CASE UNCHANGED vars
    BY <2>2 DEF vars, Recording!vars, Listed
  <2>3. CASE EnterRoot
    <3>1. IsProgram(prog)
      BY <2>1, ProgramsAssumption DEF IInv, TypeOK
    <3>2. prog.root \in Name
      BY <3>1 DEF IsProgram
    <3>3. Recording!Call(prog.root)
      BY <2>1, <2>3, EnterRootCalls
    <3>4. PICK c \in Name : c = prog.root
      BY <3>2
    <3>5. Recording!Call(c)
      BY <3>3, <3>4 DEF Recording!Call
    <3> QED
      BY <3>5 DEF Recording!Next
  <2>4. CASE EnterCallee
    <3>1. Callee \in Name
      BY <2>1, <2>4, ProgramShape DEF EnterCallee, IInv, TypeOK
    <3>2. Recording!Call(Callee)
      BY <2>1, <2>4, EnterCalleeCalls
    <3>3. PICK c \in Name : c = Callee
      BY <3>1
    <3>4. Recording!Call(c)
      BY <3>2, <3>3 DEF Recording!Call
    <3> QED
      BY <3>4 DEF Recording!Next
  <2>5. CASE SimulateLoop \/ StepLine
    BY <2>1, <2>5, StepsStep DEF Recording!Next
  <2>6. CASE SkipBlankLine \/ SkipCallee \/ EndLine
    BY <2>1, <2>6, MovesStutter
  <2>7. CASE LeaveFunction
    BY <2>1, <2>7, LeaveReturns DEF Recording!Next
  <2> QED
    BY <2>1, <2>2, <2>3, <2>4, <2>5, <2>6, <2>7 DEF Next
<1> QED
  BY <1>1, <1>2, FramesDisciplined, PTL DEF Spec, ImplementsRecording, Recording!Spec

-----------------------------------------------------------------------------
(***************************************************************************)
(* The walk reaches the call graph.  What makes that inductive is where    *)
(* the frames stand, outside the loops that are replayed, and what they    *)
(* have passed: the callees before a frame's position are visited, so that *)
(* a function that is no longer open has left no callee behind.            *)
(***************************************************************************)

(* A frame never stands inside a loop that is replayed. *)
OutsideLoops(frame) ==
  /\ \A h \in 1..Len(LinesOf(frame.fn)) :
       h < frame.line /\ LinesOf(frame.fn)[h].sim =>
         LinesOf(frame.fn)[h].close < frame.line
  /\ frame.idx # 0 =>
       /\ frame.line <= Len(LinesOf(frame.fn))
       /\ LinesOf(frame.fn)[frame.line].close = 0 \/ ~LinesOf(frame.fn)[frame.line].sim

(* The callees before a frame's position, replayed loops aside, are visited. *)
LookedAt(frame, l, i) == l < frame.line \/ (l = frame.line /\ i < frame.idx)

CalleesVisited(frame) ==
  \A l \in 1..Len(LinesOf(frame.fn)) :
    \A i \in 1..Len(LinesOf(frame.fn)[l].calls) :
      ~InReplayedLoop(frame.fn, l) /\ LookedAt(frame, l, i) =>
        LinesOf(frame.fn)[l].calls[i] \in visited

FramesLookedUp ==
  \A k \in 1..Len(stack) :
    /\ stack[k].fn \in visited
    /\ OutsideLoops(stack[k])
    /\ CalleesVisited(stack[k])

(* What a visited function calls is visited, unless it is still open. *)
LeftBehind ==
  \A f \in visited \cap Listed :
    (\E k \in 1..Len(stack) : stack[k].fn = f) \/ CallsOf(f) \subseteq visited

OnlyReached == visited \cap Listed \subseteq ReachableFrom(prog.root)

CallsRecorded ==
  \A f \in Listed : f \in visited <=> \E i \in 1..Len(out) : out[i] = CallOf(f)

RootFirst == IF started THEN prog.root \in visited ELSE out = <<>>

CallsFollowed ==
  /\ FramesLookedUp
  /\ LeftBehind
  /\ OnlyReached
  /\ CallsRecorded
  /\ RootFirst

(* What the table says of the lines that the walk jumps over. *)
LEMMA LineShape ==
  ASSUME prog \in Programs, NEW f \in Listed, NEW l \in 1..Len(LinesOf(f))
  PROVE  /\ l \in Nat \ {0}
         /\ LinesOf(f)[l].close \in Nat
         /\ LinesOf(f)[l].calls \in Seq(Name)
         /\ Len(LinesOf(f)[l].calls) \in Nat
         /\ LinesOf(f)[l].stmts \in Nat
         /\ LinesOf(f)[l].blank => LinesOf(f)[l].calls = <<>> /\ LinesOf(f)[l].close = 0
         /\ LinesOf(f)[l].close # 0 =>
              /\ LinesOf(f)[l].close > l
              /\ LinesOf(f)[l].close <= Len(LinesOf(f))
              /\ \A k \in l + 1..LinesOf(f)[l].close : LinesOf(f)[k].close = 0
<1>1. IsProgram(prog)
  BY ProgramsAssumption
<1>2. /\ Len(LinesOf(f)) \in Nat
      /\ LinesOf(f)[l] \in Line
      /\ Len(LinesOf(f)[l].calls) \in Nat
      /\ LinesOf(f)[l].close # 0 => LinesOf(f)[l].close > l /\ ~LinesOf(f)[l].blank
  BY ProgramShape
<1>3. /\ LinesOf(f)[l].blank => LinesOf(f)[l].calls = <<>>
      /\ LinesOf(f)[l].close # 0 =>
           /\ LinesOf(f)[l].close <= Len(LinesOf(f))
           /\ \A k \in l + 1..LinesOf(f)[l].close : LinesOf(f)[k].close = 0
  BY <1>1 DEF IsProgram, LinesOf, Listed
<1>4. /\ LinesOf(f)[l].close \in Nat
      /\ LinesOf(f)[l].calls \in Seq(Name)
      /\ LinesOf(f)[l].stmts \in Nat
  BY <1>2 DEF Line
<1> QED
  BY <1>2, <1>3, <1>4

LEMMA SameProgram ==
  ASSUME prog' = prog
  PROVE  /\ Listed' = Listed
         /\ Frame' = Frame
         /\ \A f : LinesOf(f)' = LinesOf(f)
         /\ \A f : CallsOf(f)' = CallsOf(f)
         /\ \A f, l : InReplayedLoop(f, l)' = InReplayedLoop(f, l)
         /\ \A f : ReachableFrom(f)' = ReachableFrom(f)
  BY DEF Listed, Frame, LinesOf, CallsOf, InReplayedLoop, ReachableFrom

(* The calls of a frame that has passed its last line are all visited. *)
LEMMA PassedAllCalls ==
  ASSUME NEW fr, fr.line \in Nat, Len(LinesOf(fr.fn)) \in Nat,
         fr.line > Len(LinesOf(fr.fn)), CalleesVisited(fr)
  PROVE  CallsOf(fr.fn) \subseteq visited
<1> SUFFICES ASSUME NEW c \in CallsOf(fr.fn) PROVE c \in visited
  OBVIOUS
<1>1. PICK l \in {k \in 1..Len(LinesOf(fr.fn)) : ~InReplayedLoop(fr.fn, k)} :
        c \in {LinesOf(fr.fn)[l].calls[i] : i \in 1..Len(LinesOf(fr.fn)[l].calls)}
  BY DEF CallsOf
<1>2. PICK i \in 1..Len(LinesOf(fr.fn)[l].calls) : c = LinesOf(fr.fn)[l].calls[i]
  BY <1>1
<1>3. l < fr.line
  BY <1>1
<1> QED
  BY <1>1, <1>2, <1>3 DEF CalleesVisited, LookedAt

(* What a reached function calls outside replayed loops is reached. *)
LEMMA ReachesOn ==
  ASSUME NEW root, NEW f \in ReachableFrom(root), NEW c \in CallsOf(f), c \in Listed
  PROVE  c \in ReachableFrom(root)
  BY DEF ReachableFrom

LEMMA CallAtIsCalled ==
  ASSUME NEW f, NEW l \in 1..Len(LinesOf(f)), NEW i \in 1..Len(LinesOf(f)[l].calls),
         ~InReplayedLoop(f, l)
  PROVE  LinesOf(f)[l].calls[i] \in CallsOf(f)
  BY DEF CallsOf

(* The callee a frame is at is named outside the replayed loops. *)
LEMMA CalleeIsCalled ==
  ASSUME IInv, CallsFollowed, HasCallee
  PROVE  /\ Callee \in CallsOf(Top.fn)
         /\ Callee \in Name
         /\ Top.fn \in visited \cap Listed
<1>1. stack # <<>> /\ InBody /\ AtCalls /\ TypeOK
  BY DEF HasCallee, AtCalls, InBody, IInv
<1>2. /\ Top.fn \in Listed
      /\ Top.line \in 1..Len(LinesOf(Top.fn))
      /\ Top.line \in Nat
      /\ Top.idx \in 1..Len(CurrentLine.calls)
      /\ CurrentLine.calls \in Seq(Name)
      /\ Len(stack) \in Nat \ {0}
  BY <1>1, TopIs, PendingIs DEF HasCallee, AtCalls
<1>3. Top.fn \in visited /\ OutsideLoops(Top)
  BY <1>2 DEF CallsFollowed, FramesLookedUp, Top
<1>4. ~InReplayedLoop(Top.fn, Top.line)
  <2>1. SUFFICES ASSUME NEW h \in 1..Top.line,
                        LinesOf(Top.fn)[h].close >= Top.line, LinesOf(Top.fn)[h].sim
                 PROVE  FALSE
    BY DEF InReplayedLoop
  <2>2. h \in 1..Len(LinesOf(Top.fn))
    BY <1>1, <1>2, ProgramShape DEF TypeOK
  <2>3. LinesOf(Top.fn)[h].close \in Nat
    BY <1>1, <1>2, <2>2, LineShape DEF TypeOK
  <2>4. CASE h < Top.line
    BY <1>2, <1>3, <2>1, <2>2, <2>3, <2>4 DEF OutsideLoops
  <2>5. CASE h = Top.line
    BY <1>2, <1>3, <2>1, <2>3, <2>5 DEF OutsideLoops
  <2> QED
    BY <1>2, <2>4, <2>5
<1>5. Callee \in CallsOf(Top.fn)
  BY <1>2, <1>4, CallAtIsCalled DEF Callee, CurrentLine
<1>6. Callee \in Name
  BY <1>2, ElementOfSeq DEF Callee
<1> QED
  BY <1>2, <1>3, <1>5, <1>6

(***************************************************************************)
(* A frame that moves on keeps to the lines outside the replayed loops,    *)
(* and what it passes is visited.                                          *)
(***************************************************************************)
MovesTo(fr) ==
  /\ fr \in Frame
  /\ fr.fn = Top.fn
  /\ OutsideLoops(fr)
  /\ CalleesVisited(fr)'

LEMMA SimulateLoopMoves ==
  ASSUME IInv, CallsFollowed, SimulateLoop,
         NEW fr, fr = [Top EXCEPT !.line = CurrentLine.close + 1]
  PROVE  MovesTo(fr)
<1>1. stack # <<>> /\ InBody /\ TypeOK /\ prog \in Programs
  BY DEF SimulateLoop, AtLoop, AtNewLine, InBody, IInv, TypeOK
<1>2. /\ Top \in Frame
      /\ Top.fn \in Listed
      /\ Top.line \in Nat \ {0}
      /\ Top.line \in 1..Len(LinesOf(Top.fn))
      /\ Top.idx = 0
      /\ Len(stack) \in Nat \ {0}
      /\ Len(LinesOf(Top.fn)) \in Nat
  BY <1>1, TopIs, PendingIs, ProgramShape DEF SimulateLoop, AtLoop, AtNewLine
<1>3. PICK c \in Nat : /\ c = CurrentLine.close
                       /\ c > Top.line
                       /\ LinesOf(Top.fn)[Top.line].sim
                       /\ \A k \in Top.line + 1..c : LinesOf(Top.fn)[k].close = 0
  BY <1>1, <1>2, LineShape DEF SimulateLoop, AtLoop, CurrentLine
<1>4. /\ fr \in Frame
      /\ fr.fn = Top.fn
      /\ fr.line = c + 1
      /\ fr.idx = 0
  BY <1>2, <1>3 DEF Frame
<1>5. OutsideLoops(Top) /\ CalleesVisited(Top)
  BY <1>2 DEF CallsFollowed, FramesLookedUp, Top
<1>6. OutsideLoops(fr)
  <2>1. SUFFICES ASSUME NEW h \in 1..Len(LinesOf(Top.fn)), h < c + 1,
                        LinesOf(Top.fn)[h].sim
                 PROVE  LinesOf(Top.fn)[h].close < c + 1
    BY <1>4 DEF OutsideLoops
  <2>2. h \in Nat /\ LinesOf(Top.fn)[h].close \in Nat
    BY <1>1, <1>2, LineShape
  <2>3. CASE h < Top.line
    BY <1>2, <1>3, <1>5, <2>1, <2>2, <2>3 DEF OutsideLoops
  <2>4. CASE h = Top.line
    BY <1>3, <2>4 DEF CurrentLine
  <2>5. CASE h > Top.line
    <3>1. h \in Top.line + 1..c
      BY <1>2, <1>3, <2>1, <2>2, <2>5
    <3> QED
      BY <1>3, <3>1
  <2> QED
    BY <1>2, <2>2, <2>3, <2>4, <2>5
<1>7. CalleesVisited(fr)'
  <2>1. SUFFICES ASSUME NEW l \in 1..Len(LinesOf(Top.fn)),
                        NEW i \in 1..Len(LinesOf(Top.fn)[l].calls),
                        ~InReplayedLoop(Top.fn, l), LookedAt(fr, l, i)
                 PROVE  LinesOf(Top.fn)[l].calls[i] \in visited
    BY <1>4, SameProgram DEF CalleesVisited, LookedAt, SimulateLoop
  <2>2. l \in Nat /\ i \in Nat
    BY <1>1, <1>2, LineShape
  <2>3. l < c + 1
    BY <1>4, <2>1, <2>2 DEF LookedAt
  <2>4. CASE l < Top.line
    BY <1>5, <2>1, <2>4 DEF CalleesVisited, LookedAt
  <2>5. CASE l >= Top.line
    <3>1. Top.line \in 1..l /\ c >= l
      BY <1>2, <1>3, <2>2, <2>3, <2>5
    <3>2. InReplayedLoop(Top.fn, l)
      BY <1>3, <3>1 DEF InReplayedLoop, CurrentLine
    <3> QED
      BY <2>1, <3>2
  <2> QED
    BY <1>2, <2>2, <2>4, <2>5
<1> QED
  BY <1>4, <1>6, <1>7 DEF MovesTo

LEMMA SkipBlankLineMoves ==
  ASSUME IInv, CallsFollowed, SkipBlankLine,
         NEW fr, fr = [Top EXCEPT !.line = @ + 1]
  PROVE  MovesTo(fr)
<1>1. stack # <<>> /\ InBody /\ TypeOK /\ prog \in Programs
  BY DEF SkipBlankLine, AtNewLine, InBody, IInv, TypeOK
<1>2. /\ Top \in Frame
      /\ Top.fn \in Listed
      /\ Top.line \in Nat \ {0}
      /\ Top.line \in 1..Len(LinesOf(Top.fn))
      /\ Len(stack) \in Nat \ {0}
  BY <1>1, TopIs, PendingIs
<1>3. LinesOf(Top.fn)[Top.line].close = 0 /\ LinesOf(Top.fn)[Top.line].calls = <<>>
  BY <1>1, <1>2, LineShape DEF SkipBlankLine, CurrentLine
<1>4. /\ fr \in Frame
      /\ fr.fn = Top.fn
      /\ fr.line = Top.line + 1
      /\ fr.idx = 0
  BY <1>2 DEF Frame, SkipBlankLine, AtNewLine
<1>5. OutsideLoops(Top) /\ CalleesVisited(Top)
  BY <1>2 DEF CallsFollowed, FramesLookedUp, Top
<1>6. OutsideLoops(fr)
  <2>1. SUFFICES ASSUME NEW h \in 1..Len(LinesOf(Top.fn)), h < Top.line + 1,
                        LinesOf(Top.fn)[h].sim
                 PROVE  LinesOf(Top.fn)[h].close < Top.line + 1
    BY <1>4 DEF OutsideLoops
  <2>2. h \in Nat /\ LinesOf(Top.fn)[h].close \in Nat
    BY <1>1, <1>2, LineShape
  <2>3. CASE h < Top.line
    BY <1>2, <1>5, <2>1, <2>2, <2>3 DEF OutsideLoops
  <2>4. CASE h = Top.line
    BY <1>2, <1>3, <2>4
  <2> QED
    BY <1>2, <2>1, <2>2, <2>3, <2>4
<1>7. CalleesVisited(fr)'
  <2>1. SUFFICES ASSUME NEW l \in 1..Len(LinesOf(Top.fn)),
                        NEW i \in 1..Len(LinesOf(Top.fn)[l].calls),
                        ~InReplayedLoop(Top.fn, l), LookedAt(fr, l, i)
                 PROVE  LinesOf(Top.fn)[l].calls[i] \in visited
    BY <1>4, SameProgram DEF CalleesVisited, LookedAt, SkipBlankLine
  <2>2. l \in Nat /\ i \in Nat
    BY <1>1, <1>2, LineShape
  <2>3. l # Top.line
    BY <1>3, EmptySeq
  <2>4. l < Top.line
    BY <1>2, <1>4, <2>1, <2>2, <2>3 DEF LookedAt
  <2> QED
    BY <1>5, <2>1, <2>4 DEF CalleesVisited, LookedAt
<1> QED
  BY <1>4, <1>6, <1>7 DEF MovesTo

LEMMA StepLineMoves ==
  ASSUME IInv, CallsFollowed, StepLine,
         NEW fr, fr = [Top EXCEPT !.idx = 1]
  PROVE  MovesTo(fr)
<1>1. stack # <<>> /\ InBody /\ TypeOK /\ prog \in Programs
  BY DEF StepLine, AtNewLine, InBody, IInv, TypeOK
<1>2. /\ Top \in Frame
      /\ Top.fn \in Listed
      /\ Top.line \in Nat \ {0}
      /\ Top.line <= Len(LinesOf(Top.fn))
      /\ Len(stack) \in Nat \ {0}
  BY <1>1, TopIs, PendingIs DEF InBody
<1>3. LinesOf(Top.fn)[Top.line].close = 0 \/ ~LinesOf(Top.fn)[Top.line].sim
  BY DEF StepLine, AtLoop, CurrentLine
<1>4. /\ fr \in Frame
      /\ fr.fn = Top.fn
      /\ fr.line = Top.line
      /\ fr.idx = 1
  BY <1>2 DEF Frame
<1>5. OutsideLoops(Top) /\ CalleesVisited(Top)
  BY <1>2 DEF CallsFollowed, FramesLookedUp, Top
<1>6. OutsideLoops(fr)
  BY <1>2, <1>3, <1>4, <1>5 DEF OutsideLoops
<1>7. CalleesVisited(fr)'
  <2>1. SUFFICES ASSUME NEW l \in 1..Len(LinesOf(Top.fn)),
                        NEW i \in 1..Len(LinesOf(Top.fn)[l].calls),
                        ~InReplayedLoop(Top.fn, l), LookedAt(fr, l, i)
                 PROVE  LinesOf(Top.fn)[l].calls[i] \in visited
    BY <1>4, SameProgram DEF CalleesVisited, LookedAt, StepLine
  <2>2. l \in Nat /\ i \in Nat \ {0}
    BY <1>1, <1>2, LineShape
  <2>3. l < Top.line
    BY <1>2, <1>4, <2>1, <2>2 DEF LookedAt
  <2> QED
    BY <1>5, <2>1, <2>3 DEF CalleesVisited, LookedAt
<1> QED
  BY <1>4, <1>6, <1>7 DEF MovesTo

(* Both ways of dealing with a callee leave it visited behind the frame. *)
LEMMA PastCalleeMoves ==
  ASSUME IInv, CallsFollowed, HasCallee, prog' = prog,
         visited' = visited \cup {Callee},
         NEW fr, fr = PastCallee(Top)
  PROVE  MovesTo(fr)
<1>1. stack # <<>> /\ InBody /\ TypeOK /\ prog \in Programs
  BY DEF HasCallee, AtCalls, InBody, IInv, TypeOK
<1>2. /\ Top \in Frame
      /\ Top.fn \in Listed
      /\ Top.line \in Nat \ {0}
      /\ Top.idx \in Nat \ {0}
      /\ Len(stack) \in Nat \ {0}
  BY <1>1, TopIs, PendingIs DEF HasCallee, AtCalls
<1>3. /\ fr \in Frame
      /\ fr.fn = Top.fn
      /\ fr.line = Top.line
      /\ fr.idx = Top.idx + 1
  BY <1>2 DEF Frame, PastCallee
<1>4. OutsideLoops(Top) /\ CalleesVisited(Top)
  BY <1>2 DEF CallsFollowed, FramesLookedUp, Top
<1>5. OutsideLoops(fr)
  BY <1>2, <1>3, <1>4 DEF OutsideLoops
<1>6. CalleesVisited(fr)'
  <2>1. SUFFICES ASSUME NEW l \in 1..Len(LinesOf(Top.fn)),
                        NEW i \in 1..Len(LinesOf(Top.fn)[l].calls),
                        ~InReplayedLoop(Top.fn, l), LookedAt(fr, l, i)
                 PROVE  LinesOf(Top.fn)[l].calls[i] \in visited \cup {Callee}
    BY <1>3, SameProgram DEF CalleesVisited, LookedAt
  <2>2. l \in Nat /\ i \in Nat
    BY <1>1, <1>2, LineShape
  <2>3. CASE l = Top.line /\ i = Top.idx
    BY <2>3 DEF Callee, CurrentLine
  <2>4. CASE ~(l = Top.line /\ i = Top.idx)
    <3>1. LookedAt(Top, l, i)
      BY <1>2, <1>3, <2>1, <2>2, <2>4 DEF LookedAt
    <3> QED
      BY <1>4, <2>1, <3>1 DEF CalleesVisited
  <2> QED
    BY <2>3, <2>4
<1> QED
  BY <1>3, <1>5, <1>6 DEF MovesTo

LEMMA EndLineMoves ==
  ASSUME IInv, CallsFollowed, EndLine,
         NEW fr, fr = [Top EXCEPT !.line = @ + 1, !.idx = 0]
  PROVE  MovesTo(fr)
<1>1. stack # <<>> /\ InBody /\ TypeOK /\ prog \in Programs
  BY DEF EndLine, AtCalls, InBody, IInv, TypeOK
<1>2. /\ Top \in Frame
      /\ Top.fn \in Listed
      /\ Top.line \in Nat \ {0}
      /\ Top.line \in 1..Len(LinesOf(Top.fn))
      /\ Top.idx \in Nat \ {0}
      /\ Len(stack) \in Nat \ {0}
  BY <1>1, TopIs, PendingIs DEF EndLine, AtCalls
<1>3. /\ fr \in Frame
      /\ fr.fn = Top.fn
      /\ fr.line = Top.line + 1
      /\ fr.idx = 0
  <2>1. [Top EXCEPT !.line = @ + 1] \in Frame
    BY <1>2 DEF Frame
  <2>2. [[Top EXCEPT !.line = @ + 1] EXCEPT !.idx = 0] \in Frame
    BY <2>1 DEF Frame
  <2> QED
    BY <1>2, <2>2 DEF Frame
<1>4. OutsideLoops(Top) /\ CalleesVisited(Top)
  BY <1>2 DEF CallsFollowed, FramesLookedUp, Top
<1>5. OutsideLoops(fr)
  <2>1. SUFFICES ASSUME NEW h \in 1..Len(LinesOf(Top.fn)), h < Top.line + 1,
                        LinesOf(Top.fn)[h].sim
                 PROVE  LinesOf(Top.fn)[h].close < Top.line + 1
    BY <1>3 DEF OutsideLoops
  <2>2. h \in Nat /\ LinesOf(Top.fn)[h].close \in Nat
    BY <1>1, <1>2, LineShape
  <2>3. CASE h < Top.line
    BY <1>2, <1>4, <2>1, <2>2, <2>3 DEF OutsideLoops
  <2>4. CASE h = Top.line
    <3>1. LinesOf(Top.fn)[Top.line].close = 0
      BY <1>2, <1>4, <2>1, <2>4 DEF OutsideLoops
    <3> QED
      BY <1>2, <2>4, <3>1
  <2> QED
    BY <1>2, <2>1, <2>2, <2>3, <2>4
<1>6. CalleesVisited(fr)'
  <2>1. SUFFICES ASSUME NEW l \in 1..Len(LinesOf(Top.fn)),
                        NEW i \in 1..Len(LinesOf(Top.fn)[l].calls),
                        ~InReplayedLoop(Top.fn, l), LookedAt(fr, l, i)
                 PROVE  LinesOf(Top.fn)[l].calls[i] \in visited
    BY <1>3, SameProgram DEF CalleesVisited, LookedAt, EndLine
  <2>2. l \in Nat /\ i \in Nat /\ Len(LinesOf(Top.fn)[l].calls) \in Nat
    BY <1>1, <1>2, LineShape
  <2>3. l < Top.line + 1
    BY <1>2, <1>3, <2>1, <2>2 DEF LookedAt
  <2>4. CASE l = Top.line
    <3>1. ~(Top.idx <= Len(LinesOf(Top.fn)[l].calls))
      BY <2>4 DEF EndLine, HasCallee, CurrentLine
    <3>2. i < Top.idx
      BY <1>2, <2>2, <3>1
    <3> QED
      BY <1>4, <2>1, <2>4, <3>2 DEF CalleesVisited, LookedAt
  <2>5. CASE l < Top.line
    BY <1>4, <2>1, <2>5 DEF CalleesVisited, LookedAt
  <2> QED
    BY <1>2, <2>2, <2>3, <2>4, <2>5
<1> QED
  BY <1>3, <1>5, <1>6 DEF MovesTo

(***************************************************************************)
(* Every action keeps the invariant: one lemma for the actions that move   *)
(* the top frame, one for each of those that push and pop one.             *)
(***************************************************************************)
SameCalls ==
  \A f \in Listed : (\E i \in 1..Len(out') : out'[i] = CallOf(f))
                      <=> (\E i \in 1..Len(out) : out[i] = CallOf(f))

(* The frames under the top keep what they have. *)
LEMMA FrameKeepsCallees ==
  ASSUME NEW fr, prog' = prog, visited \subseteq visited', fr.fn \in visited,
         OutsideLoops(fr), CalleesVisited(fr)
  PROVE  fr.fn \in visited' /\ OutsideLoops(fr)' /\ CalleesVisited(fr)'
<1>1. OutsideLoops(fr)'
  BY SameProgram DEF OutsideLoops
<1>2. CalleesVisited(fr)'
  BY SameProgram DEF CalleesVisited, LookedAt
<1> QED
  BY <1>1, <1>2

LEMMA MoveFollows ==
  ASSUME IInv, CallsFollowed, stack # <<>>, NEW fr, MovesTo(fr), stack' = WithTop(fr),
         visited \subseteq visited', visited' \cap Listed = visited \cap Listed,
         UNCHANGED <<prog, started>>, SameCalls
  PROVE  CallsFollowed'
<1>1. /\ Len(stack) \in Nat \ {0}
      /\ Len(stack') = Len(stack)
      /\ stack'[Len(stack)] = fr
      /\ \A k \in 1..Len(stack) - 1 : stack'[k] = stack[k]
      /\ fr \in Frame
      /\ fr.fn = Top.fn
  BY TopIs, WithTopIs DEF IInv, MovesTo
<1>2. \A k \in 1..Len(stack) : k = Len(stack) \/ k \in 1..Len(stack) - 1
  BY <1>1
<1>3. \A k \in 1..Len(stack) : stack'[k].fn = stack[k].fn
  BY <1>1, <1>2 DEF Top
<1>4. FramesLookedUp'
  <2>1. PICK st : st = stack'
    OBVIOUS
  <2>2. ASSUME NEW k \in 1..Len(stack)
        PROVE  st[k].fn \in visited' /\ OutsideLoops(st[k])' /\ CalleesVisited(st[k])'
    <3>1. CASE k = Len(stack)
      <4>1. st[k] = fr
        BY <1>1, <2>1, <3>1
      <4>2. Top.fn \in visited
        BY <1>1 DEF CallsFollowed, FramesLookedUp, Top
      <4>3. OutsideLoops(fr)'
        BY SameProgram DEF MovesTo, OutsideLoops
      <4> QED
        BY <1>1, <4>1, <4>2, <4>3 DEF MovesTo
    <3>2. CASE k \in 1..Len(stack) - 1
      <4>1. PICK below : below = stack[k] /\ below = st[k]
        BY <1>1, <2>1, <3>2
      <4>2. below.fn \in visited /\ OutsideLoops(below) /\ CalleesVisited(below)
        BY <4>1 DEF CallsFollowed, FramesLookedUp
      <4>3. below.fn \in visited' /\ OutsideLoops(below)' /\ CalleesVisited(below)'
        BY <4>2, FrameKeepsCallees
      <4> QED
        BY <4>1, <4>3
    <3> QED
      BY <1>2, <3>1, <3>2
  <2> QED
    BY <1>1, <2>1, <2>2 DEF FramesLookedUp
<1>5. LeftBehind'
  BY <1>1, <1>3, SameProgram DEF CallsFollowed, LeftBehind
<1>6. OnlyReached'
  BY SameProgram DEF CallsFollowed, OnlyReached
<1>7. CallsRecorded'
  <2>1. SUFFICES ASSUME NEW f \in Listed
                 PROVE  f \in visited' <=> \E i \in 1..Len(out') : out'[i] = CallOf(f)
    BY SameProgram DEF CallsRecorded, CallOf
  <2>2. f \in visited' <=> f \in visited
    OBVIOUS
  <2> QED
    BY <2>2 DEF CallsFollowed, CallsRecorded, SameCalls
<1>8. RootFirst'
  <2>1. started
    BY DEF IInv, Untouched
  <2> QED
    BY <2>1 DEF CallsFollowed, RootFirst
<1> QED
  BY <1>4, <1>5, <1>6, <1>7, <1>8 DEF CallsFollowed

LEMMA PushFollows ==
  ASSUME IInv, CallsFollowed, EnterCallee
  PROVE  CallsFollowed'
<1>1. PICK fr : fr = PastCallee(Top)
  OBVIOUS
<1>2. PICK new : new = NewFrame(Callee, visited', HandsOver(Top))
  OBVIOUS
<1>3. PICK c : c = Callee /\ c \in Listed /\ c \notin visited /\ visited' = visited \cup {c}
  BY DEF EnterCallee
<1>4. stack # <<>> /\ HasCallee /\ prog' = prog /\ started' = started /\ TypeOK
  BY DEF EnterCallee, HasCallee, AtCalls, InBody, IInv
<1>5. MovesTo(fr)
  BY <1>1, <1>3, <1>4, PastCalleeMoves
<1>6. new \in Frame /\ new.fn = c /\ new.line = 1 /\ new.idx = 0
  <2>1. Top \in Frame
    BY <1>4, TopIs
  <2>2. HandsOver(Top) \in BOOLEAN /\ prog \in Programs
    BY <1>4, <2>1 DEF HandsOver, AtTail, Frame, TypeOK
  <2>3. new \in Frame
    BY <1>2, <1>3, <2>2, NewFrameIs
  <2> QED
    BY <1>2, <1>3, <2>3 DEF NewFrame
<1>7. /\ Len(stack) \in Nat \ {0}
      /\ Len(stack') = Len(stack) + 1
      /\ stack'[Len(stack) + 1] = new
      /\ stack'[Len(stack)] = fr
      /\ \A k \in 1..Len(stack) - 1 : stack'[k] = stack[k]
  <2>1. fr \in Frame
    BY <1>5 DEF MovesTo
  <2>2. /\ Len(stack) \in Nat \ {0}
        /\ WithTop(fr) \in Seq(Frame)
        /\ Len(WithTop(fr)) = Len(stack)
        /\ WithTop(fr)[Len(stack)] = fr
        /\ \A k \in 1..Len(stack) - 1 : WithTop(fr)[k] = stack[k]
    BY <1>4, <2>1, TopIs, WithTopIs
  <2>3. stack' = Append(WithTop(fr), new)
    BY <1>1, <1>2 DEF EnterCallee
  <2> QED
    BY <1>6, <2>2, <2>3, AppendProperties
<1>8. \A k \in 1..Len(stack) + 1 :
        k = Len(stack) + 1 \/ k = Len(stack) \/ k \in 1..Len(stack) - 1
  BY <1>7
<1>9. \A k \in 1..Len(stack) : k \in 1..Len(stack) + 1 /\ stack'[k].fn = stack[k].fn
  <2>1. fr.fn = Top.fn
    BY <1>5 DEF MovesTo
  <2>2. \A k \in 1..Len(stack) : k = Len(stack) \/ k \in 1..Len(stack) - 1
    BY <1>7
  <2> QED
    BY <1>7, <2>1, <2>2 DEF Top
<1>10. Top.fn \in visited \cap Listed /\ c \in CallsOf(Top.fn)
  BY <1>3, <1>4, CalleeIsCalled
<1>11. FramesLookedUp'
  <2>1. PICK st : st = stack'
    OBVIOUS
  <2>2. ASSUME NEW k \in 1..Len(stack) + 1
        PROVE  st[k].fn \in visited' /\ OutsideLoops(st[k])' /\ CalleesVisited(st[k])'
    <3>1. CASE k = Len(stack)
      <4>1. st[k] = fr
        BY <1>7, <2>1, <3>1
      <4>2. OutsideLoops(fr)'
        BY <1>4, <1>5, SameProgram DEF MovesTo, OutsideLoops
      <4>3. CalleesVisited(fr)' /\ fr.fn = Top.fn
        BY <1>5 DEF MovesTo
      <4>4. fr.fn \in visited'
        BY <1>3, <1>10, <4>3
      <4> QED
        BY <4>1, <4>2, <4>3, <4>4
    <3>2. CASE k \in 1..Len(stack) - 1
      <4>1. PICK below : below = stack[k] /\ below = st[k]
        BY <1>7, <2>1, <3>2
      <4>0. k \in 1..Len(stack)
        BY <1>7, <3>2
      <4>2. below.fn \in visited /\ OutsideLoops(below) /\ CalleesVisited(below)
        BY <4>0, <4>1 DEF CallsFollowed, FramesLookedUp
      <4>3. below.fn \in visited' /\ OutsideLoops(below)' /\ CalleesVisited(below)'
        BY <1>3, <1>4, <4>2, FrameKeepsCallees
      <4> QED
        BY <4>1, <4>3
    <3>3. CASE k = Len(stack) + 1
      <4>1. st[k] = new
        BY <1>7, <2>1, <3>3
      <4>2. OutsideLoops(new)
        <5>1. \A h \in 1..Len(LinesOf(new.fn)) : ~(h < 1)
          BY <1>3, <1>4, <1>6, ProgramShape DEF TypeOK
        <5> QED
          BY <1>6, <5>1 DEF OutsideLoops
      <4>3. CalleesVisited(new)
        <5>1. \A l \in 1..Len(LinesOf(new.fn)) :
                \A i \in 1..Len(LinesOf(new.fn)[l].calls) : ~LookedAt(new, l, i)
          BY <1>3, <1>4, <1>6, ProgramShape DEF TypeOK, LookedAt
        <5> QED
          BY <5>1 DEF CalleesVisited
      <4>4. OutsideLoops(new)' /\ CalleesVisited(new)'
        <5>1. visited \subseteq visited'
          BY <1>3
        <5>2. OutsideLoops(new)'
          BY <1>4, <4>2, SameProgram DEF OutsideLoops
        <5>3. CalleesVisited(new)'
          BY <1>4, <4>3, <5>1, SameProgram DEF CalleesVisited, LookedAt
        <5> QED
          BY <5>2, <5>3
      <4> QED
        BY <1>3, <1>6, <4>1, <4>4
    <3> QED
      BY <1>8, <3>1, <3>2, <3>3
  <2> QED
    BY <1>7, <2>1, <2>2 DEF FramesLookedUp
<1>12. LeftBehind'
  <2>1. ASSUME NEW f \in visited' \cap Listed
        PROVE  (\E k \in 1..Len(stack') : stack'[k].fn = f) \/ CallsOf(f) \subseteq visited'
    <3>1. CASE f = c
      BY <1>6, <1>7, <3>1
    <3>2. CASE f \in visited
      BY <1>3, <1>7, <1>9, <3>2 DEF CallsFollowed, LeftBehind
    <3> QED
      BY <1>3, <3>1, <3>2
  <2> QED
    BY <1>4, <2>1, SameProgram DEF LeftBehind
<1>13. OnlyReached'
  <2>1. c \in ReachableFrom(prog.root)
    BY <1>3, <1>10, ReachesOn DEF CallsFollowed, OnlyReached
  <2> QED
    BY <1>3, <1>4, <2>1, SameProgram DEF CallsFollowed, OnlyReached
<1>14. CallsRecorded'
  <2>1. /\ Len(out) \in Nat
        /\ Len(out') = Len(out) + 1
        /\ out'[Len(out) + 1] = CallOf(c)
        /\ \A i \in 1..Len(out) : out'[i] = out[i]
    <3>1. c \in Name
      BY <1>3, <1>4, ProgramShape DEF TypeOK
    <3>2. CallOf(c) \in Event /\ out \in Seq(Event)
      BY <1>4, <3>1 DEF TypeOK, CallOf, Event
    <3>3. out' = Append(out, CallOf(c))
      BY <1>3 DEF EnterCallee
    <3> QED
      BY <3>2, <3>3, AppendProperties, LenProperties
  <2>2. ASSUME NEW f \in Listed
        PROVE  f \in visited' <=> \E i \in 1..Len(out') : out'[i] = CallOf(f)
    <3>1. CASE f = c
      BY <1>3, <2>1, <3>1
    <3>2. CASE f # c
      <4>1. CallOf(f) # CallOf(c)
        BY <3>2 DEF CallOf
      <4>2. (\E i \in 1..Len(out') : out'[i] = CallOf(f))
              <=> (\E i \in 1..Len(out) : out[i] = CallOf(f))
        <5>1. ASSUME NEW i \in 1..Len(out'), out'[i] = CallOf(f)
              PROVE  i \in 1..Len(out) /\ out[i] = CallOf(f)
          <6>1. i # Len(out) + 1
            BY <2>1, <4>1, <5>1
          <6>2. i \in 1..Len(out)
            BY <2>1, <6>1
          <6> QED
            BY <2>1, <5>1, <6>2
        <5>2. \A i \in 1..Len(out) : i \in 1..Len(out')
          BY <2>1
        <5> QED
          BY <2>1, <5>1, <5>2
      <4> QED
        BY <1>3, <3>2, <4>2 DEF CallsFollowed, CallsRecorded
    <3> QED
      BY <3>1, <3>2
  <2> QED
    BY <1>4, <2>2, SameProgram DEF CallsRecorded, CallOf
<1>15. RootFirst'
  <2>1. started
    BY <1>4 DEF IInv, Untouched
  <2> QED
    BY <1>3, <1>4, <2>1 DEF CallsFollowed, RootFirst
<1> QED
  BY <1>11, <1>12, <1>13, <1>14, <1>15 DEF CallsFollowed

LEMMA RootFollows ==
  ASSUME IInv, CallsFollowed, EnterRoot
  PROVE  CallsFollowed'
<1>1. PICK r : /\ r = prog.root
               /\ r \in Listed
               /\ visited' = {r}
               /\ prog' = prog
               /\ started'
               /\ out' = <<CallOf(r)>>
  BY ProgramsAssumption DEF IInv, TypeOK, IsProgram, Listed, EnterRoot
<1>2. PICK new : new = NewFrame(r, {r}, seed) /\ stack' = <<new>>
  BY <1>1 DEF EnterRoot
<1>3. new.fn = r /\ new.line = 1 /\ new.idx = 0 /\ Len(stack') = 1 /\ stack'[1] = new
  BY <1>2 DEF NewFrame
<1>4. prog \in Programs
  BY DEF IInv, TypeOK
<1>5. FramesLookedUp'
  <2>1. OutsideLoops(new)'
    <3>1. \A h \in 1..Len(LinesOf(r)) : ~(h < 1)
      BY <1>1, <1>4, ProgramShape
    <3> QED
      BY <1>1, <1>3, <3>1, SameProgram DEF OutsideLoops
  <2>2. CalleesVisited(new)'
    <3>1. \A l \in 1..Len(LinesOf(r)) :
            \A i \in 1..Len(LinesOf(r)[l].calls) : ~LookedAt(new, l, i)
      BY <1>1, <1>3, <1>4, ProgramShape DEF LookedAt
    <3> QED
      BY <1>1, <1>3, <3>1, SameProgram DEF CalleesVisited, LookedAt
  <2>3. PICK st : st = stack' /\ \A k \in 1..Len(stack') : st[k] = new
    BY <1>3
  <2> QED
    BY <1>1, <1>3, <2>1, <2>2, <2>3 DEF FramesLookedUp
<1>6. LeftBehind'
  BY <1>1, <1>3 DEF LeftBehind
<1>7. OnlyReached'
  BY <1>1, SameProgram DEF OnlyReached, ReachableFrom
<1>8. CallsRecorded'
  <2>1. ASSUME NEW f \in Listed
        PROVE  f \in {r} <=> CallOf(r) = CallOf(f)
    BY DEF CallOf
  <2>2. Len(out') = 1 /\ out'[1] = CallOf(r)
    BY <1>1
  <2>3. \A f : (\E i \in 1..Len(out') : out'[i] = CallOf(f)) <=> CallOf(r) = CallOf(f)
    BY <2>2
  <2> QED
    BY <1>1, <2>1, <2>3, SameProgram DEF CallsRecorded, CallOf
<1>9. RootFirst'
  BY <1>1 DEF RootFirst
<1> QED
  BY <1>5, <1>6, <1>7, <1>8, <1>9 DEF CallsFollowed

LEMMA PopFollows ==
  ASSUME IInv, CallsFollowed, LeaveFunction, SameCalls
  PROVE  CallsFollowed'
<1>1. stack # <<>> /\ ~InBody /\ TypeOK /\ UNCHANGED <<prog, visited, started>>
  BY DEF LeaveFunction, IInv
<1>2. /\ Len(stack) \in Nat \ {0}
      /\ Len(stack') = Len(stack) - 1
      /\ \A k \in 1..Len(stack) - 1 : stack'[k] = stack[k]
      /\ Top.fn \in Listed
      /\ Top.line \in Nat
  BY <1>1, TopIs, BelowIs, PendingIs DEF LeaveFunction
<1>3. FramesLookedUp'
  <2>1. PICK st : st = stack' /\ \A k \in 1..Len(stack) - 1 : st[k] = stack[k]
    BY <1>2
  <2>2. ASSUME NEW k \in 1..Len(stack) - 1
        PROVE  st[k].fn \in visited' /\ OutsideLoops(st[k])' /\ CalleesVisited(st[k])'
    <3>1. PICK below : below = stack[k] /\ below = st[k]
      BY <2>1
    <3>0. k \in 1..Len(stack)
      BY <1>2
    <3>2. below.fn \in visited /\ OutsideLoops(below) /\ CalleesVisited(below)
      BY <3>0, <3>1 DEF CallsFollowed, FramesLookedUp
    <3>3. below.fn \in visited' /\ OutsideLoops(below)' /\ CalleesVisited(below)'
      BY <1>1, <3>2, FrameKeepsCallees
    <3> QED
      BY <3>1, <3>3
  <2> QED
    BY <1>2, <2>1, <2>2 DEF FramesLookedUp
<1>4. CallsOf(Top.fn) \subseteq visited
  <2>1. Len(LinesOf(Top.fn)) \in Nat
    BY <1>1, <1>2, ProgramShape DEF TypeOK
  <2>2. Top.line > Len(LinesOf(Top.fn))
    BY <1>1, <1>2, <2>1 DEF InBody
  <2>3. CalleesVisited(Top)
    BY <1>2 DEF CallsFollowed, FramesLookedUp, Top
  <2>4. PICK fr : fr = Top
    OBVIOUS
  <2> QED
    BY <1>2, <2>1, <2>2, <2>3, <2>4, PassedAllCalls
<1>5. LeftBehind'
  <2>1. ASSUME NEW f \in visited \cap Listed
        PROVE  (\E k \in 1..Len(stack) - 1 : stack'[k].fn = f) \/ CallsOf(f) \subseteq visited
    <3>1. CASE CallsOf(f) \subseteq visited
      BY <3>1
    <3>2. CASE \E k \in 1..Len(stack) : stack[k].fn = f
      <4>1. PICK k \in 1..Len(stack) : stack[k].fn = f
        BY <3>2
      <4>2. CASE k = Len(stack)
        BY <1>4, <4>1, <4>2 DEF Top
      <4>3. CASE k \in 1..Len(stack) - 1
        BY <1>2, <4>1, <4>3
      <4> QED
        BY <1>2, <4>2, <4>3
    <3> QED
      BY <3>1, <3>2 DEF CallsFollowed, LeftBehind
  <2> QED
    BY <1>1, <1>2, <2>1, SameProgram DEF LeftBehind
<1>6. OnlyReached'
  BY <1>1, SameProgram DEF CallsFollowed, OnlyReached
<1>7. CallsRecorded'
  BY <1>1, SameProgram DEF CallsFollowed, CallsRecorded, SameCalls, CallOf
<1>8. RootFirst'
  <2>1. started
    BY <1>1 DEF IInv, Untouched
  <2> QED
    BY <1>1, <2>1 DEF CallsFollowed, RootFirst
<1> QED
  BY <1>3, <1>5, <1>6, <1>7, <1>8 DEF CallsFollowed

(* The events other than calls leave the calls as they were. *)
LEMMA NoCallSameCalls ==
  ASSUME out \in Seq(Event), NEW t \in Seq(Event), out' = out \o t,
         \A i \in 1..Len(t) : t[i].kind # "call"
  PROVE  SameCalls
<1>1. /\ Len(out) \in Nat /\ Len(t) \in Nat
      /\ Len(out') = Len(out) + Len(t)
      /\ \A i \in 1..Len(out) + Len(t) :
           out'[i] = IF i <= Len(out) THEN out[i] ELSE t[i - Len(out)]
  BY ConcatProperties, LenProperties
<1>2. ASSUME NEW f \in Listed, NEW i \in 1..Len(out'), out'[i] = CallOf(f)
      PROVE  i \in 1..Len(out) /\ out[i] = CallOf(f)
  <2>1. i <= Len(out)
    <3>1. SUFFICES ASSUME ~(i <= Len(out)) PROVE FALSE
      OBVIOUS
    <3>2. i - Len(out) \in 1..Len(t) /\ out'[i] = t[i - Len(out)]
      BY <1>1, <3>1
    <3>3. out'[i].kind # "call"
      BY <3>2
    <3> QED
      BY <1>2, <3>3 DEF CallOf
  <2> QED
    BY <1>1, <1>2, <2>1
<1>3. \A i \in 1..Len(out) : i \in 1..Len(out') /\ out'[i] = out[i]
  BY <1>1
<1> QED
  BY <1>2, <1>3 DEF SameCalls

(* Steps of f on the lines of a loop from its header to before its closing. *)
StepsWithin(t, f, h, c) ==
  /\ t \in Seq(Event)
  /\ \A i \in 1..Len(t) :
       /\ t[i].kind = "step"
       /\ t[i].fn = f
       /\ t[i].line \in h..c - 1

LEMMA LoopEventsAreSteps ==
  ASSUME NEW f \in Name, NEW h \in Nat, NEW c \in Nat, c > h, NEW n \in 0..MaxIters
  PROVE  StepsWithin(LoopEvents(f, h, c, n), f, h, c)
<1>0. PICK t : t = LoopEvents(f, h, c, n)
  OBVIOUS
<1> DEFINE span == c - h
           count == IF n = MaxIters THEN n * span ELSE n * span + 1
<1>1. span \in Nat \ {0} /\ n \in Nat
  BY MaxItersAssumption
<1>2. n * span \in Nat
  BY <1>1
<1>3. count \in Nat
  BY <1>2
<1>4. t = [i \in 1..count |-> StepOf(f, h + ((i - 1) % span))]
  BY <1>0 DEF LoopEvents
<1>5. ASSUME NEW i \in 1..count
      PROVE  h + ((i - 1) % span) \in h..c - 1
  <2>1. PICK s \in Nat \ {0} : s = span
    BY <1>1
  <2>2. PICK q \in Nat : q = i - 1
    BY <1>3
  <2>3. q % s \in 0..s - 1
    BY <2>1, <2>2
  <2>4. PICK r \in 0..s - 1 : r = (i - 1) % span
    BY <2>1, <2>2, <2>3
  <2>5. h + r \in h..c - 1
    BY <2>1
  <2> QED
    BY <2>4, <2>5
<1> HIDE DEF count
<1>6. t \in Seq(Event)
  BY <1>0, LoopEventsAre
<1>7. Len(t) = count
  BY <1>3, <1>4
<1>8. \A i \in 1..count :
        /\ t[i].kind = "step"
        /\ t[i].fn = f
        /\ t[i].line = h + ((i - 1) % span)
  BY <1>4 DEF StepOf
<1> QED
  BY <1>0, <1>5, <1>6, <1>7, <1>8 DEF StepsWithin

(* A frame that is left adds its return, and before it at most the value. *)
LEMMA LeaveEvents ==
  ASSUME IInv, LeaveFunction
  PROVE  \E t \in Seq(Event) :
           /\ out' = out \o t
           /\ \A i \in 1..Len(t) : t[i].kind # "call" /\ t[i].kind # "step"
           /\ \A i \in 1..Len(t) : t[i].kind # "var" => t[i] = ReturnOf(Top.fn)
<1>1. stack # <<>> /\ TypeOK
  BY DEF LeaveFunction, IInv
<1>2. Top.fn \in Name
  BY <1>1, PendingIs
<1>3. ReturnOf(Top.fn) \in Event /\ ReturnOf(Top.fn).kind = "return"
  BY <1>2 DEF ReturnOf, Event
<1>4. CASE Surfaces(Top) /\ pending # NoName
  <2>1. PICK t : t = <<ValueOf(pending), ReturnOf(Top.fn)>>
    OBVIOUS
  <2>2. pending \in Name
    BY <1>1, <1>4, ProgramShape DEF TypeOK
  <2>3. ValueOf(pending) \in Event /\ ValueOf(pending).kind = "var"
    BY <2>2 DEF ValueOf, Event
  <2>4. t \in Seq(Event) /\ Len(t) = 2 /\ t[1] = ValueOf(pending) /\ t[2] = ReturnOf(Top.fn)
    BY <1>3, <2>1, <2>3
  <2>5. out' = out \o t
    BY <1>4, <2>1 DEF LeaveFunction
  <2>6. \A i \in 1..Len(t) : i = 1 \/ i = 2
    BY <2>4
  <2> QED
    BY <1>3, <2>3, <2>4, <2>5, <2>6
<1>5. CASE ~(Surfaces(Top) /\ pending # NoName)
  <2>1. PICK t : t = <<ReturnOf(Top.fn)>>
    OBVIOUS
  <2>2. t \in Seq(Event) /\ Len(t) = 1 /\ t[1] = ReturnOf(Top.fn)
    BY <1>3, <2>1
  <2>3. out' = out \o t
    BY <1>1, <1>3, <1>5, <2>1, AppendIsConcat DEF LeaveFunction, TypeOK
  <2>4. \A i \in 1..Len(t) : i = 1
    BY <2>2
  <2> QED
    BY <1>3, <2>2, <2>3, <2>4
<1> QED
  BY <1>4, <1>5

LEMMA InitFollows == Init => CallsFollowed
<1> SUFFICES ASSUME Init PROVE CallsFollowed
  OBVIOUS
<1>1. Len(stack) = 0 /\ Len(out) = 0 /\ visited = {} /\ out = <<>> /\ ~started
  BY EmptySeq DEF Init
<1>2. FramesLookedUp
  BY <1>1 DEF FramesLookedUp
<1>3. LeftBehind /\ OnlyReached /\ CallsRecorded /\ RootFirst
  BY <1>1 DEF LeftBehind, OnlyReached, CallsRecorded, RootFirst
<1> QED
  BY <1>2, <1>3 DEF CallsFollowed

LEMMA NextFollows == IInv /\ CallsFollowed /\ [Next]_vars => CallsFollowed'
<1> SUFFICES ASSUME IInv, CallsFollowed, [Next]_vars PROVE CallsFollowed'
  OBVIOUS
<1>1. out \in Seq(Event) /\ prog \in Programs
  BY DEF IInv, TypeOK
<1>2. CASE EnterRoot
  BY <1>2, RootFollows
<1>3. CASE SimulateLoop
  <2>1. PICK fr : fr = [Top EXCEPT !.line = CurrentLine.close + 1]
    OBVIOUS
  <2>2. MovesTo(fr) /\ stack' = WithTop(fr)
    BY <1>3, <2>1, SimulateLoopMoves DEF SimulateLoop
  <2>3. stack # <<>> /\ UNCHANGED <<prog, visited, started>>
    BY <1>3 DEF SimulateLoop, AtLoop, AtNewLine, InBody
  <2>4. SameCalls
    <3>1. PICK n \in 0..MaxIters :
            out' = out \o LoopEvents(Top.fn, Top.line, CurrentLine.close, n)
      BY <1>3 DEF SimulateLoop
    <3>2. PICK t : t = LoopEvents(Top.fn, Top.line, CurrentLine.close, n)
      OBVIOUS
    <3>3. TypeOK /\ InBody
      BY <1>3 DEF IInv, SimulateLoop, AtLoop, AtNewLine
    <3>4. /\ Top.fn \in Name
          /\ Top.line \in Nat
          /\ CurrentLine.close \in Nat
          /\ CurrentLine.close > Top.line
      BY <1>3, <2>3, <3>3, PendingIs DEF SimulateLoop, AtLoop
    <3>5. t \in Seq(Event) /\ \A i \in 1..Len(t) : t[i].kind # "call"
      BY <3>2, <3>4, LoopEventsAreSteps DEF StepsWithin
    <3> QED
      BY <1>1, <3>1, <3>2, <3>5, NoCallSameCalls
  <2> QED
    BY <2>2, <2>3, <2>4, MoveFollows
<1>4. CASE SkipBlankLine
  <2>1. PICK fr : fr = [Top EXCEPT !.line = @ + 1]
    OBVIOUS
  <2>2. MovesTo(fr) /\ stack' = WithTop(fr)
    BY <1>4, <2>1, SkipBlankLineMoves DEF SkipBlankLine
  <2>3. stack # <<>> /\ UNCHANGED <<prog, visited, started>>
    BY <1>4 DEF SkipBlankLine, AtNewLine, InBody
  <2>4. SameCalls
    BY <1>4 DEF SkipBlankLine, SameCalls
  <2> QED
    BY <2>2, <2>3, <2>4, MoveFollows
<1>5. CASE StepLine
  <2>1. PICK fr : fr = [Top EXCEPT !.idx = 1]
    OBVIOUS
  <2>2. MovesTo(fr) /\ stack' = WithTop(fr)
    BY <1>5, <2>1, StepLineMoves DEF StepLine
  <2>3. stack # <<>> /\ UNCHANGED <<prog, visited, started>>
    BY <1>5 DEF StepLine, AtNewLine, InBody
  <2>4. SameCalls
    <3>1. PICK t : t = Repeat(StepOf(Top.fn, Top.line), CurrentLine.stmts) /\ out' = out \o t
      BY <1>5 DEF StepLine
    <3>2. TypeOK /\ InBody
      BY <1>5 DEF IInv, StepLine, AtNewLine
    <3>3. Top.fn \in Name /\ Top.line \in Nat /\ CurrentLine.stmts \in Nat
      BY <2>3, <3>2, PendingIs
    <3>4. t \in Seq(Event)
      BY <3>1, <3>3, EventsAre
    <3>5. \A i \in 1..Len(t) : t[i].kind # "call"
      BY <3>1, <3>3 DEF Repeat, StepOf
    <3> QED
      BY <1>1, <3>1, <3>4, <3>5, NoCallSameCalls
  <2> QED
    BY <2>2, <2>3, <2>4, MoveFollows
<1>6. CASE SkipCallee
  <2>1. PICK fr : fr = PastCallee(Top)
    OBVIOUS
  <2>2. MovesTo(fr) /\ stack' = WithTop(fr)
    BY <1>6, <2>1, PastCalleeMoves DEF SkipCallee
  <2>3. stack # <<>> /\ UNCHANGED <<prog, started>>
    BY <1>6 DEF SkipCallee, HasCallee, AtCalls, InBody
  <2>4. visited \subseteq visited' /\ visited' \cap Listed = visited \cap Listed
    BY <1>6 DEF SkipCallee
  <2>5. SameCalls
    BY <1>6 DEF SkipCallee, SameCalls
  <2> QED
    BY <2>2, <2>3, <2>4, <2>5, MoveFollows
<1>7. CASE EnterCallee
  BY <1>7, PushFollows
<1>8. CASE EndLine
  <2>1. PICK fr : fr = [Top EXCEPT !.line = @ + 1, !.idx = 0]
    OBVIOUS
  <2>2. MovesTo(fr) /\ stack' = WithTop(fr)
    BY <1>8, <2>1, EndLineMoves DEF EndLine
  <2>3. stack # <<>> /\ UNCHANGED <<prog, visited, started>>
    BY <1>8 DEF EndLine, AtCalls, InBody
  <2>4. SameCalls
    BY <1>8 DEF EndLine, SameCalls
  <2> QED
    BY <2>2, <2>3, <2>4, MoveFollows
<1>9. CASE LeaveFunction
  <2>1. PICK t : t \in Seq(Event) /\ out' = out \o t /\ \A i \in 1..Len(t) : t[i].kind # "call"
    BY <1>9, LeaveEvents
  <2>2. SameCalls
    BY <1>1, <2>1, NoCallSameCalls
  <2> QED
    BY <1>9, <2>2, PopFollows
<1>10. CASE UNCHANGED vars
  BY <1>10, SameProgram
  DEF vars, CallsFollowed, FramesLookedUp, OutsideLoops, CalleesVisited, LookedAt,
      LeftBehind, OnlyReached, CallsRecorded, RootFirst, CallOf
<1> QED
  BY <1>2, <1>3, <1>4, <1>5, <1>6, <1>7, <1>8, <1>9, <1>10 DEF Next

LEMMA CallsAreFollowed == Spec => []CallsFollowed
BY InitFollows, NextFollows, FramesDisciplined, PTL DEF Spec

(* At the end no frame is open, so the visited functions are closed under calls. *)
LEMMA FollowedToTheEnd == IInv /\ CallsFollowed => ReachesCallGraph
<1> SUFFICES ASSUME IInv, CallsFollowed, Finished
             PROVE  Called = ReachableFrom(prog.root)
  BY DEF ReachesCallGraph
<1>1. Len(stack) = 0 /\ started /\ prog.root \in Listed
  BY ProgramsAssumption DEF Finished, IInv, TypeOK, IsProgram, Listed
<1>2. Called = visited \cap Listed
  BY DEF Called, CallsFollowed, CallsRecorded
<1>3. visited \cap Listed \subseteq ReachableFrom(prog.root)
  BY DEF CallsFollowed, OnlyReached
<1>4. prog.root \in visited \cap Listed
  BY <1>1 DEF CallsFollowed, RootFirst
<1>5. \A f \in visited \cap Listed : CallsOf(f) \cap Listed \subseteq visited \cap Listed
  BY <1>1 DEF CallsFollowed, LeftBehind
<1>6. ReachableFrom(prog.root) \subseteq visited \cap Listed
  <2>1. PICK S \in SUBSET Listed : S = visited \cap Listed
    OBVIOUS
  <2> QED
    BY <1>4, <1>5, <2>1 DEF ReachableFrom
<1> QED
  BY <1>2, <1>3, <1>6

(***************************************************************************)
(* For every program, cycles and unlisted names included, the finished     *)
(* walk has called exactly the functions reachable from the root through   *)
(* lines outside replayed loops.                                           *)
(***************************************************************************)
THEOREM WalkReachesCallGraph == Spec => []ReachesCallGraph
BY FramesDisciplined, CallsAreFollowed, FollowedToTheEnd, PTL

-----------------------------------------------------------------------------
(***************************************************************************)
(* The bodies are complete.  A frame writes all the steps of a line when   *)
(* it passes the line's head, the loops it replays write only lines that   *)
(* are set aside, and what other frames write in between is not its own.   *)
(***************************************************************************)

(* Until a function is entered nothing of it is recorded. *)
OnlyVisitedRecorded ==
  \A i \in 1..Len(out) : out[i].kind # "var" => out[i].fn \in visited

(* A function is open once, and while it is it has not returned. *)
OpenOnce ==
  \A k \in 1..Len(stack) :
    /\ \A m \in 1..Len(stack) : stack[m].fn = stack[k].fn => m = k
    /\ \A i \in 1..Len(out) : out[i] # ReturnOf(stack[k].fn)

(* The lines an open frame has passed are recorded, the others are not. *)
LinesWritten(frame) ==
  \A l \in 1..Len(LinesOf(frame.fn)) :
    ~InReplayedLoop(frame.fn, l) =>
      IF Walked(frame, l) /\ ~LinesOf(frame.fn)[l].blank
      THEN Cardinality(StepsAt(frame.fn, l)) = LinesOf(frame.fn)[l].stmts
      ELSE StepsAt(frame.fn, l) = {}

BodyOpen(frame) ==
  /\ StepsOnItsLines(frame.fn)
  /\ StepsInOrder(frame.fn)
  /\ LinesWritten(frame)

BodiesOpen == \A k \in 1..Len(stack) : BodyOpen(stack[k])

(* A function that has been left is recorded completely. *)
BodiesLeft ==
  \A f \in visited \cap Listed :
    (\E k \in 1..Len(stack) : stack[k].fn = f) \/ BodyComplete(f)

BodiesFollowed ==
  /\ OnlyVisitedRecorded
  /\ OpenOnce
  /\ BodiesOpen
  /\ BodiesLeft

(* A step is known by its function and its line. *)
LEMMA StepIs ==
  ASSUME NEW e \in Event, e.kind = "step"
  PROVE  e = StepOf(e.fn, e.line)
  BY DEF Event, StepOf

LEMMA ExtendedOut ==
  ASSUME out \in Seq(Event), NEW t \in Seq(Event), out' = out \o t
  PROVE  /\ Len(out) \in Nat
         /\ Len(t) \in Nat
         /\ Len(out') = Len(out) + Len(t)
         /\ \A i \in 1..Len(out) : i \in 1..Len(out') /\ out'[i] = out[i]
         /\ \A i \in 1..Len(out') :
              \/ i \in 1..Len(out)
              \/ i > Len(out) /\ i - Len(out) \in 1..Len(t) /\ out'[i] = t[i - Len(out)]
<1>1. /\ Len(out) \in Nat /\ Len(t) \in Nat
      /\ Len(out') = Len(out) + Len(t)
      /\ \A i \in 1..Len(out) + Len(t) :
           out'[i] = IF i <= Len(out) THEN out[i] ELSE t[i - Len(out)]
  BY ConcatProperties, LenProperties
<1>2. ASSUME NEW i \in 1..Len(out)
      PROVE  i \in 1..Len(out') /\ out'[i] = out[i]
  BY <1>1
<1>3. ASSUME NEW i \in 1..Len(out')
      PROVE  \/ i \in 1..Len(out)
             \/ i > Len(out) /\ i - Len(out) \in 1..Len(t) /\ out'[i] = t[i - Len(out)]
  BY <1>1
<1> QED
  BY <1>1, <1>2, <1>3

(***************************************************************************)
(* Events that are no body steps of a function leave its body as it was.   *)
(***************************************************************************)
LEMMA BodyUntouched ==
  ASSUME out \in Seq(Event), prog' = prog, NEW t \in Seq(Event), out' = out \o t,
         NEW f, \A i \in 1..Len(t) : ~IsBodyStep(f, t[i])
  PROVE  /\ StepsInOrder(f) => StepsInOrder(f)'
         /\ \A l : ~InReplayedLoop(f, l) => StepsAt(f, l)' = StepsAt(f, l)
<1>1. /\ \A i \in 1..Len(out) : i \in 1..Len(out') /\ out'[i] = out[i]
      /\ \A i \in 1..Len(out') :
              \/ i \in 1..Len(out)
              \/ i - Len(out) \in 1..Len(t) /\ out'[i] = t[i - Len(out)]
  BY ExtendedOut
<1>2. PICK o : o = out'
  OBVIOUS
<1>3. \A i \in 1..Len(o) : IsBodyStep(f, o[i]) => i \in 1..Len(out) /\ o[i] = out[i]
  BY <1>1, <1>2
<1>4. \A e : IsBodyStep(f, e)' <=> IsBodyStep(f, e)
  BY SameProgram DEF IsBodyStep
<1>5. ASSUME StepsInOrder(f)
      PROVE  StepsInOrder(f)'
  <2>1. ASSUME NEW i \in 1..Len(o), NEW j \in 1..Len(o), i < j,
               IsBodyStep(f, o[i]), IsBodyStep(f, o[j])
        PROVE  o[i].line <= o[j].line
    <3>1. i \in 1..Len(out) /\ o[i] = out[i] /\ j \in 1..Len(out) /\ o[j] = out[j]
      BY <1>3, <2>1
    <3>2. PICK d, e : d = o[i] /\ e = o[j]
      OBVIOUS
    <3> QED
      BY <1>5, <2>1, <3>1, <3>2 DEF StepsInOrder, IsBodyStep
  <2> QED
    BY <1>2, <1>4, <2>1 DEF StepsInOrder
<1>6. ASSUME NEW l, ~InReplayedLoop(f, l)
      PROVE  StepsAt(f, l)' = StepsAt(f, l)
  <2>1. IsBodyStep(f, StepOf(f, l))
    BY <1>6 DEF IsBodyStep, StepOf
  <2>2. StepsAt(f, l)' = {i \in 1..Len(o) : o[i] = StepOf(f, l)}
    BY <1>2 DEF StepsAt, StepOf
  <2> QED
    BY <1>1, <1>2, <1>3, <2>1, <2>2 DEF StepsAt
<1> QED
  BY <1>5, <1>6

LEMMA LinesUntouched ==
  ASSUME out \in Seq(Event), prog' = prog, NEW t \in Seq(Event), out' = out \o t,
         NEW f, \A i \in 1..Len(t) : ~(t[i].kind = "step" /\ t[i].fn = f),
         StepsOnItsLines(f)
  PROVE  StepsOnItsLines(f)'
<1>1. \A i \in 1..Len(out') :
         \/ i \in 1..Len(out) /\ out'[i] = out[i]
         \/ i - Len(out) \in 1..Len(t) /\ out'[i] = t[i - Len(out)]
  BY ExtendedOut
<1> QED
  BY <1>1, SameProgram DEF StepsOnItsLines

(* Two positions of a frame that have passed the same lines with steps. *)
PassedAlike(fr, to) ==
  /\ to.fn = fr.fn
  /\ \A l \in 1..Len(LinesOf(fr.fn)) :
       LinesOf(fr.fn)[l].blank \/ (Walked(to, l) <=> Walked(fr, l))

(* A frame moves from one line to another without recording a step. *)
LEMMA BodyMoved ==
  ASSUME out \in Seq(Event), prog' = prog, NEW t \in Seq(Event), out' = out \o t,
         NEW fr, BodyOpen(fr), NEW to, PassedAlike(fr, to),
         \A i \in 1..Len(t) : ~(t[i].kind = "step" /\ t[i].fn = fr.fn)
  PROVE  BodyOpen(to)'
<1>1. PICK f : f = fr.fn /\ f = to.fn
  BY DEF PassedAlike
<1>2. \A i \in 1..Len(t) : ~IsBodyStep(f, t[i])
  BY <1>1 DEF IsBodyStep
<1>3. /\ StepsInOrder(f) => StepsInOrder(f)'
      /\ \A l : ~InReplayedLoop(f, l) => StepsAt(f, l)' = StepsAt(f, l)
  BY <1>2, BodyUntouched
<1>4. StepsInOrder(to.fn)' /\ StepsOnItsLines(to.fn)'
  <2>1. StepsInOrder(f) /\ StepsOnItsLines(f)
    BY <1>1 DEF BodyOpen
  <2>2. StepsInOrder(f)' /\ StepsOnItsLines(f)'
    BY <1>1, <1>3, <2>1, LinesUntouched
  <2> QED
    BY <1>1, <2>2
<1>5. LinesWritten(to)'
  <2>1. ASSUME NEW l \in 1..Len(LinesOf(f)), ~InReplayedLoop(f, l)
        PROVE  IF Walked(to, l) /\ ~LinesOf(f)[l].blank
               THEN Cardinality(StepsAt(f, l)') = LinesOf(f)[l].stmts
               ELSE StepsAt(f, l)' = {}
    <3>1. IF Walked(fr, l) /\ ~LinesOf(f)[l].blank
          THEN Cardinality(StepsAt(f, l)) = LinesOf(f)[l].stmts
          ELSE StepsAt(f, l) = {}
      BY <1>1, <2>1 DEF BodyOpen, LinesWritten
    <3>2. StepsAt(f, l)' = StepsAt(f, l)
      BY <1>3, <2>1
    <3>3. Walked(to, l) /\ ~LinesOf(f)[l].blank <=> Walked(fr, l) /\ ~LinesOf(f)[l].blank
      BY <1>1 DEF PassedAlike
    <3> QED
      BY <3>1, <3>2, <3>3
  <2>2. \A l : Walked(to, l)' <=> Walked(to, l)
    BY DEF Walked
  <2>3. to.fn = f
    BY <1>1
  <2> QED
    BY <2>1, <2>2, <2>3, SameProgram DEF LinesWritten
<1> QED
  BY <1>4, <1>5 DEF BodyOpen

LEMMA CompleteKept ==
  ASSUME out \in Seq(Event), prog' = prog, NEW t \in Seq(Event), out' = out \o t,
         NEW f, \A i \in 1..Len(t) : ~(t[i].kind = "step" /\ t[i].fn = f),
         BodyComplete(f)
  PROVE  BodyComplete(f)'
<1>1. \A i \in 1..Len(t) : ~IsBodyStep(f, t[i])
  BY DEF IsBodyStep
<1>2. /\ StepsInOrder(f)'
      /\ \A l : ~InReplayedLoop(f, l) => StepsAt(f, l)' = StepsAt(f, l)
  BY <1>1, BodyUntouched DEF BodyComplete
<1>3. StepsOnItsLines(f)'
  BY LinesUntouched DEF BodyComplete
<1>4. StepsAreAll(f)'
  BY <1>2, SameProgram DEF BodyComplete, StepsAreAll
<1> QED
  BY <1>2, <1>3, <1>4 DEF BodyComplete

(***************************************************************************)
(* The frames that stay on the stack, and the functions that have left it. *)
(***************************************************************************)
LEMMA BodiesMove ==
  ASSUME IInv, CallsFollowed, BodiesFollowed, stack # <<>>, prog' = prog,
         NEW fr \in Frame, fr.fn = Top.fn, stack' = WithTop(fr),
         visited \subseteq visited', visited' \cap Listed = visited \cap Listed,
         NEW t \in Seq(Event), out' = out \o t,
         \A i \in 1..Len(t) : t[i].kind = "step" /\ t[i].fn = fr.fn,
         BodyOpen(fr)'
  PROVE  BodiesFollowed'
<1>1. /\ Len(stack) \in Nat \ {0}
      /\ Len(stack') = Len(stack)
      /\ stack'[Len(stack)] = fr
      /\ \A k \in 1..Len(stack) - 1 : stack'[k] = stack[k]
      /\ out \in Seq(Event)
  BY TopIs, WithTopIs DEF IInv, TypeOK
<1>2. \A k \in 1..Len(stack) : k = Len(stack) \/ k \in 1..Len(stack) - 1
  BY <1>1
<1>3. \A k \in 1..Len(stack) : stack'[k].fn = stack[k].fn
  BY <1>1, <1>2 DEF Top
<1>4. /\ \A i \in 1..Len(out) : i \in 1..Len(out') /\ out'[i] = out[i]
      /\ \A i \in 1..Len(out') :
           \/ i \in 1..Len(out)
           \/ i - Len(out) \in 1..Len(t) /\ out'[i] = t[i - Len(out)]
  BY <1>1, ExtendedOut
<1>5. PICK n : n = Len(stack) /\ n \in 1..Len(stack) /\ stack[n].fn = fr.fn
  BY <1>1 DEF Top
<1>6. fr.fn \in visited
  BY <1>5 DEF CallsFollowed, FramesLookedUp
<1>7. OnlyVisitedRecorded'
  <2>1. ASSUME NEW i \in 1..Len(out'), out'[i].kind # "var"
        PROVE  out'[i].fn \in visited'
    BY <1>4, <1>6, <2>1 DEF BodiesFollowed, OnlyVisitedRecorded
  <2> QED
    BY <2>1 DEF OnlyVisitedRecorded
<1>8. OpenOnce'
  <2>1. ASSUME NEW k \in 1..Len(stack), NEW i \in 1..Len(out')
        PROVE  out'[i] # ReturnOf(stack[k].fn)
    <3>1. CASE i \in 1..Len(out)
      BY <1>4, <3>1 DEF BodiesFollowed, OpenOnce
    <3>2. CASE i - Len(out) \in 1..Len(t) /\ out'[i] = t[i - Len(out)]
      BY <3>2 DEF ReturnOf
    <3> QED
      BY <1>4, <3>1, <3>2
  <2> QED
    BY <1>1, <1>3, <2>1 DEF BodiesFollowed, OpenOnce, ReturnOf
<1>9. BodiesOpen'
  <2>1. PICK st : st = stack'
    OBVIOUS
  <2>2. ASSUME NEW k \in 1..Len(stack)
        PROVE  BodyOpen(st[k])'
    <3>1. CASE k = Len(stack)
      BY <1>1, <2>1, <3>1
    <3>2. CASE k \in 1..Len(stack) - 1
      <4>1. PICK below : below = stack[k] /\ below = st[k]
        BY <1>1, <2>1, <3>2
      <4>2. k # n
        BY <1>1, <1>5, <3>2
      <4>3. below.fn # fr.fn
        BY <1>5, <4>1, <4>2 DEF BodiesFollowed, OpenOnce
      <4>4. BodyOpen(below)
        BY <4>1 DEF BodiesFollowed, BodiesOpen
      <4>5. \A i \in 1..Len(t) : ~(t[i].kind = "step" /\ t[i].fn = below.fn)
        BY <4>3
      <4>6. PassedAlike(below, below)
        BY DEF PassedAlike
      <4>7. BodyOpen(below)'
        BY <1>1, <4>4, <4>5, <4>6, BodyMoved
      <4> QED
        BY <4>1, <4>7
    <3> QED
      BY <1>2, <3>1, <3>2
  <2> QED
    BY <1>1, <2>1, <2>2 DEF BodiesOpen
<1>10. BodiesLeft'
  <2>1. ASSUME NEW f \in visited \cap Listed
        PROVE  (\E k \in 1..Len(stack) : stack[k].fn = f) \/ BodyComplete(f)'
    <3>1. CASE \E k \in 1..Len(stack) : stack[k].fn = f
      BY <3>1
    <3>2. CASE ~\E k \in 1..Len(stack) : stack[k].fn = f
      <4>1. BodyComplete(f)
        BY <3>2 DEF BodiesFollowed, BodiesLeft
      <4>2. f # fr.fn
        BY <1>5, <3>2
      <4>3. \A i \in 1..Len(t) : ~(t[i].kind = "step" /\ t[i].fn = f)
        BY <4>2
      <4> QED
        BY <1>1, <4>1, <4>3, CompleteKept
    <3> QED
      BY <3>1, <3>2
  <2> QED
    BY <1>1, <1>3, <2>1, SameProgram DEF BodiesLeft
<1> QED
  BY <1>7, <1>8, <1>9, <1>10 DEF BodiesFollowed

(* Moving without recording anything. *)
LEMMA QuietMove ==
  ASSUME IInv, CallsFollowed, BodiesFollowed, stack # <<>>, prog' = prog,
         NEW fr \in Frame, fr.fn = Top.fn, stack' = WithTop(fr),
         visited \subseteq visited', visited' \cap Listed = visited \cap Listed,
         out' = out,
         \A l \in 1..Len(LinesOf(fr.fn)) :
           LinesOf(fr.fn)[l].blank \/ (Walked(fr, l) <=> Walked(Top, l))
  PROVE  BodiesFollowed'
<1>1. Len(stack) \in Nat \ {0} /\ out \in Seq(Event)
  BY TopIs DEF IInv, TypeOK
<1>2. PICK t : t = <<>> /\ t \in Seq(Event) /\ out' = out \o t /\ Len(t) = 0
  BY <1>1, ConcatEmptySeq, EmptySeq
<1>3. PICK top : top = Top
  OBVIOUS
<1>4. BodyOpen(top)
  BY <1>1, <1>3 DEF BodiesFollowed, BodiesOpen, Top
<1>5. PassedAlike(top, fr)
  <2>1. top.fn = fr.fn
    BY <1>3
  <2> QED
    BY <1>3, <2>1 DEF PassedAlike, Walked
<1>6. BodyOpen(fr)'
  <2>1. \A i \in 1..Len(t) : ~(t[i].kind = "step" /\ t[i].fn = top.fn)
    BY <1>2
  <2> QED
    BY <1>1, <1>2, <1>4, <1>5, <2>1, BodyMoved
<1>7. \A i \in 1..Len(t) : t[i].kind = "step" /\ t[i].fn = fr.fn
  BY <1>2
<1> QED
  BY <1>2, <1>6, <1>7, BodiesMove

LEMMA SkipBlankLineBodies ==
  ASSUME IInv, CallsFollowed, BodiesFollowed, SkipBlankLine
  PROVE  BodiesFollowed'
<1>1. PICK fr : fr = [Top EXCEPT !.line = @ + 1]
  OBVIOUS
<1>2. stack # <<>> /\ InBody /\ TypeOK /\ prog \in Programs
  BY DEF SkipBlankLine, AtNewLine, InBody, IInv, TypeOK
<1>3. /\ Top \in Frame
      /\ Top.fn \in Listed
      /\ Top.line \in Nat
      /\ Top.line \in 1..Len(LinesOf(Top.fn))
      /\ Top.idx = 0
  BY <1>2, TopIs, PendingIs DEF SkipBlankLine, AtNewLine
<1>4. /\ fr \in Frame
      /\ fr.fn = Top.fn
      /\ fr.line = Top.line + 1
      /\ fr.idx = 0
  BY <1>1, <1>3 DEF Frame
<1>5. ASSUME NEW l \in 1..Len(LinesOf(fr.fn))
      PROVE  LinesOf(fr.fn)[l].blank \/ (Walked(fr, l) <=> Walked(Top, l))
  <2>1. l \in Nat
    BY <1>2, <1>3, <1>4, LineShape
  <2>2. CASE l = Top.line
    BY <1>4, <2>2 DEF SkipBlankLine, CurrentLine
  <2>3. CASE l # Top.line
    BY <1>3, <1>4, <2>1, <2>3 DEF Walked
  <2> QED
    BY <2>2, <2>3
<1>6. /\ stack' = WithTop(fr)
      /\ UNCHANGED <<prog, visited, out>>
  BY <1>1 DEF SkipBlankLine
<1> QED
  BY <1>2, <1>4, <1>5, <1>6, QuietMove

LEMMA SkipCalleeBodies ==
  ASSUME IInv, CallsFollowed, BodiesFollowed, SkipCallee
  PROVE  BodiesFollowed'
<1>1. PICK fr : fr = PastCallee(Top)
  OBVIOUS
<1>2. stack # <<>> /\ HasCallee /\ TypeOK
  BY DEF SkipCallee, HasCallee, AtCalls, InBody, IInv
<1>3. /\ Top \in Frame
      /\ Top.line \in Nat
      /\ Top.idx \in Nat \ {0}
  BY <1>2, TopIs, PendingIs DEF HasCallee, AtCalls
<1>4. /\ fr \in Frame
      /\ fr.fn = Top.fn
      /\ fr.line = Top.line
      /\ fr.idx = Top.idx + 1
  BY <1>1, <1>3 DEF Frame, PastCallee
<1>5. \A l : Walked(fr, l) <=> Walked(Top, l)
  BY <1>3, <1>4 DEF Walked
<1>6. /\ stack' = WithTop(fr)
      /\ UNCHANGED <<prog, out>>
      /\ visited \subseteq visited'
      /\ visited' \cap Listed = visited \cap Listed
  BY <1>1 DEF SkipCallee
<1> QED
  BY <1>2, <1>4, <1>5, <1>6, QuietMove

LEMMA EndLineBodies ==
  ASSUME IInv, CallsFollowed, BodiesFollowed, EndLine
  PROVE  BodiesFollowed'
<1>1. PICK fr : fr = [Top EXCEPT !.line = @ + 1, !.idx = 0]
  OBVIOUS
<1>2. stack # <<>> /\ InBody /\ TypeOK /\ prog \in Programs
  BY DEF EndLine, AtCalls, InBody, IInv, TypeOK
<1>3. /\ Top \in Frame
      /\ Top.fn \in Listed
      /\ Top.line \in Nat
      /\ Top.idx \in Nat \ {0}
  BY <1>2, TopIs, PendingIs DEF EndLine, AtCalls
<1>4. /\ fr \in Frame
      /\ fr.fn = Top.fn
      /\ fr.line = Top.line + 1
      /\ fr.idx = 0
  <2>1. [Top EXCEPT !.line = @ + 1] \in Frame
    BY <1>3 DEF Frame
  <2>2. [[Top EXCEPT !.line = @ + 1] EXCEPT !.idx = 0] \in Frame
    BY <2>1 DEF Frame
  <2> QED
    BY <1>1, <1>3, <2>2 DEF Frame
<1>5. ASSUME NEW l \in 1..Len(LinesOf(fr.fn))
      PROVE  Walked(fr, l) <=> Walked(Top, l)
  <2>1. l \in Nat
    BY <1>2, <1>3, <1>4, LineShape
  <2> QED
    BY <1>3, <1>4, <2>1 DEF Walked
<1>6. /\ stack' = WithTop(fr)
      /\ UNCHANGED <<prog, visited, out>>
  BY <1>1 DEF EndLine
<1> QED
  BY <1>2, <1>4, <1>5, <1>6, QuietMove

(***************************************************************************)
(* The two actions that record steps.                                      *)
(***************************************************************************)
LEMMA SimulateLoopBodies ==
  ASSUME IInv, CallsFollowed, BodiesFollowed, SimulateLoop
  PROVE  BodiesFollowed'
<1>1. PICK fr : fr = [Top EXCEPT !.line = CurrentLine.close + 1]
  OBVIOUS
<1>2. stack # <<>> /\ InBody /\ TypeOK /\ prog \in Programs /\ out \in Seq(Event)
  BY DEF SimulateLoop, AtLoop, AtNewLine, InBody, IInv, TypeOK
<1>3. PICK f \in Listed : f = Top.fn
  BY <1>2, TopIs
<1>4. PICK h \in 1..Len(LinesOf(f)) : h = Top.line /\ h \in Nat
  BY <1>2, <1>3, PendingIs
<1>5. PICK c \in Nat : /\ c = CurrentLine.close
                       /\ c = LinesOf(f)[h].close
                       /\ c > h
                       /\ c <= Len(LinesOf(f))
                       /\ LinesOf(f)[h].sim
  BY <1>2, <1>3, <1>4, LineShape DEF SimulateLoop, AtLoop, CurrentLine
<1>6. /\ Top \in Frame
      /\ Top.idx = 0
      /\ Len(stack) \in Nat \ {0}
      /\ Len(LinesOf(f)) \in Nat
      /\ f \in Name
  BY <1>2, <1>3, TopIs, ProgramShape DEF SimulateLoop, AtLoop, AtNewLine
<1>7. /\ fr \in Frame
      /\ fr.fn = f
      /\ fr.line = c + 1
      /\ fr.idx = 0
  BY <1>1, <1>3, <1>4, <1>5, <1>6 DEF Frame
<1>8. PICK n \in 0..MaxIters : out' = out \o LoopEvents(f, h, c, n)
  BY <1>3, <1>4, <1>5 DEF SimulateLoop
<1>9. PICK t \in Seq(Event) : /\ out' = out \o t
                              /\ \A i \in 1..Len(t) :
                                   /\ t[i].kind = "step"
                                   /\ t[i].fn = f
                                   /\ t[i].line \in h..c - 1
  <2>1. PICK t : t = LoopEvents(f, h, c, n)
    OBVIOUS
  <2>2. StepsWithin(t, f, h, c)
    BY <1>4, <1>5, <1>6, <1>8, <2>1, LoopEventsAreSteps
  <2>3. out' = out \o t
    BY <1>8, <2>1
  <2> QED
    BY <2>2, <2>3 DEF StepsWithin
<1>10. ASSUME NEW l \in h..c
       PROVE  InReplayedLoop(f, l)
  <2>1. h \in 1..l /\ c >= l
    BY <1>4, <1>5
  <2> QED
    BY <1>5, <2>1 DEF InReplayedLoop
<1>11. \A i \in 1..Len(t) : ~IsBodyStep(f, t[i])
  <2>1. ASSUME NEW i \in 1..Len(t)
        PROVE  InReplayedLoop(f, t[i].line)
    <3>1. PICK l : l = t[i].line
      OBVIOUS
    <3>2. l \in h..c
      BY <1>4, <1>5, <1>9, <3>1
    <3>3. InReplayedLoop(f, l)
      BY <1>10, <3>2
    <3> QED
      BY <3>1, <3>3
  <2> QED
    BY <2>1 DEF IsBodyStep
<1>12. PICK top : top = Top /\ BodyOpen(top) /\ top.fn = f
  BY <1>3, <1>6 DEF BodiesFollowed, BodiesOpen, Top
<1>13. /\ StepsInOrder(f)'
       /\ \A l : ~InReplayedLoop(f, l) => StepsAt(f, l)' = StepsAt(f, l)
  BY <1>2, <1>9, <1>11, <1>12, BodyUntouched DEF SimulateLoop, BodyOpen
<1>14. StepsOnItsLines(f)'
  <2>1. PICK o : o = out'
    OBVIOUS
  <2>2. \A i \in 1..Len(o) :
          \/ i \in 1..Len(out) /\ o[i] = out[i]
          \/ i - Len(out) \in 1..Len(t) /\ o[i] = t[i - Len(out)]
    BY <1>2, <1>9, <2>1, ExtendedOut
  <2>3. ASSUME NEW i \in 1..Len(o), o[i].kind = "step", o[i].fn = f
        PROVE  o[i].line \in 1..Len(LinesOf(f))
    <3>1. CASE i \in 1..Len(out) /\ o[i] = out[i]
      BY <1>12, <2>3, <3>1 DEF BodyOpen, StepsOnItsLines
    <3>2. CASE i - Len(out) \in 1..Len(t) /\ o[i] = t[i - Len(out)]
      <4>1. PICK l : l = o[i].line /\ l \in h..c - 1
        BY <1>9, <3>2
      <4>2. l \in 1..Len(LinesOf(f))
        BY <1>4, <1>5, <1>6, <4>1
      <4> QED
        BY <4>1, <4>2
    <3> QED
      BY <2>2, <3>1, <3>2
  <2> QED
    BY <2>1, <2>3, SameProgram DEF StepsOnItsLines, SimulateLoop
<1>15. LinesWritten(fr)'
  <2>1. ASSUME NEW l \in 1..Len(LinesOf(f)), ~InReplayedLoop(f, l)
        PROVE  IF Walked(fr, l) /\ ~LinesOf(f)[l].blank
               THEN Cardinality(StepsAt(f, l)') = LinesOf(f)[l].stmts
               ELSE StepsAt(f, l)' = {}
    <3>1. IF Walked(top, l) /\ ~LinesOf(f)[l].blank
          THEN Cardinality(StepsAt(f, l)) = LinesOf(f)[l].stmts
          ELSE StepsAt(f, l) = {}
      BY <1>12, <2>1 DEF BodyOpen, LinesWritten
    <3>2. StepsAt(f, l)' = StepsAt(f, l)
      BY <1>13, <2>1
    <3>3. l \notin h..c /\ l \in Nat
      BY <1>2, <1>10, <2>1, LineShape
    <3>4. Walked(fr, l) <=> Walked(top, l)
      BY <1>4, <1>5, <1>6, <1>7, <1>12, <3>3 DEF Walked
    <3> QED
      BY <3>1, <3>2, <3>4
  <2>2. \A l : Walked(fr, l)' <=> Walked(fr, l)
    BY DEF Walked
  <2> QED
    BY <1>7, <2>1, <2>2, SameProgram DEF LinesWritten, SimulateLoop
<1>16. BodyOpen(fr)'
  BY <1>7, <1>13, <1>14, <1>15 DEF BodyOpen
<1>17. stack' = WithTop(fr) /\ UNCHANGED <<prog, visited>>
  BY <1>1 DEF SimulateLoop
<1>18. \A i \in 1..Len(t) : t[i].kind = "step" /\ t[i].fn = fr.fn
  BY <1>7, <1>9
<1>19. fr.fn = Top.fn
  BY <1>3, <1>7
<1> QED
  BY <1>2, <1>7, <1>9, <1>16, <1>17, <1>18, <1>19, BodiesMove

(* The head of a line that is not replayed is outside every replayed loop. *)
LEMMA HeadIsOutside ==
  ASSUME prog \in Programs, NEW fr, fr.fn \in Listed, OutsideLoops(fr),
         NEW l \in 1..Len(LinesOf(fr.fn)), l = fr.line,
         LinesOf(fr.fn)[l].close = 0 \/ ~LinesOf(fr.fn)[l].sim
  PROVE  ~InReplayedLoop(fr.fn, l)
<1> SUFFICES ASSUME NEW h \in 1..l, LinesOf(fr.fn)[h].close >= l, LinesOf(fr.fn)[h].sim
             PROVE  FALSE
  BY DEF InReplayedLoop
<1>1. l \in Nat \ {0} /\ Len(LinesOf(fr.fn)) \in Nat
  BY ProgramShape, LineShape
<1>2. h \in 1..Len(LinesOf(fr.fn))
  BY <1>1
<1>3. LinesOf(fr.fn)[h].close \in Nat
  BY <1>2, LineShape
<1>4. CASE h < l
  BY <1>1, <1>2, <1>3, <1>4 DEF OutsideLoops
<1>5. CASE h = l
  BY <1>1, <1>3, <1>5
<1> QED
  BY <1>1, <1>4, <1>5

LEMMA StepLineBodies ==
  ASSUME IInv, CallsFollowed, BodiesFollowed, StepLine
  PROVE  BodiesFollowed'
<1>1. PICK fr : fr = [Top EXCEPT !.idx = 1]
  OBVIOUS
<1>2. stack # <<>> /\ InBody /\ TypeOK /\ prog \in Programs /\ out \in Seq(Event)
  BY DEF StepLine, AtNewLine, InBody, IInv, TypeOK
<1>3. PICK f \in Listed : f = Top.fn
  BY <1>2, TopIs
<1>4. PICK h \in 1..Len(LinesOf(f)) : h = Top.line /\ h \in Nat
  BY <1>2, <1>3, PendingIs
<1>5. /\ Top \in Frame
      /\ Top.idx = 0
      /\ Len(stack) \in Nat \ {0}
      /\ Len(LinesOf(f)) \in Nat
      /\ f \in Name
  BY <1>2, <1>3, TopIs, ProgramShape DEF StepLine, AtNewLine
<1>6. /\ fr \in Frame
      /\ fr.fn = f
      /\ fr.line = h
      /\ fr.idx = 1
  BY <1>1, <1>3, <1>4, <1>5 DEF Frame
<1>7. PICK n \in Nat : n = LinesOf(f)[h].stmts /\ n = CurrentLine.stmts
  BY <1>2, <1>3, <1>4, LineShape DEF CurrentLine
<1>8. PICK t \in Seq(Event) : /\ out' = out \o t
                              /\ Len(t) = n
                              /\ \A i \in 1..n : t[i] = StepOf(f, h)
  <2>1. PICK t : t = Repeat(StepOf(f, h), n)
    OBVIOUS
  <2>2. t \in Seq(Event)
    BY <1>4, <1>5, <2>1, EventsAre
  <2>3. Len(t) = n /\ \A i \in 1..n : t[i] = StepOf(f, h)
    BY <2>1 DEF Repeat
  <2>4. out' = out \o t
    BY <1>3, <1>4, <1>7, <2>1 DEF StepLine
  <2> QED
    BY <2>2, <2>3, <2>4
<1>9. PICK top : /\ top = Top /\ BodyOpen(top) /\ OutsideLoops(top)
                 /\ top.fn = f /\ top.line = h /\ top.idx = 0
  BY <1>3, <1>4, <1>5 DEF BodiesFollowed, BodiesOpen, CallsFollowed, FramesLookedUp, Top
<1>10. ~InReplayedLoop(f, h) /\ ~LinesOf(f)[h].blank
  <2>1. LinesOf(f)[h].close = 0 \/ ~LinesOf(f)[h].sim
    BY <1>3, <1>4 DEF StepLine, AtLoop, CurrentLine
  <2>2. ~InReplayedLoop(top.fn, h)
    BY <1>2, <1>4, <1>9, <2>1, HeadIsOutside
  <2> QED
    BY <1>3, <1>4, <1>9, <2>2 DEF StepLine, CurrentLine
<1>11. PICK o : o = out'
  OBVIOUS
<1>12. /\ Len(out) \in Nat
       /\ Len(o) = Len(out) + n
       /\ \A i \in 1..Len(out) : i \in 1..Len(o) /\ o[i] = out[i]
       /\ \A i \in 1..Len(o) :
            \/ i \in 1..Len(out)
            \/ i > Len(out) /\ i - Len(out) \in 1..n /\ o[i] = t[i - Len(out)]
  BY <1>2, <1>8, <1>11, ExtendedOut
<1>13. \A i \in 1..Len(o) :
         \/ i \in 1..Len(out) /\ o[i] = out[i]
         \/ i > Len(out) /\ o[i] = StepOf(f, h)
  BY <1>8, <1>12
(* Before this step the body holds only lines before this one. *)
<1>14. ASSUME NEW i \in 1..Len(out), IsBodyStep(f, out[i])
       PROVE  out[i].line < h /\ out[i].line \in Nat
  <2>1. PICK l : l = out[i].line /\ l \in 1..Len(LinesOf(f))
    BY <1>9, <1>14 DEF IsBodyStep, BodyOpen, StepsOnItsLines
  <2>2. out[i] \in Event
    BY <1>2, ElementOfSeq
  <2>3. out[i] = StepOf(f, l)
    BY <1>14, <2>1, <2>2, StepIs DEF IsBodyStep
  <2>4. StepsAt(f, l) # {}
    BY <2>3 DEF StepsAt
  <2>5. Walked(top, l)
    BY <1>9, <1>14, <2>1, <2>4 DEF BodyOpen, LinesWritten, IsBodyStep
  <2> QED
    BY <1>5, <1>9, <2>1, <2>5 DEF Walked
<1>15. StepsOnItsLines(f)'
  <2>1. ASSUME NEW i \in 1..Len(o), o[i].kind = "step", o[i].fn = f
        PROVE  o[i].line \in 1..Len(LinesOf(f))
    BY <1>4, <1>9, <1>13, <2>1 DEF BodyOpen, StepsOnItsLines, StepOf
  <2> QED
    BY <1>11, <2>1, SameProgram DEF StepsOnItsLines, StepLine
<1>16. StepsInOrder(f)'
  <2>1. ASSUME NEW i \in 1..Len(o), NEW j \in 1..Len(o), i < j,
               IsBodyStep(f, o[i]), IsBodyStep(f, o[j])
        PROVE  o[i].line <= o[j].line
    <3>1. CASE j \in 1..Len(out) /\ o[j] = out[j]
      <4>1. i \in 1..Len(out) /\ o[i] = out[i]
        BY <1>12, <2>1, <3>1
      <4>2. PICK d, e : d = o[i] /\ e = o[j]
        OBVIOUS
      <4> QED
        BY <1>9, <2>1, <3>1, <4>1, <4>2 DEF BodyOpen, StepsInOrder
    <3>2. CASE j > Len(out) /\ o[j] = StepOf(f, h)
      <4>1. o[j].line = h
        BY <3>2 DEF StepOf
      <4>2. CASE i \in 1..Len(out) /\ o[i] = out[i]
        <5>1. out[i].line < h /\ out[i].line \in Nat
          BY <1>14, <2>1, <4>2
        <5> QED
          BY <1>4, <4>1, <4>2, <5>1
      <4>3. CASE o[i] = StepOf(f, h)
        BY <1>4, <4>1, <4>3 DEF StepOf
      <4> QED
        BY <1>13, <4>2, <4>3
    <3> QED
      BY <1>13, <3>1, <3>2
  <2>2. \A e : IsBodyStep(f, e)' <=> IsBodyStep(f, e)
    BY SameProgram DEF IsBodyStep, StepLine
  <2> QED
    BY <1>11, <2>1, <2>2 DEF StepsInOrder
<1>17. StepsAt(f, h)' = Len(out) + 1..Len(out) + n
  <2>1. StepsAt(f, h)' = {i \in 1..Len(o) : o[i] = StepOf(f, h)}
    BY <1>11 DEF StepsAt, StepOf
  <2>2. ASSUME NEW i \in 1..Len(o)
        PROVE  o[i] = StepOf(f, h) <=> i > Len(out)
    <3>1. CASE i \in 1..Len(out) /\ o[i] = out[i]
      <4>1. SUFFICES ASSUME out[i] = StepOf(f, h) PROVE FALSE
        BY <1>12, <3>1
      <4>2. IsBodyStep(f, out[i]) /\ out[i].line = h
        BY <1>10, <4>1 DEF IsBodyStep, StepOf
      <4> QED
        BY <1>4, <1>14, <3>1, <4>2
    <3>2. CASE i > Len(out) /\ o[i] = StepOf(f, h)
      BY <3>2
    <3> QED
      BY <1>13, <3>1, <3>2
  <2> QED
    BY <1>12, <2>1, <2>2
<1>18. Cardinality(StepsAt(f, h)') = n
  <2>1. PICK a \in Nat : a = Len(out)
    BY <1>12
  <2>2. a + 1 \in Int /\ a + n \in Int
    BY <2>1
  <2>3. Cardinality(a + 1..a + n) = IF a + 1 > a + n THEN 0 ELSE a + n - (a + 1) + 1
    BY <2>2, FS_Interval
  <2>4. Cardinality(a + 1..a + n) = n
    <3>1. PICK card : card = Cardinality(a + 1..a + n)
      OBVIOUS
    <3>2. card = n
      BY <2>3, <3>1
    <3> QED
      BY <3>1, <3>2
  <2> QED
    BY <1>17, <2>1, <2>4
<1>19. LinesWritten(fr)'
  <2>1. ASSUME NEW l \in 1..Len(LinesOf(f)), ~InReplayedLoop(f, l)
        PROVE  IF Walked(fr, l) /\ ~LinesOf(f)[l].blank
               THEN Cardinality(StepsAt(f, l)') = LinesOf(f)[l].stmts
               ELSE StepsAt(f, l)' = {}
    <3>1. CASE l = h
      <4>1. Walked(fr, h)
        BY <1>6 DEF Walked
      <4> QED
        BY <1>7, <1>10, <1>18, <3>1, <4>1
    <3>2. CASE l # h
      <4>1. IF Walked(top, l) /\ ~LinesOf(f)[l].blank
            THEN Cardinality(StepsAt(f, l)) = LinesOf(f)[l].stmts
            ELSE StepsAt(f, l) = {}
        BY <1>9, <2>1 DEF BodyOpen, LinesWritten
      <4>2. StepsAt(f, l)' = StepsAt(f, l)
        <5>1. StepOf(f, l) # StepOf(f, h)
          BY <3>2 DEF StepOf
        <5>2. StepsAt(f, l)' = {i \in 1..Len(o) : o[i] = StepOf(f, l)}
          BY <1>11 DEF StepsAt, StepOf
        <5> QED
          BY <1>12, <1>13, <5>1, <5>2 DEF StepsAt
      <4>3. Walked(fr, l) <=> Walked(top, l)
        BY <1>6, <1>9, <3>2 DEF Walked
      <4> QED
        BY <4>1, <4>2, <4>3
    <3> QED
      BY <3>1, <3>2
  <2>2. \A l : Walked(fr, l)' <=> Walked(fr, l)
    BY DEF Walked
  <2> QED
    BY <1>6, <2>1, <2>2, SameProgram DEF LinesWritten, StepLine
<1>20. BodyOpen(fr)'
  BY <1>6, <1>15, <1>16, <1>19 DEF BodyOpen
<1>21. stack' = WithTop(fr) /\ UNCHANGED <<prog, visited>>
  BY <1>1 DEF StepLine
<1>22. \A i \in 1..Len(t) : t[i].kind = "step" /\ t[i].fn = fr.fn
  BY <1>6, <1>8 DEF StepOf
<1>23. fr.fn = Top.fn
  BY <1>3, <1>6
<1> QED
  BY <1>2, <1>6, <1>8, <1>20, <1>21, <1>22, <1>23, BodiesMove

(***************************************************************************)
(* Entering a function and leaving one record no steps.                    *)
(***************************************************************************)
LEMMA BodyNew ==
  ASSUME TypeOK, OnlyVisitedRecorded, NEW c \in Listed, c \notin visited,
         NEW new, new.fn = c, new.line = 1, new.idx = 0
  PROVE  BodyOpen(new)
<1>1. \A i \in 1..Len(out) : ~(out[i].kind = "step" /\ out[i].fn = c)
  BY DEF OnlyVisitedRecorded
<1>2. StepsOnItsLines(c) /\ StepsInOrder(c)
  BY <1>1 DEF StepsOnItsLines, StepsInOrder, IsBodyStep
<1>3. \A l : StepsAt(c, l) = {}
  BY <1>1 DEF StepsAt, StepOf
<1>4. \A l \in 1..Len(LinesOf(c)) : ~Walked(new, l)
  BY ProgramShape DEF Walked, TypeOK
<1>5. LinesWritten(new)
  BY <1>3, <1>4 DEF LinesWritten
<1> QED
  BY <1>2, <1>5 DEF BodyOpen

LEMMA EnterCalleeBodies ==
  ASSUME IInv, CallsFollowed, BodiesFollowed, EnterCallee
  PROVE  BodiesFollowed'
<1>1. PICK fr : fr = PastCallee(Top)
  OBVIOUS
<1>2. PICK new : new = NewFrame(Callee, visited', HandsOver(Top))
  OBVIOUS
<1>3. PICK c \in Listed : c = Callee /\ c \notin visited /\ visited' = visited \cup {c}
  BY DEF EnterCallee
<1>4. /\ stack # <<>> /\ HasCallee /\ prog' = prog
      /\ TypeOK /\ prog \in Programs /\ out \in Seq(Event)
  BY DEF EnterCallee, HasCallee, AtCalls, InBody, IInv, TypeOK
<1>5. /\ Top \in Frame
      /\ Top.line \in Nat
      /\ Top.idx \in Nat \ {0}
      /\ Len(stack) \in Nat \ {0}
  BY <1>4, TopIs, PendingIs DEF HasCallee, AtCalls
<1>6. /\ fr \in Frame
      /\ fr.fn = Top.fn
      /\ fr.line = Top.line
      /\ fr.idx = Top.idx + 1
  BY <1>1, <1>5 DEF Frame, PastCallee
<1>7. new \in Frame /\ new.fn = c /\ new.line = 1 /\ new.idx = 0
  <2>1. HandsOver(Top) \in BOOLEAN
    BY <1>5 DEF HandsOver, AtTail, Frame
  <2>2. new \in Frame
    BY <1>2, <1>3, <1>4, <2>1, NewFrameIs
  <2> QED
    BY <1>2, <1>3, <2>2 DEF NewFrame
<1>8. PICK st : /\ st = stack'
                /\ Len(st) = Len(stack) + 1
                /\ st[Len(stack) + 1] = new
                /\ st[Len(stack)] = fr
                /\ \A k \in 1..Len(stack) - 1 : st[k] = stack[k]
  <2>1. /\ WithTop(fr) \in Seq(Frame)
        /\ Len(WithTop(fr)) = Len(stack)
        /\ WithTop(fr)[Len(stack)] = fr
        /\ \A k \in 1..Len(stack) - 1 : WithTop(fr)[k] = stack[k]
    BY <1>4, <1>6, WithTopIs
  <2>2. stack' = Append(WithTop(fr), new)
    BY <1>1, <1>2 DEF EnterCallee
  <2> QED
    BY <1>5, <1>7, <2>1, <2>2, AppendProperties
<1>9. \A k \in 1..Len(stack) + 1 :
        k = Len(stack) + 1 \/ k = Len(stack) \/ k \in 1..Len(stack) - 1
  BY <1>5
<1>10. \A k \in 1..Len(stack) : k \in 1..Len(stack) + 1 /\ st[k].fn = stack[k].fn
  <2>1. \A k \in 1..Len(stack) : k = Len(stack) \/ k \in 1..Len(stack) - 1
    BY <1>5
  <2> QED
    BY <1>5, <1>6, <1>8, <2>1 DEF Top
<1>11. \A k \in 1..Len(stack) : stack[k].fn # c
  BY <1>3 DEF CallsFollowed, FramesLookedUp
<1>12. PICK t \in Seq(Event) : out' = out \o t /\ t = <<CallOf(c)>>
  <2>1. CallOf(c) \in Event
    BY <1>4, ProgramShape DEF CallOf, Event
  <2>2. out' = Append(out, CallOf(c))
    BY <1>3 DEF EnterCallee
  <2>3. PICK t : t = <<CallOf(c)>>
    OBVIOUS
  <2>4. t \in Seq(Event)
    BY <2>1, <2>3
  <2>5. out' = out \o t
    BY <1>4, <2>1, <2>2, <2>3, AppendIsConcat
  <2> QED
    BY <2>3, <2>4, <2>5
<1>13. \A i \in 1..Len(t) : t[i] = CallOf(c) /\ t[i].kind = "call" /\ t[i].fn = c
  BY <1>12 DEF CallOf
<1>14. PICK o : /\ o = out'
                /\ \A i \in 1..Len(o) :
                     (i \in 1..Len(out) /\ o[i] = out[i]) \/ o[i] = CallOf(c)
  <2>1. PICK o : o = out'
    OBVIOUS
  <2>2. /\ \A i \in 1..Len(out) : i \in 1..Len(o) /\ o[i] = out[i]
        /\ \A i \in 1..Len(o) :
             \/ i \in 1..Len(out)
             \/ i - Len(out) \in 1..Len(t) /\ o[i] = t[i - Len(out)]
    BY <1>4, <1>12, <2>1, ExtendedOut
  <2> QED
    BY <1>13, <2>1, <2>2
<1>15. OnlyVisitedRecorded'
  <2>1. ASSUME NEW i \in 1..Len(o), o[i].kind # "var"
        PROVE  o[i].fn \in visited'
    BY <1>3, <1>14, <2>1 DEF BodiesFollowed, OnlyVisitedRecorded, CallOf
  <2> QED
    BY <1>14, <2>1 DEF OnlyVisitedRecorded
<1>16. OpenOnce'
  <2>1. ASSUME NEW k \in 1..Len(stack) + 1, NEW m \in 1..Len(stack) + 1, st[m].fn = st[k].fn
        PROVE  m = k
    <3>1. \A j \in 1..Len(stack) + 1 : j = Len(stack) + 1 \/ j \in 1..Len(stack)
      BY <1>5
    <3>2. CASE k = Len(stack) + 1
      BY <1>7, <1>8, <1>10, <1>11, <2>1, <3>1, <3>2
    <3>3. CASE k \in 1..Len(stack)
      <4>1. m \in 1..Len(stack)
        BY <1>7, <1>8, <1>10, <1>11, <2>1, <3>1, <3>3
      <4>2. stack[m].fn = stack[k].fn
        BY <1>10, <2>1, <3>3, <4>1
      <4> QED
        BY <3>3, <4>1, <4>2 DEF BodiesFollowed, OpenOnce
    <3> QED
      BY <3>1, <3>2, <3>3
  <2>2. ASSUME NEW k \in 1..Len(stack) + 1, NEW i \in 1..Len(o)
        PROVE  o[i] # ReturnOf(st[k].fn)
    <3>1. CASE o[i] = CallOf(c)
      BY <3>1 DEF CallOf, ReturnOf
    <3>2. CASE i \in 1..Len(out) /\ o[i] = out[i]
      <4>1. CASE k = Len(stack) + 1
        <5>1. st[k].fn = c
          BY <1>7, <1>8, <4>1
        <5> QED
          BY <1>3, <3>2, <5>1 DEF BodiesFollowed, OnlyVisitedRecorded, ReturnOf
      <4>2. CASE k \in 1..Len(stack)
        BY <1>10, <3>2, <4>2 DEF BodiesFollowed, OpenOnce
      <4>3. k = Len(stack) + 1 \/ k \in 1..Len(stack)
        BY <1>5
      <4> QED
        BY <4>1, <4>2, <4>3
    <3> QED
      BY <1>14, <3>1, <3>2
  <2> QED
    BY <1>8, <1>14, <2>1, <2>2 DEF OpenOnce, ReturnOf
<1>17. BodiesOpen'
  <2>1. ASSUME NEW k \in 1..Len(stack) + 1
        PROVE  BodyOpen(st[k])'
    <3>1. CASE k = Len(stack) + 1
      <4>1. st[k] = new
        BY <1>8, <3>1
      <4>2. BodyOpen(new)
        BY <1>3, <1>4, <1>7, BodyNew DEF BodiesFollowed
      <4>3. PassedAlike(new, new)
        BY DEF PassedAlike
      <4>4. \A i \in 1..Len(t) : ~(t[i].kind = "step" /\ t[i].fn = new.fn)
        BY <1>13
      <4>5. BodyOpen(new)'
        BY <1>4, <1>12, <4>2, <4>3, <4>4, BodyMoved
      <4> QED
        BY <4>1, <4>5
    <3>2. CASE k = Len(stack)
      <4>1. st[k] = fr
        BY <1>8, <3>2
      <4>2. PICK top : top = Top /\ BodyOpen(top)
        BY <1>5 DEF BodiesFollowed, BodiesOpen, Top
      <4>3. PassedAlike(top, fr)
        <5>1. fr.fn = top.fn /\ fr.line = top.line /\ fr.idx = top.idx + 1
              /\ top.idx \in Nat \ {0}
          BY <1>5, <1>6, <4>2
        <5>2. \A l : Walked(fr, l) <=> Walked(top, l)
          BY <5>1 DEF Walked
        <5> QED
          BY <5>1, <5>2 DEF PassedAlike
      <4>4. \A i \in 1..Len(t) : ~(t[i].kind = "step" /\ t[i].fn = top.fn)
        BY <1>13
      <4>5. BodyOpen(fr)'
        BY <1>4, <1>12, <4>2, <4>3, <4>4, BodyMoved
      <4> QED
        BY <4>1, <4>5
    <3>3. CASE k \in 1..Len(stack) - 1
      <4>1. k \in 1..Len(stack)
        BY <1>5, <3>3
      <4>2. PICK below : below = stack[k] /\ below = st[k]
        BY <1>8, <3>3
      <4>3. BodyOpen(below)
        BY <4>1, <4>2 DEF BodiesFollowed, BodiesOpen
      <4>4. PassedAlike(below, below)
        BY DEF PassedAlike
      <4>5. \A i \in 1..Len(t) : ~(t[i].kind = "step" /\ t[i].fn = below.fn)
        BY <1>13
      <4>6. BodyOpen(below)'
        BY <1>4, <1>12, <4>3, <4>4, <4>5, BodyMoved
      <4> QED
        BY <4>2, <4>6
    <3> QED
      BY <1>9, <3>1, <3>2, <3>3
  <2> QED
    BY <1>8, <2>1 DEF BodiesOpen
<1>18. BodiesLeft'
  <2>1. ASSUME NEW f \in visited' \cap Listed
        PROVE  (\E k \in 1..Len(st) : st[k].fn = f) \/ BodyComplete(f)'
    <3>1. CASE f = c
      BY <1>5, <1>7, <1>8, <3>1
    <3>2. CASE f \in visited /\ \E k \in 1..Len(stack) : stack[k].fn = f
      BY <1>8, <1>10, <3>2
    <3>3. CASE f \in visited /\ BodyComplete(f)
      <4>1. \A i \in 1..Len(t) : ~(t[i].kind = "step" /\ t[i].fn = f)
        BY <1>13
      <4> QED
        BY <1>4, <1>12, <3>3, <4>1, CompleteKept
    <3> QED
      BY <1>3, <3>1, <3>2, <3>3 DEF BodiesFollowed, BodiesLeft
  <2> QED
    BY <1>4, <1>8, <2>1, SameProgram DEF BodiesLeft
<1> QED
  BY <1>15, <1>16, <1>17, <1>18 DEF BodiesFollowed

LEMMA EnterRootBodies ==
  ASSUME IInv, CallsFollowed, BodiesFollowed, EnterRoot
  PROVE  BodiesFollowed'
<1>1. PICK r \in Listed : /\ r = prog.root
                          /\ visited' = {r}
                          /\ prog' = prog
                          /\ out' = <<CallOf(r)>>
  BY ProgramsAssumption DEF IInv, TypeOK, IsProgram, Listed, EnterRoot
<1>2. PICK new : new = NewFrame(r, {r}, seed) /\ stack' = <<new>>
  BY <1>1 DEF EnterRoot
<1>3. PICK st : /\ st = stack' /\ Len(st) = 1 /\ st[1] = new
                /\ new.fn = r /\ new.line = 1 /\ new.idx = 0
  BY <1>2 DEF NewFrame
<1>4. TypeOK /\ out \in Seq(Event) /\ out = <<>> /\ visited = {} /\ prog \in Programs
  BY DEF IInv, TypeOK, Untouched, CallsFollowed, RootFirst, EnterRoot
<1>5. PICK t \in Seq(Event) : out' = out \o t /\ t = <<CallOf(r)>>
  <2>1. CallOf(r) \in Event
    BY <1>4, ProgramShape DEF CallOf, Event
  <2>2. PICK t : t = <<CallOf(r)>>
    OBVIOUS
  <2>3. t \in Seq(Event)
    BY <2>1, <2>2
  <2>4. out' = out \o t
    BY <1>1, <1>4, <2>2, <2>3, ConcatEmptySeq
  <2> QED
    BY <2>2, <2>3, <2>4
<1>6. \A i \in 1..Len(t) : t[i].kind = "call" /\ t[i].fn = r
  BY <1>5 DEF CallOf
<1>7. PICK o : o = out' /\ Len(o) = 1 /\ o[1].kind = "call" /\ o[1].fn = r
  BY <1>1 DEF CallOf
<1>8. OnlyVisitedRecorded'
  BY <1>1, <1>7 DEF OnlyVisitedRecorded
<1>9. OpenOnce'
  <2>1. \A i \in 1..Len(o) : o[i] # ReturnOf(st[1].fn)
    BY <1>7 DEF ReturnOf
  <2>2. \A k \in 1..Len(st) : k = 1
    BY <1>3
  <2> QED
    BY <1>3, <1>7, <2>1, <2>2 DEF OpenOnce, ReturnOf
<1>10. BodiesOpen'
  <2>1. BodyOpen(new)
    BY <1>3, <1>4, BodyNew DEF BodiesFollowed
  <2>2. PassedAlike(new, new)
    BY DEF PassedAlike
  <2>3. \A i \in 1..Len(t) : ~(t[i].kind = "step" /\ t[i].fn = new.fn)
    BY <1>6
  <2>4. BodyOpen(new)'
    BY <1>1, <1>4, <1>5, <2>1, <2>2, <2>3, BodyMoved
  <2>5. \A k \in 1..Len(st) : st[k] = new
    BY <1>3
  <2>6. ASSUME NEW k \in 1..Len(st) PROVE BodyOpen(st[k])'
    BY <2>4, <2>5
  <2> QED
    BY <1>3, <2>6 DEF BodiesOpen
<1>11. BodiesLeft'
  <2>1. \A f \in {r} : \E k \in 1..Len(st) : st[k].fn = f
    BY <1>3
  <2> QED
    BY <1>1, <1>3, <2>1 DEF BodiesLeft
<1> QED
  BY <1>8, <1>9, <1>10, <1>11 DEF BodiesFollowed

LEMMA LeaveFunctionBodies ==
  ASSUME IInv, CallsFollowed, BodiesFollowed, LeaveFunction
  PROVE  BodiesFollowed'
<1>1. /\ stack # <<>> /\ ~InBody /\ UNCHANGED <<prog, visited>>
      /\ TypeOK /\ prog \in Programs /\ out \in Seq(Event)
  BY DEF LeaveFunction, IInv, TypeOK
<1>2. PICK n \in Nat \ {0} : n = Len(stack)
  BY <1>1, TopIs
<1>3. PICK top \in Frame : top = Top /\ top = stack[n] /\ top.fn \in Listed
  BY <1>1, <1>2, TopIs DEF Top
<1>4. PICK f : f = top.fn
  OBVIOUS
<1>5. PICK st : st = stack' /\ Len(st) = n - 1 /\ \A k \in 1..n - 1 : st[k] = stack[k]
  BY <1>1, <1>2, BelowIs DEF LeaveFunction
<1>6. PICK t \in Seq(Event) :
        /\ out' = out \o t
        /\ \A i \in 1..Len(t) : t[i].kind # "call" /\ t[i].kind # "step"
        /\ \A i \in 1..Len(t) : t[i].kind # "var" => t[i] = ReturnOf(f)
  BY <1>3, <1>4, LeaveEvents
<1>7. PICK o : /\ o = out'
               /\ \A i \in 1..Len(o) :
                    \/ i \in 1..Len(out) /\ o[i] = out[i]
                    \/ o[i].kind = "var"
                    \/ o[i] = ReturnOf(f)
  <2>1. PICK o : o = out'
    OBVIOUS
  <2>2. /\ \A i \in 1..Len(out) : i \in 1..Len(o) /\ o[i] = out[i]
        /\ \A i \in 1..Len(o) :
             \/ i \in 1..Len(out)
             \/ i - Len(out) \in 1..Len(t) /\ o[i] = t[i - Len(out)]
    BY <1>1, <1>6, <2>1, ExtendedOut
  <2>3. \A j \in 1..Len(t) : t[j].kind = "var" \/ t[j] = ReturnOf(f)
    BY <1>6
  <2> QED
    BY <2>1, <2>2, <2>3
<1>8. f \in visited
  BY <1>2, <1>3, <1>4 DEF CallsFollowed, FramesLookedUp
<1>9. \A k \in 1..n - 1 : k \in 1..n /\ k # n
  BY <1>2
<1>10. \A k \in 1..n - 1 : st[k].fn # f
  <2>1. ASSUME NEW k \in 1..n - 1, st[k].fn = f
        PROVE  FALSE
    <3>1. k \in 1..Len(stack) /\ n \in 1..Len(stack) /\ k # n
      BY <1>2, <1>9
    <3>2. stack[k].fn = stack[n].fn
      BY <1>3, <1>4, <1>5, <2>1
    <3> QED
      BY <3>1, <3>2 DEF BodiesFollowed, OpenOnce
  <2> QED
    BY <2>1
<1>11. OnlyVisitedRecorded'
  <2>1. ASSUME NEW i \in 1..Len(o), o[i].kind # "var"
        PROVE  o[i].fn \in visited
    <3>1. CASE i \in 1..Len(out) /\ o[i] = out[i]
      BY <2>1, <3>1 DEF BodiesFollowed, OnlyVisitedRecorded
    <3>2. CASE o[i] = ReturnOf(f)
      BY <1>8, <3>2 DEF ReturnOf
    <3> QED
      BY <1>7, <2>1, <3>1, <3>2
  <2> QED
    BY <1>1, <1>7, <2>1 DEF OnlyVisitedRecorded
<1>12. OpenOnce'
  <2>1. ASSUME NEW k \in 1..n - 1, NEW m \in 1..n - 1, st[m].fn = st[k].fn
        PROVE  m = k
    BY <1>2, <1>5, <1>9, <2>1 DEF BodiesFollowed, OpenOnce
  <2>2. ASSUME NEW k \in 1..n - 1, NEW i \in 1..Len(o)
        PROVE  o[i] # ReturnOf(st[k].fn)
    <3>1. CASE i \in 1..Len(out) /\ o[i] = out[i]
      BY <1>2, <1>5, <1>9, <3>1 DEF BodiesFollowed, OpenOnce
    <3>2. CASE o[i].kind = "var"
      BY <3>2 DEF ReturnOf
    <3>3. CASE o[i] = ReturnOf(f)
      <4>1. st[k].fn # f
        BY <1>10
      <4> QED
        BY <3>3, <4>1 DEF ReturnOf
    <3> QED
      BY <1>7, <3>1, <3>2, <3>3
  <2> QED
    BY <1>5, <1>7, <2>1, <2>2 DEF OpenOnce, ReturnOf
<1>13. BodiesOpen'
  <2>1. ASSUME NEW k \in 1..n - 1
        PROVE  BodyOpen(st[k])'
    <3>1. k \in 1..Len(stack)
      BY <1>2, <1>9
    <3>2. PICK below : below = stack[k] /\ below = st[k]
      BY <1>5
    <3>3. BodyOpen(below)
      BY <3>1, <3>2 DEF BodiesFollowed, BodiesOpen
    <3>4. PassedAlike(below, below)
      BY DEF PassedAlike
    <3>5. \A i \in 1..Len(t) : ~(t[i].kind = "step" /\ t[i].fn = below.fn)
      BY <1>6
    <3>6. BodyOpen(below)'
      BY <1>1, <1>6, <3>3, <3>4, <3>5, BodyMoved
    <3> QED
      BY <3>2, <3>6
  <2> QED
    BY <1>5, <2>1 DEF BodiesOpen
<1>14. BodyComplete(f)
  <2>1. BodyOpen(top)
    BY <1>2, <1>3 DEF BodiesFollowed, BodiesOpen
  <2>2. top.line \in Nat /\ Len(LinesOf(f)) \in Nat
    BY <1>1, <1>3, <1>4, ProgramShape DEF Frame
  <2>3. top.line > Len(LinesOf(f))
    BY <1>1, <1>3, <1>4, <2>2 DEF InBody
  <2>4. \A l \in 1..Len(LinesOf(f)) : Walked(top, l)
    BY <2>2, <2>3 DEF Walked
  <2>5. StepsAreAll(f)
    BY <1>4, <2>1, <2>4, FS_EmptySet DEF BodyOpen, LinesWritten, StepsAreAll
  <2> QED
    BY <1>4, <2>1, <2>5 DEF BodyOpen, BodyComplete
<1>15. BodiesLeft'
  <2>1. ASSUME NEW g \in visited \cap Listed
        PROVE  (\E k \in 1..n - 1 : st[k].fn = g) \/ BodyComplete(g)'
    <3>1. BodyComplete(g) => BodyComplete(g)'
      <4>1. \A i \in 1..Len(t) : ~(t[i].kind = "step" /\ t[i].fn = g)
        BY <1>6
      <4> QED
        BY <1>1, <1>6, <4>1, CompleteKept
    <3>2. CASE \E k \in 1..Len(stack) : stack[k].fn = g
      <4>1. PICK k \in 1..n : stack[k].fn = g
        BY <1>2, <3>2
      <4>2. CASE k = n
        <5>1. g = f
          BY <1>3, <1>4, <4>1, <4>2
        <5> QED
          BY <1>14, <3>1, <5>1
      <4>3. CASE k # n
        <5>1. k \in 1..n - 1
          BY <1>2, <4>3
        <5> QED
          BY <1>5, <4>1, <5>1
      <4> QED
        BY <4>2, <4>3
    <3> QED
      BY <3>1, <3>2 DEF BodiesFollowed, BodiesLeft
  <2> QED
    BY <1>1, <1>5, <2>1, SameProgram DEF BodiesLeft
<1> QED
  BY <1>11, <1>12, <1>13, <1>15 DEF BodiesFollowed

LEMMA InitBodies == Init => BodiesFollowed
<1> SUFFICES ASSUME Init PROVE BodiesFollowed
  OBVIOUS
<1>1. Len(stack) = 0 /\ Len(out) = 0 /\ visited = {}
  BY EmptySeq DEF Init
<1> QED
  BY <1>1 DEF BodiesFollowed, OnlyVisitedRecorded, OpenOnce, BodiesOpen, BodiesLeft

LEMMA NextBodies ==
  IInv /\ CallsFollowed /\ BodiesFollowed /\ [Next]_vars => BodiesFollowed'
<1> SUFFICES ASSUME IInv, CallsFollowed, BodiesFollowed, [Next]_vars
             PROVE  BodiesFollowed'
  OBVIOUS
<1>1. CASE UNCHANGED vars
  <2>1. /\ UNCHANGED <<stack, visited, out>>
        /\ prog' = prog
    BY <1>1 DEF vars
  <2>2. \A f, l : StepsAt(f, l)' = StepsAt(f, l)
    BY <2>1 DEF StepsAt, StepOf
  <2>3. \A f : StepsOnItsLines(f) => StepsOnItsLines(f)'
    BY <2>1, SameProgram DEF StepsOnItsLines
  <2>4. \A f : StepsInOrder(f) => StepsInOrder(f)'
    BY <2>1, SameProgram DEF StepsInOrder, IsBodyStep
  <2>5. \A fr : BodyOpen(fr) => BodyOpen(fr)'
    <3>1. ASSUME NEW fr, LinesWritten(fr) PROVE LinesWritten(fr)'
      BY <2>1, <2>2, <3>1, SameProgram DEF LinesWritten, Walked
    <3> QED
      BY <2>3, <2>4, <3>1 DEF BodyOpen
  <2>6. \A f : BodyComplete(f) => BodyComplete(f)'
    BY <2>1, <2>2, <2>3, <2>4, SameProgram DEF BodyComplete, StepsAreAll
  <2>7. OnlyVisitedRecorded' /\ OpenOnce'
    BY <2>1 DEF BodiesFollowed, OnlyVisitedRecorded, OpenOnce, ReturnOf
  <2>8. BodiesOpen'
    <3>1. PICK st : st = stack /\ st = stack'
      BY <2>1
    <3>2. \A k \in 1..Len(st) : BodyOpen(st[k])
      BY <3>1 DEF BodiesFollowed, BodiesOpen
    <3>3. ASSUME NEW k \in 1..Len(st) PROVE BodyOpen(st[k])'
      BY <2>5, <3>2
    <3> QED
      BY <3>1, <3>3 DEF BodiesOpen
  <2>9. BodiesLeft'
    BY <2>1, <2>6, SameProgram DEF BodiesFollowed, BodiesLeft
  <2> QED
    BY <2>7, <2>8, <2>9 DEF BodiesFollowed
<1> QED
  BY <1>1, EnterRootBodies, SimulateLoopBodies, SkipBlankLineBodies, StepLineBodies,
     SkipCalleeBodies, EnterCalleeBodies, EndLineBodies, LeaveFunctionBodies DEF Next

LEMMA BodiesAreFollowed == Spec => []BodiesFollowed
BY InitBodies, NextBodies, FramesDisciplined, CallsAreFollowed, PTL DEF Spec

(***************************************************************************)
(* For every program, whatever the function calls in the middle of its     *)
(* body and whichever loops are replayed, the steps a returned function    *)
(* has left in the recording, replayed loops aside, are its non-blank      *)
(* lines in source order, each as often as it has statements.              *)
(***************************************************************************)
THEOREM WalkRecordsBodies == Spec => []BodiesComplete
<1>1. CallsFollowed /\ BodiesFollowed => BodiesComplete
  <2>1. SUFFICES ASSUME CallsFollowed, BodiesFollowed, NEW f \in Listed,
                        NEW i \in 1..Len(out), out[i] = ReturnOf(f)
                 PROVE  BodyComplete(f)
    BY DEF BodiesComplete
  <2>2. out[i].kind # "var" /\ out[i].fn = f
    BY <2>1 DEF ReturnOf
  <2>3. f \in visited
    BY <2>1, <2>2 DEF BodiesFollowed, OnlyVisitedRecorded
  <2>4. ~\E k \in 1..Len(stack) : stack[k].fn = f
    BY <2>1 DEF BodiesFollowed, OpenOnce
  <2> QED
    BY <2>1, <2>3, <2>4 DEF BodiesFollowed, BodiesLeft
<1> QED
  BY <1>1, CallsAreFollowed, BodiesAreFollowed, PTL

==============================================================================
