------------------------- MODULE BlockReplayProofs -------------------------
(***************************************************************************)
(* What a block's replay promises, for blocks of any length over any       *)
(* leaves and classes, whatever the node refuses or leaves unanswered.     *)
(***************************************************************************)
EXTENDS BlockReplay, TLAPS

-----------------------------------------------------------------------------
(* The values of leaves along a block. *)

\* Before its first transaction a block's leaves hold the parent's values.
LEMMA NothingWritten ==
    ASSUME NEW l PROVE Writers(0, l) = {} /\ ValueAfter(0, l) = ParentValue(l)
BY DEF Writers, ValueAfter

\* A transaction is the last writer of what it writes and leaves the rest alone.
LEMMA OneMore ==
    ASSUME NEW k \in Nat, NEW l
    PROVE  /\ l \in block[k + 1].writes =>
                 Writers(k + 1, l) # {} /\ ValueAfter(k + 1, l) = k + 1
           /\ l \notin block[k + 1].writes =>
                 /\ Writers(k + 1, l) = Writers(k, l)
                 /\ ValueAfter(k + 1, l) = ValueAfter(k, l)
<1>1. ASSUME l \in block[k + 1].writes
      PROVE  Writers(k + 1, l) # {} /\ ValueAfter(k + 1, l) = k + 1
  <2> DEFINE W == Writers(k + 1, l)
  <2>1. k + 1 \in W /\ \A m \in W : m \in Nat /\ m <= k + 1
    BY <1>1 DEF Writers
  <2>2. \A j \in W : (\A m \in W : m <= j) => j = k + 1
    BY <2>1
  <2>3. (CHOOSE j \in W : \A m \in W : m <= j) = k + 1
    BY <2>1, <2>2
  <2> QED BY <2>1, <2>3 DEF ValueAfter
<1>2. ASSUME l \notin block[k + 1].writes
      PROVE  Writers(k + 1, l) = Writers(k, l) /\ ValueAfter(k + 1, l) = ValueAfter(k, l)
  <2>1. Writers(k + 1, l) = Writers(k, l)
    BY <1>2 DEF Writers
  <2> DEFINE Last(W) == IF W = {} THEN ParentValue(l) ELSE CHOOSE j \in W : \A m \in W : m <= j
  <2>2. ValueAfter(k + 1, l) = Last(Writers(k + 1, l)) /\ ValueAfter(k, l) = Last(Writers(k, l))
    BY DEF ValueAfter
  <2> HIDE DEF Last
  <2> QED BY <2>1, <2>2
<1> QED BY <1>1, <1>2

\* A single-leaf read answers the parent's value, the default of an absent contract too.
LEMMA LeafReadIsTheParents == ASSUME NEW l PROVE LeafRead(l) = ParentValue(l)
BY NothingWritten, MarkersAreDistinct DEF LeafRead, Node, ReadAt, ParentValue, Value

LEMMA ParentValueType == ASSUME NEW l PROVE ParentValue(l) \in Value
BY DEF ParentValue, Value

-----------------------------------------------------------------------------
(* The inductive invariant. *)

\* A prefetched value is the one a single-leaf read would have returned.
PrefetchedIsTheParents ==
    \A l \in Leaf : prefetched[l] # NotHeld => prefetched[l] = ParentValue(l)

NoneDiverged == \A i \in Rows : Outcome(i) # "divergent"

\* While nothing was refused and nothing diverged, the executor holds what the
\* sequencer's state was at this point of the block.
CacheFollows ==
    supported /\ Unbroken /\ NoneDiverged =>
        \A l \in Leaf :
            /\ cache[l] # NotHeld => cache[l] = ValueAfter(Len(executed), l)
            /\ Writers(Len(executed), l) # {} => cache[l] \in Nat \ {0}
            /\ Writers(Len(executed), l) = {} => cache[l] \in {NotHeld, ParentValue(l)}

\* `broken` is the first refused row.
BrokenIsFirst ==
    \A i \in Rows : Outcome(i) = "refused" <=> (~supported \/ (~Unbroken /\ broken <= i))

\* Where the run is.
PhaseFits ==
    /\ phase \in {"prefetch", "convert", "execute"} => supported
    /\ phase \in {"fetch", "prefetch", "convert"} =>
          executed = << >> /\ cache = Nothing /\ broken = 0
    /\ phase \in {"compare", "record", "done", "unlisted"} => Len(executed) = Count
    /\ phase \in {"fetch", "prefetch", "convert", "execute", "compare"} => diff = "none"
    /\ diff # "none" => Len(executed) = Count
    /\ broken <= Len(executed)

IInv ==
    /\ TypeOK
    /\ PrefetchedIsTheParents
    /\ CacheFollows
    /\ BrokenIsFirst
    /\ PhaseFits
    /\ PrestateIsTheSequencers
    /\ DiffIsOfTheWholeBlock

-----------------------------------------------------------------------------
\* What a transaction of a mined block is.
LEMMA BlockType ==
    ASSUME TypeOK
    PROVE  /\ Count \in Nat /\ DOMAIN block = 1..Count
           /\ \A i \in 1..Count : block[i] \in Tx
<1>1. block \in Seq(Tx)
  BY BlocksAreSequences DEF TypeOK, ReaderTypeOK
<1> QED BY <1>1 DEF Count

LEMMA InitHolds == Init => IInv
<1> SUFFICES ASSUME Init PROVE IInv
  OBVIOUS
<1>1. block \in Seq(Tx) /\ Count \in Nat /\ DOMAIN block = 1..Count
  BY BlocksAreSequences DEF Init, ReaderInit, Count
<1>2. TypeOK
  BY <1>1 DEF Init, ReaderInit, TypeOK, ReaderTypeOK, Nothing, Phases, Simulated
<1>3. PrefetchedIsTheParents /\ BrokenIsFirst /\ PhaseFits
  BY DEF Init, ReaderInit, PrefetchedIsTheParents, BrokenIsFirst, PhaseFits, Rows
<1>4. CacheFollows
  <2>1. Len(executed) = 0 /\ \A l \in Leaf : cache[l] = NotHeld
    BY DEF Init, Nothing
  <2> QED BY <2>1, NothingWritten DEF CacheFollows
<1>5. PrestateIsTheSequencers /\ DiffIsOfTheWholeBlock
  BY DEF Init, PrestateIsTheSequencers, DiffIsOfTheWholeBlock, Rows
<1> QED BY <1>2, <1>3, <1>4, <1>5 DEF IInv

\* The invariant speaks of the rest of the state only.
LEMMA OtherVariables ==
    ASSUME IInv, TypeOK', PrefetchedIsTheParents', PhaseFits',
           UNCHANGED <<block, supported, executed, cache, broken, diff>>
    PROVE  IInv'
<1>1. CacheFollows'
  BY DEF IInv, CacheFollows, Unbroken, NoneDiverged, Rows, Outcome, ValueAfter, Writers, ParentValue
<1>2. BrokenIsFirst'
  BY DEF IInv, BrokenIsFirst, Unbroken, Rows, Outcome
<1>3. PrestateIsTheSequencers'
  BY DEF IInv, PrestateIsTheSequencers, DivergedBefore, Rows, Outcome, SequencerRead,
         ValueAfter, Writers, ParentValue
<1>4. DiffIsOfTheWholeBlock'
  BY DEF IInv, DiffIsOfTheWholeBlock, Outcome
<1> QED BY <1>1, <1>2, <1>3, <1>4 DEF IInv

-----------------------------------------------------------------------------
(* The prefetch. *)

LEMMA InsertKeepsParents ==
    ASSUME TypeOK, PrefetchedIsTheParents, NEW txs, NEW reads \in InitialReads(txs), Insert(reads),
           UNCHANGED block
    PROVE  prefetched' \in [Leaf -> Value \cup {NotHeld}] /\ PrefetchedIsTheParents'
<1>1. \A l \in Leaf : reads[l] = NotHeld \/ reads[l] = ParentValue(l)
  BY NothingWritten DEF InitialReads, ReadAt
<1>2. \A l \in Leaf : ParentValue(l) \in Value
  BY ParentValueType
<1>3. prefetched' = [l \in Leaf |-> IF reads[l] # NotHeld THEN reads[l] ELSE prefetched[l]]
  BY DEF Insert
<1>4. prefetched' \in [Leaf -> Value \cup {NotHeld}]
  BY <1>1, <1>2, <1>3 DEF TypeOK, ReaderTypeOK
<1>5. ASSUME NEW l \in Leaf, prefetched'[l] # NotHeld PROVE prefetched'[l] = ParentValue(l)'
  BY <1>1, <1>3, <1>5 DEF PrefetchedIsTheParents, ParentValue
<1> QED BY <1>4, <1>5 DEF PrefetchedIsTheParents

LEMMA PrefetchKeeps == ASSUME IInv, PrefetchStep PROVE IInv'
<1> USE DEF PrefetchStep
<1>0. UNCHANGED <<block, supported, executed, cache, broken, diff>>
  BY DEF Prefetch, PrefetchWhole, PrefetchRefused, PrefetchOne, readerVars
<1>1. PrefetchedIsTheParents' /\ prefetched' \in [Leaf -> Value \cup {NotHeld}]
  <2>1. CASE UNCHANGED prefetched
    BY <2>1, <1>0 DEF IInv, PrefetchedIsTheParents, ParentValue, TypeOK, ReaderTypeOK
  <2>2. CASE \E txs : \E reads \in InitialReads(txs) : Insert(reads)
    BY <2>2, <1>0, InsertKeepsParents DEF IInv
  <2> QED BY <2>1, <2>2 DEF Prefetch, PrefetchWhole, PrefetchRefused, PrefetchOne, readerVars
<1>2. TypeOK'
  <2>1. /\ toTry' \subseteq DOMAIN block' /\ relaxed' \in 0..3 /\ phase' \in Phases
        /\ UNCHANGED <<block, classes>>
    <3>1. toTry \subseteq DOMAIN block /\ relaxed \in 0..3 /\ phase = "prefetch"
      BY DEF IInv, TypeOK, ReaderTypeOK
    <3>2. CASE PrefetchWhole
      BY <3>1, <3>2 DEF PrefetchWhole, Phases
    <3>3. CASE PrefetchRefused
      BY <3>1, <3>3 DEF PrefetchRefused, Phases
    <3>4. CASE PrefetchOne
      BY <3>1, <3>4 DEF PrefetchOne, Phases
    <3>5. CASE UNCHANGED readerVars
      BY <3>1, <3>5 DEF readerVars, Phases, Prefetch, PrefetchWhole, PrefetchRefused, PrefetchOne
    <3> QED BY <3>2, <3>3, <3>4, <3>5 DEF Prefetch
  <2> QED BY <1>1, <2>1 DEF IInv, TypeOK, ReaderTypeOK, Count
<1>3. PhaseFits'
  BY <1>0 DEF IInv, PhaseFits, Count, Nothing
<1> QED BY <1>0, <1>1, <1>2, <1>3, OtherVariables

-----------------------------------------------------------------------------
(* The execution loop. *)

\* What is true of a row of the block being executed.
LEMMA FollowingType ==
    ASSUME IInv, Executing
    PROVE  /\ Following \in 1..Count /\ Following = Len(executed) + 1
           /\ block[Following] \in Tx
           /\ Len(executed) \in Nat /\ Rows = 1..Len(executed)
           /\ supported
BY BlockType DEF IInv, Executing, Following, TypeOK, PhaseFits, Rows

\* What the executor sees has the type of a value.
LEMMA SeesType == ASSUME IInv, NEW l \in Leaf PROVE Sees(l) \in Value
BY LeafReadIsTheParents, ParentValueType DEF IInv, TypeOK, ReaderTypeOK, Sees, Read

\* ... and is the sequencer's, while nothing diverged.
LEMMA SeesTheSequencers ==
    ASSUME IInv, Executing, Unbroken, NoneDiverged, NEW l \in Leaf
    PROVE  Sees(l) = ValueAfter(Len(executed), l)
<1>1. supported
  BY FollowingType
<1>2. CASE cache[l] # NotHeld
  BY <1>1, <1>2 DEF IInv, CacheFollows, Sees
<1>3. CASE cache[l] = NotHeld
  <2>1. Writers(Len(executed), l) = {}
    BY <1>1, <1>3, MarkersAreDistinct DEF IInv, CacheFollows, Value
  <2>2. Sees(l) = ParentValue(l)
    BY <1>3, LeafReadIsTheParents DEF IInv, PrefetchedIsTheParents, Sees, Read
  <2> QED BY <2>1, <2>2 DEF ValueAfter
<1> QED BY <1>2, <1>3

\* A row is appended: the rows before it are as they were.
LEMMA RowAppended ==
    ASSUME IInv, Executing, NEW row \in Row, executed' = Append(executed, row)
    PROVE  /\ executed' \in Seq(Row) /\ Len(executed') = Following /\ Len(executed') <= Count
           /\ Rows' = Rows \cup {Following}
           /\ executed'[Following] = row
           /\ \A i \in Rows : /\ i \in Nat /\ i < Following
                              /\ executed'[i] = executed[i] /\ Outcome(i)' = Outcome(i)
<1>1. executed \in Seq(Row) /\ Len(executed) <= Count /\ Count \in Nat
  BY BlockType DEF IInv, TypeOK
<1>2. Following = Len(executed) + 1 /\ Following \in 1..Count /\ Rows = 1..Len(executed)
  BY FollowingType
<1>3. /\ executed' \in Seq(Row) /\ Len(executed') = Len(executed) + 1
      /\ executed'[Len(executed) + 1] = row
      /\ \A i \in 1..Len(executed) : executed'[i] = executed[i]
  BY <1>1
<1>4. DOMAIN executed' = 1..(Len(executed) + 1)
  BY <1>3, <1>1
<1> QED BY <1>1, <1>2, <1>3, <1>4 DEF Rows, Outcome

\* What the conjuncts about rows need of a new one.
LEMMA RowKeeps ==
    ASSUME IInv, Executing, NEW row \in Row, executed' = Append(executed, row),
           UNCHANGED <<block, phase, supported, diff>>,
           broken' \in {broken, Following},
           row.outcome # "refused" /\ NoneDiverged => row.read = SequencerRead(Following)
    PROVE  PrestateIsTheSequencers' /\ DiffIsOfTheWholeBlock' /\ PhaseFits'
<1>1. /\ Rows' = Rows \cup {Following}
      /\ executed'[Following] = row
      /\ \A i \in Rows : /\ i \in Nat /\ i < Following
                         /\ executed'[i] = executed[i] /\ Outcome(i)' = Outcome(i)
  BY RowAppended
<1>2. /\ Following \in Nat /\ Rows = 1..(Following - 1)
      /\ diff = "none" /\ phase = "execute" /\ supported
  <2>1. Following = Len(executed) + 1 /\ Len(executed) \in Nat /\ Rows = 1..Len(executed)
    BY FollowingType
  <2> QED BY <2>1 DEF IInv, PhaseFits, Executing
<1>3. \A i : SequencerRead(i)' = SequencerRead(i)
  BY DEF SequencerRead, ValueAfter, Writers, ParentValue
<1>4. ASSUME NEW i \in Rows', Outcome(i)' # "refused", ~DivergedBefore(i)'
      PROVE  executed'[i].read = SequencerRead(i)'
  <2>1. CASE i = Following
    <3>1. NoneDiverged
      BY <1>1, <1>2, <1>4, <2>1 DEF NoneDiverged, DivergedBefore, Outcome
    <3> QED BY <1>1, <1>3, <1>4, <2>1, <3>1 DEF Outcome
  <2>2. CASE i \in Rows
    <3>1. ~DivergedBefore(i)
      BY <1>1, <1>2, <1>4, <2>2 DEF DivergedBefore
    <3> QED BY <1>1, <1>3, <1>4, <2>2, <3>1 DEF IInv, PrestateIsTheSequencers
  <2> QED BY <1>1, <2>1, <2>2
<1>5. PrestateIsTheSequencers'
  BY <1>4 DEF PrestateIsTheSequencers
<1>6. DiffIsOfTheWholeBlock'
  BY <1>2 DEF DiffIsOfTheWholeBlock
<1>7. PhaseFits'
  <2>1. broken' <= Len(executed')
    <3>1. Len(executed') = Following /\ Following = Len(executed) + 1 /\ Len(executed) \in Nat
      BY RowAppended, FollowingType
    <3>2. broken \in Int /\ broken <= Len(executed)
      BY DEF IInv, PhaseFits, TypeOK
    <3> QED BY <3>1, <3>2
  <2> QED BY <1>2, <2>1 DEF PhaseFits
<1> QED BY <1>5, <1>6, <1>7

\* A refused row, whichever way it was refused in, becomes the broken index or follows it.
LEMMA RefusedKeeps ==
    ASSUME IInv, Executing, NEW ran \in SUBSET Class, executed' = Append(executed, Refused(ran)),
           broken' = IF Unbroken THEN Following ELSE broken,
           UNCHANGED <<block, phase, supported, diff, prefetched>>
    PROVE  /\ executed' \in Seq(Row) /\ Len(executed') <= Count /\ broken' \in 1..Count
           /\ CacheFollows' /\ BrokenIsFirst' /\ PrefetchedIsTheParents'
           /\ PrestateIsTheSequencers' /\ DiffIsOfTheWholeBlock' /\ PhaseFits'
<1>1. Refused(ran) \in Row /\ Refused(ran).outcome = "refused"
  BY DEF Refused, Row, Outcomes, Nothing
<1>2. /\ executed' \in Seq(Row) /\ Len(executed') <= Count
      /\ Rows' = Rows \cup {Following} /\ executed'[Following].outcome = "refused"
      /\ \A i \in Rows : i \in Nat /\ i < Following /\ Outcome(i)' = Outcome(i)
  BY <1>1, RowAppended DEF Outcome
<1>3. PrestateIsTheSequencers' /\ DiffIsOfTheWholeBlock' /\ PhaseFits'
  BY <1>1, RowKeeps
<1>4. Following \in 1..Count /\ broken \in 0..Count /\ Count \in Nat /\ Rows = 1..(Following - 1) /\ supported
  BY FollowingType, BlockType DEF IInv, TypeOK
<1>5. broken' \in 1..Count
  BY <1>4 DEF Unbroken
<1>6. CacheFollows'
  BY <1>5 DEF CacheFollows, Unbroken
<1>7. BrokenIsFirst'
  <2>1. ~Unbroken' /\ broken' <= Following
    <3>1. CASE Unbroken
      BY <1>4, <3>1, <1>5 DEF Unbroken
    <3>2. CASE ~Unbroken
      <4>1. broken' = broken /\ broken <= Count
        BY <3>2, <1>4
      <4>2. broken <= Following
        BY <3>2, <1>4, FollowingType DEF IInv, PhaseFits
      <4> QED BY <3>2, <4>1, <4>2 DEF Unbroken
    <3> QED BY <3>1, <3>2
  <2>2. \A i \in Rows : Outcome(i) = "refused" <=> (~Unbroken /\ broken <= i)
    BY <1>4 DEF IInv, BrokenIsFirst
  <2>3. \A i \in Rows : Outcome(i)' = "refused" <=> broken' <= i
    <3>1. CASE Unbroken
      BY <1>2, <1>4, <2>2, <3>1
    <3>2. CASE ~Unbroken
      BY <1>2, <1>4, <2>2, <3>2
    <3> QED BY <3>1, <3>2
  <2> QED BY <1>2, <1>4, <2>1, <2>3 DEF BrokenIsFirst, Outcome
<1>8. PrefetchedIsTheParents'
  BY DEF IInv, PrefetchedIsTheParents, ParentValue
<1> QED BY <1>2, <1>3, <1>5, <1>6, <1>7, <1>8

LEMMA SkipKeeps == ASSUME IInv, SkipBroken PROVE IInv'
<1> USE DEF SkipBroken
<1>1. /\ Executing /\ executed' = Append(executed, Refused({}))
      /\ broken' = IF Unbroken THEN Following ELSE broken
      /\ UNCHANGED <<block, phase, supported, diff, prefetched>>
  BY DEF readerVars
<1>2. TypeOK'
  BY <1>1, RefusedKeeps DEF IInv, TypeOK, ReaderTypeOK, readerVars, Count
<1> QED BY <1>1, <1>2, RefusedKeeps DEF IInv

LEMMA UnconvertedKeeps == ASSUME IInv, RefuseUnconverted PROVE IInv'
<1> USE DEF RefuseUnconverted, Break
<1>1. /\ Executing /\ executed' = Append(executed, Refused({}))
      /\ broken' = IF Unbroken THEN Following ELSE broken
      /\ UNCHANGED <<block, phase, supported, diff, prefetched>>
  BY DEF readerVars
<1>2. TypeOK'
  BY <1>1, RefusedKeeps DEF IInv, TypeOK, ReaderTypeOK, readerVars, Count
<1> QED BY <1>1, <1>2, RefusedKeeps DEF IInv

LEMMA ErrorKeeps == ASSUME IInv, ExecutorError PROVE IInv'
<1>1. PICK loaded, ran :
        /\ loaded \subseteq block[Following].runs /\ ran \subseteq loaded
        /\ executed' = Append(executed, Refused(Observed(ran)))
        /\ LoadClasses(loaded)
  BY DEF ExecutorError
<1>2. /\ Executing /\ Following \in DOMAIN block
      /\ broken' = IF Unbroken THEN Following ELSE broken
      /\ unanswered' \subseteq unanswered \cup {Following}
      /\ UNCHANGED <<block, phase, supported, diff, prefetched, relaxed, toTry, wanted, observe,
                     converted, cache, declared, at, recorded>>
  BY FollowingType, BlockType DEF ExecutorError, Break, IInv
<1>3. Observed(ran) \in SUBSET Class /\ classes' \subseteq Class
  BY <1>1, <1>2, FollowingType DEF Observed, LoadClasses, Tx, IInv, TypeOK, ReaderTypeOK
<1>4. /\ executed' \in Seq(Row) /\ Len(executed') <= Count /\ broken' \in 1..Count
      /\ CacheFollows' /\ BrokenIsFirst' /\ PrefetchedIsTheParents'
      /\ PrestateIsTheSequencers' /\ DiffIsOfTheWholeBlock' /\ PhaseFits'
  BY <1>1, <1>2, <1>3, RefusedKeeps
<1>5. TypeOK'
  BY <1>2, <1>3, <1>4 DEF IInv, TypeOK, ReaderTypeOK, Count
<1> QED BY <1>4, <1>5 DEF IInv

LEMMA ExecuteKeeps == ASSUME IInv, Execute PROVE IInv'
<1>0. PICK i : i = Following
  OBVIOUS
<1> DEFINE read == [l \in Leaf |-> IF l \in block[i].reads THEN Sees(l) ELSE NotHeld]
           right == read = SequencerRead(i)
<1>1. PICK faithful \in BOOLEAN, shown \in BOOLEAN :
        /\ right => shown = ~faithful
        /\ ~faithful => shown
        /\ executed' = Append(executed,
                Ran(IF shown THEN "divergent" ELSE "replayed", read, Observed(block[i].runs)))
        /\ cache' = [l \in Leaf |->
                IF l \in block[i].writes THEN IF right /\ faithful THEN i ELSE Wrong
                ELSE IF l \in block[i].reads THEN Sees(l) ELSE cache[l]]
        /\ declared' = IF faithful THEN declared \cup block[i].declares ELSE declared
        /\ LoadClasses(block[i].runs)
  BY <1>0 DEF Execute
<1>2. /\ Executing /\ Unbroken
      /\ UNCHANGED <<block, prefetched, relaxed, toTry, phase, wanted, supported, observe, converted,
                     broken, diff, at, recorded, unanswered>>
  BY DEF Execute
<1>3. /\ i \in 1..Count /\ i = Len(executed) + 1 /\ Len(executed) \in Nat
      /\ block[i] \in Tx /\ Rows = 1..Len(executed) /\ supported
  BY <1>0, <1>2, FollowingType
<1> DEFINE row == Ran(IF shown THEN "divergent" ELSE "replayed", read, Observed(block[i].runs))
<1>4. /\ \A l \in Leaf : Sees(l) \in Value
      /\ read \in [Leaf -> Value \cup {NotHeld}]
  BY SeesType
<1>5. row \in Row /\ row.outcome # "refused" /\ row.read = read
  BY <1>3, <1>4 DEF Ran, Row, Outcomes, Observed, Tx
<1>6. /\ executed' \in Seq(Row) /\ Len(executed') = i /\ Len(executed') <= Count
      /\ Rows' = Rows \cup {i} /\ executed'[i] = row
      /\ \A j \in Rows : /\ j \in Nat /\ j < i
                         /\ executed'[j] = executed[j] /\ Outcome(j)' = Outcome(j)
  BY <1>0, <1>1, <1>2, <1>5, RowAppended
<1>7. ASSUME NoneDiverged
      PROVE  \A l \in Leaf : Sees(l) = ValueAfter(Len(executed), l)
  BY <1>2, <1>7, SeesTheSequencers
<1>8. NoneDiverged => right
  BY <1>3, <1>7 DEF SequencerRead
<1>9. PrestateIsTheSequencers' /\ DiffIsOfTheWholeBlock' /\ PhaseFits'
  BY <1>0, <1>1, <1>2, <1>5, <1>8, RowKeeps
<1>10. BrokenIsFirst'
  <2>1. \A j \in Rows' : Outcome(j)' # "refused"
    BY <1>2, <1>3, <1>5, <1>6 DEF IInv, BrokenIsFirst, Outcome
  <2> QED BY <1>2, <1>3, <2>1 DEF BrokenIsFirst, Unbroken
<1>11. cache' \in [Leaf -> Value \cup {NotHeld}]
  <2>1. i \in Value /\ Wrong \in Value
    BY <1>3 DEF Value
  <2>2. cache \in [Leaf -> Value \cup {NotHeld}]
    BY DEF IInv, TypeOK
  <2> HIDE DEF right
  <2> QED BY <1>1, <1>4, <2>1, <2>2
<1>12. CacheFollows'
  <2> SUFFICES ASSUME NoneDiverged', NEW l \in Leaf
               PROVE  /\ cache'[l] # NotHeld => cache'[l] = ValueAfter(i, l)'
                      /\ Writers(i, l)' # {} => cache'[l] \in Nat \ {0}
                      /\ Writers(i, l)' = {} => cache'[l] \in {NotHeld, ParentValue(l)'}
    BY <1>6 DEF CacheFollows
  <2>1. NoneDiverged /\ ~shown
    <3>1. \A j \in Rows : Outcome(j) # "divergent"
      BY <1>6 DEF NoneDiverged
    <3>2. executed'[i].outcome # "divergent"
      BY <1>6 DEF NoneDiverged, Outcome
    <3> QED BY <1>6, <3>1, <3>2 DEF NoneDiverged, Ran
  <2>2. right /\ faithful
    BY <1>1, <1>8, <2>1
  <2>3. /\ ValueAfter(i, l)' = ValueAfter(i, l) /\ Writers(i, l)' = Writers(i, l)
        /\ ParentValue(l)' = ParentValue(l)
    BY <1>2 DEF ValueAfter, Writers, ParentValue
  <2>4. CASE l \in block[i].writes
    <3>1. Writers(i, l) # {} /\ ValueAfter(i, l) = i
      BY <1>3, <2>4, OneMore
    <3>2. cache'[l] = i
      BY <1>1, <2>2, <2>4
    <3> QED BY <1>3, <2>3, <3>1, <3>2
  <2>5. CASE l \notin block[i].writes
    <3>1. Writers(i, l) = Writers(Len(executed), l) /\ ValueAfter(i, l) = ValueAfter(Len(executed), l)
      BY <1>3, <2>5, OneMore
    <3>2. /\ cache[l] # NotHeld => cache[l] = ValueAfter(Len(executed), l)
          /\ Writers(Len(executed), l) # {} => cache[l] \in Nat \ {0}
          /\ Writers(Len(executed), l) = {} => cache[l] \in {NotHeld, ParentValue(l)}
      BY <1>2, <1>3, <2>1 DEF IInv, CacheFollows
    <3>3. cache'[l] = IF l \in block[i].reads THEN Sees(l) ELSE cache[l]
      BY <1>1, <2>5
    <3>4. CASE l \notin block[i].reads
      BY <2>3, <3>1, <3>2, <3>3, <3>4
    <3>5. CASE l \in block[i].reads
      <4>1. cache'[l] = ValueAfter(i, l)
        BY <1>7, <2>1, <3>1, <3>3, <3>5
      <4>2. CASE Writers(i, l) = {}
        BY <2>3, <4>1, <4>2 DEF ValueAfter
      <4>3. CASE Writers(i, l) # {}
        <5>1. cache[l] \in Nat \ {0} /\ cache[l] # NotHeld
          BY <3>1, <3>2, <4>3, MarkersAreDistinct DEF Value
        <5> QED BY <2>3, <3>1, <3>2, <4>1, <4>3, <5>1
      <4> QED BY <4>2, <4>3
    <3> QED BY <3>4, <3>5
  <2> QED BY <2>4, <2>5
<1>13. TypeOK'
  <2>1. classes' \subseteq Class /\ declared' \subseteq Class
    BY <1>1, <1>3 DEF LoadClasses, Tx, IInv, TypeOK, ReaderTypeOK
  <2> QED BY <1>2, <1>6, <1>11, <2>1 DEF IInv, TypeOK, ReaderTypeOK, Count
<1>14. PrefetchedIsTheParents'
  BY <1>2 DEF IInv, PrefetchedIsTheParents, ParentValue
<1> QED BY <1>9, <1>10, <1>12, <1>13, <1>14 DEF IInv

-----------------------------------------------------------------------------
(* Before and after the loop. *)

LEMMA FetchKeeps == ASSUME IInv, Fetch PROVE IInv'
<1> USE DEF Fetch, readerVars
<1>1. CASE supported
  <2>1. UNCHANGED <<block, supported, executed, cache, broken, diff, prefetched>>
    BY <1>1
  <2>2. TypeOK' /\ PhaseFits' /\ PrefetchedIsTheParents'
    BY <1>1, <2>1 DEF IInv, TypeOK, ReaderTypeOK, PhaseFits, Phases, Count, Nothing,
                      PrefetchedIsTheParents, ParentValue
  <2> QED BY <2>1, <2>2, OtherVariables
<1>2. CASE ~supported
  <2>1. Count \in Nat /\ Refused({}) \in Row /\ Refused({}).outcome = "refused"
    BY BlockType DEF IInv, Refused, Row, Outcomes, Nothing
  <2>2. /\ executed' \in Seq(Row) /\ Len(executed') = Count /\ Rows' = 1..Count
        /\ \A i \in 1..Count : executed'[i].outcome = "refused"
    BY <1>2, <2>1 DEF Rows
  <2>3. TypeOK'
    BY <1>2, <2>1, <2>2 DEF IInv, TypeOK, ReaderTypeOK, Phases, Count
  <2>4. PhaseFits' /\ PrefetchedIsTheParents'
    BY <1>2, <2>1, <2>2 DEF IInv, PhaseFits, Count, PrefetchedIsTheParents, ParentValue
  <2>5. CacheFollows' /\ BrokenIsFirst' /\ PrestateIsTheSequencers'
    BY <1>2, <2>2 DEF CacheFollows, BrokenIsFirst, PrestateIsTheSequencers, Outcome
  <2>6. DiffIsOfTheWholeBlock'
    BY DEF IInv, PhaseFits, DiffIsOfTheWholeBlock
  <2> QED BY <2>3, <2>4, <2>5, <2>6 DEF IInv
<1> QED BY <1>1, <1>2

LEMMA ConvertKeeps == ASSUME IInv, Convert PROVE IInv'
<1>1. /\ UNCHANGED <<block, prefetched, relaxed, toTry, phase, wanted, supported, observe, cache,
                     declared, executed, broken, diff, at, recorded, classes>>
      /\ Len(converted) + 1 \in DOMAIN block
      /\ unanswered' \subseteq unanswered \cup {Len(converted) + 1}
      /\ converted' = Append(converted, TRUE) \/ converted' = Append(converted, FALSE)
  <2>1. converted \in Seq(BOOLEAN) /\ Len(converted) < Count /\ DOMAIN block = 1..Count /\ Count \in Nat
    BY BlockType DEF Convert, IInv, TypeOK
  <2>2. Len(converted) + 1 \in DOMAIN block
    BY <2>1
  <2>3. /\ UNCHANGED classes
        /\ unanswered' \subseteq unanswered \cup {Len(converted) + 1}
        /\ converted' = Append(converted, TRUE) \/ converted' = Append(converted, FALSE)
    BY DEF Convert, DeclaredClassRecord
  <2> QED BY <2>2, <2>3 DEF Convert
<1>2. converted' \in Seq(BOOLEAN) /\ Len(converted') <= Count
  <2>1. converted \in Seq(BOOLEAN) /\ Len(converted) < Count /\ Count \in Nat
    BY BlockType DEF IInv, TypeOK, Convert
  <2>2. \A b \in BOOLEAN : Append(converted, b) \in Seq(BOOLEAN)
                         /\ Len(Append(converted, b)) = Len(converted) + 1
    BY <2>1
  <2>3. Len(converted) + 1 <= Count
    BY <2>1
  <2> QED BY <1>1, <2>2, <2>3
<1>3. TypeOK'
  BY <1>1, <1>2 DEF IInv, TypeOK, ReaderTypeOK, Count
<1>4. PhaseFits' /\ PrefetchedIsTheParents'
  BY <1>1 DEF IInv, PhaseFits, Count, Nothing, PrefetchedIsTheParents, ParentValue
<1> QED BY <1>1, <1>3, <1>4, OtherVariables

\* Steps that only move the run to its next phase.
LEMMA PhaseKeeps == ASSUME IInv, CreateExecutor \/ ExecutionOver \/ Report \/ GiveUp PROVE IInv'
<1>1. UNCHANGED <<readerVars, wanted, supported, observe, converted, cache, declared, executed,
                  broken, diff, at, recorded, unanswered>>
  BY DEF CreateExecutor, ExecutionOver, Report, GiveUp
<1>2. TypeOK'
  BY <1>1 DEF IInv, TypeOK, ReaderTypeOK, readerVars, Count, Phases,
              CreateExecutor, ExecutionOver, Report, GiveUp
<1>3. PhaseFits'
  BY <1>1 DEF IInv, PhaseFits, readerVars, Count, CreateExecutor, ExecutionOver, Report, GiveUp
<1>4. PrefetchedIsTheParents'
  BY <1>1 DEF IInv, PrefetchedIsTheParents, ParentValue, readerVars
<1> QED BY <1>1, <1>2, <1>3, <1>4, OtherVariables DEF readerVars

LEMMA RecordKeeps == ASSUME IInv, Record PROVE IInv'
<1>1. UNCHANGED <<readerVars, wanted, supported, observe, converted, cache, declared, executed,
                  broken, diff, unanswered>>
  BY DEF Record
<1>2. TypeOK'
  <2>1. at \in DOMAIN block /\ at' \in {at, at + 1} /\ at + 1 <= Count + 1
    BY BlockType DEF IInv, TypeOK, Record
  <2>2. recorded' \subseteq recorded \cup {at} /\ phase' \in Phases
    BY DEF Record, Phases
  <2> QED BY <1>1, <2>1, <2>2, BlockType DEF IInv, TypeOK, ReaderTypeOK, readerVars, Count
<1>3. PhaseFits'
  BY <1>1 DEF IInv, PhaseFits, readerVars, Count, Record
<1>4. PrefetchedIsTheParents'
  BY <1>1 DEF IInv, PrefetchedIsTheParents, ParentValue, readerVars
<1> QED BY <1>1, <1>2, <1>3, <1>4, OtherVariables DEF readerVars

\* A block whose every transaction was reproduced leaves what the node publishes.
LEMMA ReproducedMatches ==
    ASSUME IInv, supported, Unbroken, NoneDiverged, Len(executed) = Count
    PROVE  Replayed = Published
<1>1. \A l \in Leaf :
        /\ cache[l] # NotHeld => cache[l] = ValueAfter(Count, l)
        /\ Writers(Count, l) # {} => cache[l] \in Nat \ {0}
        /\ Writers(Count, l) = {} => cache[l] \in {NotHeld, ParentValue(l)}
  BY DEF IInv, CacheFollows
<1>2. ASSUME NEW l \in Leaf
      PROVE  /\ cache[l] \in Value \ {Zero, Old} <=> Writers(Count, l) # {}
             /\ Writers(Count, l) # {} => cache[l] = ValueAfter(Count, l)
  BY <1>1, MarkersAreDistinct DEF Value, ParentValue
<1> QED BY <1>2 DEF Replayed, Published

LEMMA CompareKeeps == ASSUME IInv, Compare PROVE IInv'
<1>1. /\ UNCHANGED <<readerVars, wanted, supported, observe, converted, cache, declared, executed,
                     broken, at, recorded, unanswered>>
      /\ phase = "compare" /\ phase' = "record"
      /\ diff' = IF ~Summarised THEN "notMeasured"
                 ELSE IF Replayed = Published THEN "matches" ELSE "differs"
  BY DEF Compare
<1>2. Len(executed) = Count /\ Count \in Nat /\ Rows = 1..Count /\ DOMAIN block = 1..Count
  BY <1>1, BlockType DEF IInv, TypeOK, PhaseFits, Rows
<1>3. TypeOK' /\ PhaseFits' /\ PrefetchedIsTheParents'
  BY <1>1, <1>2 DEF IInv, TypeOK, ReaderTypeOK, readerVars, Count, Phases, PhaseFits,
                    PrefetchedIsTheParents, ParentValue
<1>4. CacheFollows' /\ BrokenIsFirst' /\ PrestateIsTheSequencers'
  <2>1. CacheFollows'
    BY <1>1 DEF IInv, readerVars, CacheFollows, Unbroken, NoneDiverged, Rows, Outcome, ValueAfter,
                Writers, ParentValue
  <2>2. BrokenIsFirst'
    BY <1>1 DEF IInv, BrokenIsFirst, Unbroken, Rows, Outcome
  <2>3. PrestateIsTheSequencers'
    BY <1>1 DEF IInv, readerVars, PrestateIsTheSequencers, DivergedBefore, Rows, Outcome,
                SequencerRead, ValueAfter, Writers, ParentValue
  <2> QED BY <2>1, <2>2, <2>3
<1>5. (~supported \/ \E i \in DOMAIN block : Outcome(i) = "refused") <=> ~Summarised
  <2>1. \A i \in 1..Count : Outcome(i) = "refused" <=> (~supported \/ (~Unbroken /\ broken <= i))
    BY <1>2 DEF IInv, BrokenIsFirst
  <2>2. ~Unbroken => broken \in 1..Count
    BY DEF IInv, TypeOK, Unbroken
  <2>3. broken \in 1..Count => broken <= broken
    OBVIOUS
  <2> QED BY <1>2, <2>1, <2>2, <2>3 DEF Summarised
<1>6. (\A i \in DOMAIN block : Outcome(i) = "replayed") /\ Summarised => Replayed = Published
  BY <1>2, ReproducedMatches DEF Summarised, NoneDiverged
<1>7. DiffIsOfTheWholeBlock'
  BY <1>1, <1>5, <1>6 DEF DiffIsOfTheWholeBlock, Outcome, readerVars
<1> QED BY <1>3, <1>4, <1>7 DEF IInv

LEMMA NextHolds == IInv /\ [Next]_vars => IInv'
<1> SUFFICES ASSUME IInv, [Next]_vars PROVE IInv'
  OBVIOUS
<1>1. CASE UNCHANGED vars
  <2>1. TypeOK' /\ PhaseFits' /\ PrefetchedIsTheParents'
    BY <1>1 DEF vars, readerVars, replayVars, IInv, TypeOK, ReaderTypeOK, Count, PhaseFits,
                Nothing, PrefetchedIsTheParents, ParentValue
  <2> QED BY <1>1, <2>1, OtherVariables DEF vars, readerVars, replayVars
<1> QED BY <1>1, FetchKeeps, PrefetchKeeps, ConvertKeeps, PhaseKeeps, SkipKeeps, UnconvertedKeeps,
           ExecuteKeeps, ErrorKeeps, CompareKeeps, RecordKeeps DEF Next

THEOREM InvariantHolds == Spec => []IInv
BY InitHolds, NextHolds, PTL DEF Spec

-----------------------------------------------------------------------------
\* Every variable of the reader and of the replay has its type.
THEOREM ReplayTypeCorrect == Spec => []TypeOK
<1>1. IInv => TypeOK
  BY DEF IInv
<1> QED BY <1>1, InvariantHolds, PTL

\* A transaction that ran with no divergence before it saw the sequencer's state,
\* whichever of its leaves were prefetched, asked for or written earlier in the block.
THEOREM PrestateIsRight == Spec => []PrestateIsTheSequencers
<1>1. IInv => PrestateIsTheSequencers
  BY DEF IInv
<1> QED BY <1>1, InvariantHolds, PTL

\* Nothing runs after a refused transaction.
THEOREM RefusalIsFinal == Spec => []RefusalStopsTheBlock
<1>1. IInv => RefusalStopsTheBlock
  <2> SUFFICES ASSUME IInv, NEW i \in Rows, NEW j \in Rows, i < j, Outcome(i) = "refused"
               PROVE  Outcome(j) = "refused"
    BY DEF RefusalStopsTheBlock
  <2>1. i \in Nat /\ j \in Nat /\ broken \in Nat
    BY BlockType DEF IInv, TypeOK, Rows
  <2> QED BY <2>1 DEF IInv, BrokenIsFirst
<1> QED BY <1>1, InvariantHolds, PTL

\* The block diff is measured when every transaction ran and only then, and matches
\* the node's when every one of them was reproduced.
THEOREM DiffIsWhole == Spec => []DiffIsOfTheWholeBlock
<1>1. IInv => DiffIsOfTheWholeBlock
  BY DEF IInv
<1> QED BY <1>1, InvariantHolds, PTL

-----------------------------------------------------------------------------
(* Why a transaction is refused. *)

\* The reader's classes are the parent's; the executor's own, while nothing was
\* refused and nothing diverged, those the block has declared so far.
ClassesFollow ==
    /\ classes \subseteq AtParent
    /\ supported /\ Unbroken /\ NoneDiverged => declared = DeclaredBefore(block, Len(executed) + 1)

\* A body that did not convert is of a kind that is not executable, or the node did
\* not answer for its class.
ConversionFits ==
    /\ phase \in {"fetch", "prefetch"} => converted = << >>
    /\ phase = "execute" => Len(converted) = Count
    /\ \A i \in DOMAIN converted : ~converted[i] => block[i].kind = "DEPLOY" \/ i \in unanswered

CauseInv == IInv /\ ClassesFollow /\ ConversionFits /\ RefusalsHaveACause

LEMMA CauseInit == Init => CauseInv
<1> SUFFICES ASSUME Init PROVE CauseInv
  OBVIOUS
<1>1. Len(executed) = 0 /\ Rows = {}
  BY DEF Init, Rows
<1>2. DeclaredBefore(block, 1) = {}
  BY DEF DeclaredBefore
<1> QED BY <1>1, <1>2, InitHolds DEF Init, ReaderInit, CauseInv, ClassesFollow, ConversionFits,
           RefusalsHaveACause

\* Steps that leave the rows and the executor alone.
LEMMA CauseKept ==
    ASSUME CauseInv, IInv', ConversionFits', classes' \subseteq AtParent,
           UNCHANGED <<block, supported, declared, executed, broken>>, unanswered \subseteq unanswered'
    PROVE  CauseInv'
<1>1. ClassesFollow'
  BY DEF CauseInv, ClassesFollow, Unbroken, NoneDiverged, Rows, Outcome, DeclaredBefore
<1>2. RefusalsHaveACause'
  BY DEF CauseInv, RefusalsHaveACause, Rows, Outcome
<1> QED BY <1>1, <1>2 DEF CauseInv

\* A mined transaction that is reached on the sequencer's state can be executed.
LEMMA MinedIsExecutable ==
    ASSUME CauseInv, Executing, Unbroken, NoneDiverged
    PROVE  Executable(Following)
<1>1. Following \in DOMAIN block /\ Following = Len(executed) + 1 /\ supported
  BY FollowingType, BlockType DEF CauseInv, IInv
<1>2. classes \subseteq AtParent /\ declared = DeclaredBefore(block, Following)
  BY <1>1 DEF CauseInv, ClassesFollow
<1>3. /\ block[Following].runs \subseteq AtParent \cup DeclaredBefore(block, Following)
      /\ block[Following].declares \cap (AtParent \cup DeclaredBefore(block, Following)) = {}
  BY <1>1, BlocksAreMined DEF CauseInv, IInv, TypeOK, ReaderTypeOK
<1> QED BY <1>2, <1>3 DEF Executable, Redeclares, Found

\* A row is appended: what it needs for the causes.
LEMMA CauseOfARow ==
    ASSUME CauseInv, Executing, NEW row \in Row, executed' = Append(executed, row),
           UNCHANGED <<block, supported>>, unanswered \subseteq unanswered',
           row.outcome = "refused" =>
               \/ \E j \in Rows : Outcome(j) \in {"refused", "divergent"}
               \/ block[Following].kind = "DEPLOY"
               \/ Following \in unanswered'
    PROVE  RefusalsHaveACause'
<1>1. /\ Rows' = Rows \cup {Following} /\ executed'[Following] = row
      /\ Rows = 1..(Following - 1) /\ Following \in Nat
      /\ \A i \in Rows : i \in Nat /\ i < Following /\ Outcome(i)' = Outcome(i)
  BY RowAppended, FollowingType DEF CauseInv
<1>2. ASSUME NEW i \in Rows', Outcome(i)' = "refused", supported
      PROVE  \/ \E j \in 1..(i - 1) : Outcome(j)' \in {"refused", "divergent"}
             \/ block[i].kind = "DEPLOY"
             \/ i \in unanswered'
  <2>1. CASE i = Following
    BY <1>1, <1>2, <2>1 DEF Outcome
  <2>2. CASE i \in Rows
    <3>1. Outcome(i) = "refused" /\ \A j \in 1..(i - 1) : j \in Rows
      BY <1>1, <1>2, <2>2
    <3>2. \/ \E j \in 1..(i - 1) : Outcome(j) \in {"refused", "divergent"}
          \/ block[i].kind = "DEPLOY"
          \/ i \in unanswered
      BY <1>2, <2>2, <3>1 DEF CauseInv, RefusalsHaveACause
    <3> QED BY <1>1, <3>1, <3>2
  <2> QED BY <1>1, <2>1, <2>2
<1> QED BY <1>2 DEF RefusalsHaveACause

LEMMA CauseOfARefusal ==
    ASSUME CauseInv, SkipBroken \/ RefuseUnconverted \/ ExecutorError, IInv'
    PROVE  CauseInv'
<1>1. PICK ran \in SUBSET Class : executed' = Append(executed, Refused(ran))
  <2>1. CASE SkipBroken \/ RefuseUnconverted
    BY <2>1 DEF SkipBroken, RefuseUnconverted
  <2>2. CASE ExecutorError
    <3>1. PICK loaded, ran : /\ loaded \subseteq block[Following].runs /\ ran \subseteq loaded
                             /\ executed' = Append(executed, Refused(Observed(ran)))
      BY <2>2 DEF ExecutorError
    <3>2. block[Following] \in Tx
      BY <2>2, FollowingType DEF ExecutorError, CauseInv
    <3> QED BY <3>1, <3>2 DEF Observed, Tx
  <2> QED BY <2>1, <2>2
<1>2. Refused(ran) \in Row /\ Refused(ran).outcome = "refused"
  BY DEF Refused, Row, Outcomes, Nothing
<1>3. /\ Executing /\ UNCHANGED <<block, supported, phase, converted, declared>>
      /\ unanswered \subseteq unanswered' /\ classes' \subseteq AtParent
  BY DEF SkipBroken, RefuseUnconverted, ExecutorError, readerVars, LoadClasses, CauseInv, ClassesFollow
<1>4. ~Unbroken'
  <2>1. Following \in 1..Count
    BY <1>3, FollowingType DEF CauseInv
  <2> QED BY <2>1 DEF SkipBroken, RefuseUnconverted, ExecutorError, Break, Unbroken
<1>5. ClassesFollow'
  BY <1>3, <1>4 DEF ClassesFollow
<1>6. ConversionFits'
  BY <1>3 DEF CauseInv, ConversionFits, Count
<1>7. \/ \E j \in Rows : Outcome(j) \in {"refused", "divergent"}
      \/ block[Following].kind = "DEPLOY"
      \/ Following \in unanswered'
  <2>1. CASE SkipBroken
    <3>1. ~Unbroken /\ supported /\ Rows = 1..Len(executed) /\ Len(executed) \in Nat
      BY <2>1, <1>3, FollowingType DEF SkipBroken, CauseInv
    <3>2. broken \in Rows /\ broken <= broken
      BY <3>1 DEF CauseInv, IInv, TypeOK, PhaseFits, Unbroken
    <3>3. Outcome(broken) = "refused"
      BY <3>1, <3>2 DEF CauseInv, IInv, BrokenIsFirst
    <3> QED BY <3>2, <3>3
  <2>2. CASE RefuseUnconverted
    <3>1. Following \in DOMAIN converted
      <4>1. Len(converted) = Count /\ Following \in 1..Count /\ converted \in Seq(BOOLEAN)
        BY <1>3, FollowingType DEF CauseInv, IInv, TypeOK, ConversionFits, Executing
      <4> QED BY <4>1
    <3> QED BY <1>3, <2>2, <3>1 DEF RefuseUnconverted, CauseInv, ConversionFits
  <2>3. CASE ExecutorError
    <3>1. CASE NoneDiverged
      <4>1. Executable(Following)
        BY <2>3, <3>1, MinedIsExecutable DEF ExecutorError
      <4> QED BY <2>3, <4>1 DEF ExecutorError
    <3>2. CASE ~NoneDiverged
      BY <3>2 DEF NoneDiverged
    <3> QED BY <3>1, <3>2
  <2> QED BY <2>1, <2>2, <2>3
<1>8. RefusalsHaveACause'
  BY <1>1, <1>2, <1>3, <1>7, CauseOfARow
<1> QED BY <1>5, <1>6, <1>8 DEF CauseInv

LEMMA CauseOfARun == ASSUME CauseInv, Execute, IInv' PROVE CauseInv'
<1>0. PICK i : i = Following
  OBVIOUS
<1> DEFINE read == [l \in Leaf |-> IF l \in block[i].reads THEN Sees(l) ELSE NotHeld]
<1>1. PICK faithful \in BOOLEAN, shown \in BOOLEAN :
        /\ ~faithful => shown
        /\ executed' = Append(executed,
                Ran(IF shown THEN "divergent" ELSE "replayed", read, Observed(block[i].runs)))
        /\ declared' = IF faithful THEN declared \cup block[i].declares ELSE declared
        /\ LoadClasses(block[i].runs)
  BY <1>0 DEF Execute
<1>2. /\ Executing /\ Unbroken
      /\ UNCHANGED <<block, supported, phase, converted, broken, unanswered>>
  BY DEF Execute
<1> DEFINE row == Ran(IF shown THEN "divergent" ELSE "replayed", read, Observed(block[i].runs))
<1>3. row \in Row /\ row.outcome = IF shown THEN "divergent" ELSE "replayed"
  <2>1. block[i] \in Tx
    BY <1>0, <1>2, FollowingType DEF CauseInv
  <2>2. read \in [Leaf -> Value \cup {NotHeld}]
    BY SeesType DEF CauseInv
  <2> QED BY <2>1, <2>2 DEF Ran, Row, Outcomes, Observed, Tx
<1>4. RefusalsHaveACause'
  BY <1>1, <1>2, <1>3, CauseOfARow
<1>5. classes' \subseteq AtParent
  BY <1>1 DEF LoadClasses, CauseInv, ClassesFollow
<1>6. ASSUME NoneDiverged' PROVE declared' = DeclaredBefore(block, Len(executed) + 1)'
  <2>1. /\ Rows' = Rows \cup {Following} /\ executed'[Following] = row
        /\ Len(executed') = Following
        /\ \A j \in Rows : Outcome(j)' = Outcome(j)
    BY <1>0, <1>1, <1>2, <1>3, RowAppended DEF CauseInv
  <2>2. NoneDiverged /\ ~shown
    <3>1. \A j \in Rows' : Outcome(j)' # "divergent"
      BY <1>6 DEF NoneDiverged
    <3>2. row.outcome # "divergent"
      BY <2>1, <3>1 DEF Outcome
    <3>3. \A j \in Rows : Outcome(j) # "divergent"
      BY <2>1, <3>1
    <3> QED BY <1>3, <3>2, <3>3 DEF NoneDiverged
  <2>3. /\ Following = Len(executed) + 1 /\ Len(executed) \in Nat /\ supported
    BY <1>2, FollowingType DEF CauseInv
  <2>4. declared = DeclaredBefore(block, Following)
    BY <1>2, <2>2, <2>3 DEF CauseInv, ClassesFollow
  <2>5. declared' = declared \cup block[Following].declares
    BY <1>0, <1>1, <2>2
  <2>6. DeclaredBefore(block, Following + 1) = DeclaredBefore(block, Following) \cup block[Following].declares
    <3>1. 1..(Following + 1 - 1) = (1..(Following - 1)) \cup {Following}
      BY <2>3
    <3> QED BY <3>1 DEF DeclaredBefore
  <2>7. DeclaredBefore(block, Len(executed) + 1)' = DeclaredBefore(block, Following + 1)
    BY <1>2, <2>1 DEF DeclaredBefore
  <2> QED BY <2>4, <2>5, <2>6, <2>7
<1>7. ClassesFollow'
  BY <1>5, <1>6 DEF ClassesFollow
<1>8. ConversionFits'
  BY <1>2 DEF CauseInv, ConversionFits, Count
<1> QED BY <1>4, <1>7, <1>8 DEF CauseInv

LEMMA CauseOfConvert == ASSUME CauseInv, Convert, IInv' PROVE CauseInv'
<1>1. /\ UNCHANGED <<block, phase, supported, declared, executed, broken, classes>>
      /\ unanswered \subseteq unanswered' /\ phase = "convert"
  BY DEF Convert, DeclaredClassRecord
<1>2. PICK done \in BOOLEAN :
        /\ converted' = Append(converted, done)
        /\ ~done => \/ block[Len(converted) + 1].kind = "DEPLOY"
                    \/ Len(converted) + 1 \in unanswered'
  BY DEF Convert
<1>3. converted \in Seq(BOOLEAN)
  BY DEF CauseInv, IInv, TypeOK
<1>4. /\ DOMAIN converted' = DOMAIN converted \cup {Len(converted) + 1}
      /\ converted'[Len(converted) + 1] = done
      /\ \A i \in DOMAIN converted : converted'[i] = converted[i]
  BY <1>2, <1>3
<1>5. ConversionFits'
  BY <1>1, <1>2, <1>4 DEF CauseInv, ConversionFits
<1>6. classes' \subseteq AtParent
  BY <1>1 DEF CauseInv, ClassesFollow
<1> QED BY <1>1, <1>5, <1>6, CauseKept

LEMMA CauseNext == CauseInv /\ [Next]_vars => CauseInv'
<1> SUFFICES ASSUME CauseInv, [Next]_vars PROVE CauseInv'
  OBVIOUS
<1>0. IInv'
  BY NextHolds DEF CauseInv
<1>1. ASSUME UNCHANGED <<block, supported, declared, executed, broken, classes, converted, unanswered>>,
             phase' \in {"fetch", "prefetch"} => phase \in {"fetch", "prefetch"},
             phase' = "execute" => phase = "execute" \/ Len(converted) = Count
      PROVE  CauseInv'
  <2>1. ConversionFits'
    BY <1>1 DEF CauseInv, ConversionFits, Count
  <2>2. classes' \subseteq AtParent
    BY <1>1 DEF CauseInv, ClassesFollow
  <2> QED BY <1>0, <1>1, <2>1, <2>2, CauseKept
<1>2. CASE Fetch
  <2>1. CASE supported
    BY <1>1, <1>2, <2>1 DEF Fetch, readerVars
  <2>2. CASE ~supported
    <3>1. /\ ~supported' /\ phase' = "compare" /\ UNCHANGED <<block, converted, unanswered, classes>>
      BY <1>2, <2>2 DEF Fetch, readerVars
    <3>2. RefusalsHaveACause'
      BY <3>1 DEF RefusalsHaveACause
    <3>3. ClassesFollow' /\ ConversionFits'
      BY <3>1 DEF CauseInv, ClassesFollow, ConversionFits
    <3> QED BY <1>0, <3>2, <3>3 DEF CauseInv
  <2> QED BY <2>1, <2>2
<1>3. CASE PrefetchStep
  BY <1>1, <1>3 DEF PrefetchStep, Prefetch, PrefetchWhole, PrefetchRefused, PrefetchOne, readerVars
<1>4. CASE CreateExecutor \/ ExecutionOver \/ Report \/ GiveUp \/ Compare
  BY <1>1, <1>4 DEF CreateExecutor, ExecutionOver, Report, GiveUp, Compare, readerVars
<1>5. CASE Record
  BY <1>1, <1>5 DEF Record, readerVars
<1>6. CASE UNCHANGED vars
  BY <1>1, <1>6 DEF vars, readerVars, replayVars
<1> QED BY <1>0, <1>2, <1>3, <1>4, <1>5, <1>6, CauseOfARefusal, CauseOfARun, CauseOfConvert DEF Next

\* A mined transaction is refused only for a cause that its block or the node gives.
THEOREM RefusalsAlwaysHaveACause == Spec => []RefusalsHaveACause
<1>1. CauseInv => RefusalsHaveACause
  BY DEF CauseInv
<1> QED BY <1>1, CauseInit, CauseNext, PTL DEF Spec
=============================================================================
