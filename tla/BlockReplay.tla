---------------------------- MODULE BlockReplay ----------------------------
(***************************************************************************)
(* `codetracer-cairo-onchain trace-block` (src/onchain/src/main.rs,        *)
(* trace_block): fetch a mined block, prefetch its prestate, convert every *)
(* body, run the transactions in order in one executor, compare each with  *)
(* its receipt and the whole block with the node's state update, then      *)
(* write a recording of every wanted transaction that was observed.        *)
(*                                                                         *)
(* The executor (StarkWare's blockifier, with the observer patched in) is  *)
(* outside the sources and modelled from how they use it: it keeps what    *)
(* earlier transactions read and wrote, asks the reader for the rest,      *)
(* fails when a question stays unanswered, refuses to declare a class it   *)
(* finds declared, and otherwise either does what the sequencer did or     *)
(* diverges, which the receipt's facts then show.                          *)
(***************************************************************************)
EXTENDS StateReader

CONSTANT Requests     \* the sets of `--tx` arguments: indices, 0 for another block's hash

VARIABLES phase,
          wanted,       \* the transactions asked for; none asked is all of them
          supported,    \* whether the executor carries constants for the block's version
          observe,      \* whether the observer is installed around each execution
          converted,    \* for each body converted so far, whether it became a transaction
          cache,        \* the executor's state: leaf -> value, or NotHeld
          declared,     \* the classes the executor's own transactions declared
          executed,     \* one row per transaction the loop has passed
          broken,       \* the first refused index, 0 when there is none
          diff,         \* the block diff: none yet, not measured, matches, differs
          at, recorded, \* the recording loop's position; the captures written
          unanswered    \* history: the transactions a question about stayed unanswered

replayVars == <<phase, wanted, supported, observe, converted, cache, declared,
                executed, broken, diff, at, recorded, unanswered>>
vars == <<readerVars, replayVars>>

Nothing == [l \in Leaf |-> NotHeld]
Count == Len(block)

Init ==
    /\ ReaderInit
    /\ phase = "fetch"
    /\ wanted \in Requests
    /\ supported \in BOOLEAN
    /\ observe \in BOOLEAN
    /\ converted = << >>
    /\ cache = Nothing
    /\ declared = {}
    /\ executed = << >>
    /\ broken = 0
    /\ diff = "none"
    /\ at = 1
    /\ recorded = {}
    /\ unanswered = {}

-----------------------------------------------------------------------------
(* Rows of the run. *)

Refused(frames) == [outcome |-> "refused", read |-> Nothing, frames |-> frames]
Ran(outcome, read, frames) == [outcome |-> outcome, read |-> read, frames |-> frames]

\* The frames the observer hands over: the classes they ran.
Observed(classesRun) == IF observe THEN classesRun ELSE {}

-----------------------------------------------------------------------------
(* fetch_block, the check of --tx, the node's traces, block_context. *)

Fetch ==
    /\ phase = "fetch"
    /\ 0 \notin wanted
    /\ IF supported
          THEN phase' = "prefetch" /\ UNCHANGED executed
          ELSE /\ phase' = "compare"
               /\ executed' = [i \in 1..Count |-> Refused({})]
    /\ UNCHANGED <<readerVars, wanted, supported, observe, converted, cache, declared,
                   broken, diff, at, recorded, unanswered>>

PrefetchStep ==
    /\ phase = "prefetch"
    /\ \/ Prefetch /\ UNCHANGED phase
       \/ Prefetched /\ phase' = "convert" /\ UNCHANGED readerVars
    /\ UNCHANGED <<wanted, supported, observe, converted, cache, declared, executed,
                   broken, diff, at, recorded, unanswered>>

\* block::executable, for the next body: a pre-0.10 DEPLOY is not executable, and a
\* DECLARE needs its class, which the node may not give.
Convert ==
    /\ phase = "convert"
    /\ Len(converted) < Count
    /\ LET i == Len(converted) + 1 IN
         \/ /\ block[i].kind # "DEPLOY"
            /\ IF block[i].kind = "DECLARE" THEN DeclaredClassRecord(i) ELSE UNCHANGED classes
            /\ converted' = Append(converted, TRUE)
            /\ UNCHANGED unanswered
         \/ /\ block[i].kind \in {"DEPLOY", "DECLARE"}
            /\ converted' = Append(converted, FALSE)
            /\ unanswered' = IF block[i].kind = "DECLARE" THEN unanswered \cup {i} ELSE unanswered
            /\ UNCHANGED classes
    /\ UNCHANGED <<block, prefetched, relaxed, toTry, phase, wanted, supported, observe, cache,
                   declared, executed, broken, diff, at, recorded>>

\* TransactionExecutor::pre_process_and_create, once every body was converted.
CreateExecutor ==
    /\ phase = "convert"
    /\ Len(converted) = Count
    /\ phase' = "execute"
    /\ UNCHANGED <<readerVars, wanted, supported, observe, converted, cache, declared, executed,
                   broken, diff, at, recorded, unanswered>>

-----------------------------------------------------------------------------
(* The execution loop. *)

Following == Len(executed) + 1
Executing == phase = "execute" /\ Len(executed) < Count

\* No earlier index of the block was refused.
Unbroken == broken = 0

\* `if result.is_err() && broken.is_none() { broken = Some(i) }`.
Break(i) == broken' = IF Unbroken THEN i ELSE broken

\* What the executor sees of a leaf: its own state first, then the reader.
Sees(l) == IF cache[l] # NotHeld THEN cache[l] ELSE Read(l)

\* The values a transaction read in the sequencer's run of the block.
SequencerRead(i) ==
    [l \in Leaf |-> IF l \in block[i].reads THEN ValueAfter(i - 1, l) ELSE NotHeld]

\* What the executor asks the node while it runs transaction i.
Asks(i) ==
    \/ \E l \in block[i].reads : cache[l] = NotHeld /\ prefetched[l] = NotHeld
    \/ ~ (block[i].runs \subseteq classes \cup declared)
    \/ block[i].declares # {}

Redeclares(i) == block[i].declares \cap (Found \cup declared) # {}
Executable(i) == block[i].runs \subseteq Found \cup declared /\ ~Redeclares(i)

\* A transaction after a refused one does not run.
SkipBroken ==
    /\ Executing /\ ~Unbroken
    /\ executed' = Append(executed, Refused({}))
    /\ UNCHANGED <<readerVars, phase, wanted, supported, observe, converted, cache, declared,
                   broken, diff, at, recorded, unanswered>>

\* Mutant of RefuseUnconverted: the block is not broken by a body that did not convert.
RefuseAndGoOn ==
    /\ Executing /\ Unbroken
    /\ ~converted[Following]
    /\ executed' = Append(executed, Refused({}))
    /\ UNCHANGED <<readerVars, phase, wanted, supported, observe, converted, cache, declared,
                   broken, diff, at, recorded, unanswered>>

\* A body that did not convert stops the block there.
RefuseUnconverted ==
    /\ Executing /\ Unbroken
    /\ ~converted[Following]
    /\ executed' = Append(executed, Refused({}))
    /\ Break(Following)
    /\ UNCHANGED <<readerVars, phase, wanted, supported, observe, converted, cache, declared,
                   diff, at, recorded, unanswered>>

\* The executor runs the transaction on what it sees: as the sequencer did, or, with a
\* class whose recompilation differs, not.  What a transaction writes on another
\* prestate than the sequencer's is wrong, and its facts may or may not show it.
Execute ==
    /\ Executing /\ Unbroken
    /\ converted[Following]
    /\ Executable(Following)
    /\ LET i == Following
           read == [l \in Leaf |-> IF l \in block[i].reads THEN Sees(l) ELSE NotHeld]
           right == read = SequencerRead(i)
       IN \E faithful \in BOOLEAN, shown \in BOOLEAN :
            /\ right => shown = ~faithful
            /\ ~faithful => shown
            /\ executed' = Append(executed,
                    Ran(IF shown THEN "divergent" ELSE "replayed", read, Observed(block[i].runs)))
            /\ cache' = [l \in Leaf |->
                    IF l \in block[i].writes
                       THEN IF right /\ faithful THEN i ELSE Wrong
                    ELSE IF l \in block[i].reads THEN Sees(l) ELSE cache[l]]
            /\ declared' = IF faithful THEN declared \cup block[i].declares ELSE declared
            /\ LoadClasses(block[i].runs)
    /\ UNCHANGED <<block, prefetched, relaxed, toTry, phase, wanted, supported, observe, converted,
                   broken, diff, at, recorded, unanswered>>

\* The executor returns an error: a question stayed unanswered, a class it needs is
\* not declared, or one it is to declare is.  Entry points that had already started
\* were observed, and the classes loaded by then stay in the reader.
ExecutorError ==
    /\ Executing /\ Unbroken
    /\ converted[Following]
    /\ LET i == Following IN
         /\ Asks(i) \/ ~Executable(i)
         /\ unanswered' = IF Executable(i) THEN unanswered \cup {i} ELSE unanswered
         /\ \E loaded \in SUBSET (block[i].runs \cap (Found \cup declared)) :
            \E ran \in SUBSET loaded :
               /\ executed' = Append(executed, Refused(Observed(ran)))
               /\ LoadClasses(loaded)
         /\ Break(i)
    /\ UNCHANGED <<block, prefetched, relaxed, toTry, phase, wanted, supported, observe, converted,
                   cache, declared, diff, at, recorded>>

ExecutionOver ==
    /\ phase = "execute" /\ Len(executed) = Count
    /\ phase' = "compare"
    /\ UNCHANGED <<readerVars, wanted, supported, observe, converted, cache, declared, executed,
                   broken, diff, at, recorded, unanswered>>

-----------------------------------------------------------------------------
(* The block diff, the recordings, block.json. *)

\* Mutant of Summarised: the executor is finalised whatever was refused.
SummarisedAnyway == supported

\* The executor is finalised, and its diff kept, only if it ran and nothing was refused.
Summarised == supported /\ Unbroken

Replayed == {<<l, cache[l]>> : l \in {k \in Leaf : cache[k] \in Value \ {Zero, Old}}}
Published ==
    {<<l, ValueAfter(Count, l)>> : l \in {k \in Leaf : Writers(Count, k) # {}}}

Compare ==
    /\ phase = "compare"
    /\ diff' = IF ~Summarised THEN "notMeasured"
               ELSE IF Replayed = Published THEN "matches" ELSE "differs"
    /\ phase' = "record"
    /\ UNCHANGED <<readerVars, wanted, supported, observe, converted, cache, declared, executed,
                   broken, at, recorded, unanswered>>

\* The next row of the recording loop.  A row nobody wants, or without frames, is
\* skipped; a class that ran and that the reader does not hold ends the whole run.
Record ==
    /\ phase = "record" /\ at <= Count
    /\ LET skipped == (wanted # {} /\ at \notin wanted) \/ executed[at].frames = {}
           listed == executed[at].frames \subseteq classes
       IN /\ recorded' = IF ~skipped /\ listed THEN recorded \cup {at} ELSE recorded
          /\ IF skipped \/ listed
                THEN at' = at + 1 /\ UNCHANGED phase
                ELSE phase' = "unlisted" /\ UNCHANGED at
    /\ UNCHANGED <<readerVars, wanted, supported, observe, converted, cache, declared, executed,
                   broken, diff, unanswered>>

\* chain_facts answered, block.json written.
Report ==
    /\ phase = "record" /\ at > Count
    /\ phase' = "done"
    /\ UNCHANGED <<readerVars, wanted, supported, observe, converted, cache, declared, executed,
                   broken, diff, at, recorded, unanswered>>

\* A call that is followed by `?` fails, or a transaction of another block was asked
\* for: fetching, creating the executor, finalising and the state update, the facts.
GiveUp ==
    /\ \/ phase = "fetch"
       \/ phase = "convert" /\ Len(converted) = Count
       \/ phase = "compare" /\ Summarised
       \/ phase = "record" /\ at > Count
    /\ phase' = "aborted"
    /\ UNCHANGED <<readerVars, wanted, supported, observe, converted, cache, declared, executed,
                   broken, diff, at, recorded, unanswered>>

Next ==
    \/ Fetch \/ PrefetchStep \/ Convert \/ CreateExecutor
    \/ SkipBroken \/ RefuseUnconverted \/ Execute \/ ExecutorError \/ ExecutionOver
    \/ Compare \/ Record \/ Report \/ GiveUp

Spec == Init /\ [][Next]_vars

\* Every call of the run returns, so the run, a single thread, always takes its next step.
FairSpec == Spec /\ WF_vars(Next)

-----------------------------------------------------------------------------
(* Properties. *)

Outcomes == {"refused", "replayed", "divergent"}
Row == [outcome : Outcomes, read : [Leaf -> Value \cup {NotHeld}], frames : SUBSET Class]
Phases == {"fetch", "prefetch", "convert", "execute", "compare", "record",
           "done", "aborted", "unlisted"}

TypeOK ==
    /\ ReaderTypeOK
    /\ phase \in Phases
    /\ wanted \in Requests
    /\ supported \in BOOLEAN /\ observe \in BOOLEAN
    /\ converted \in Seq(BOOLEAN) /\ Len(converted) <= Count
    /\ cache \in [Leaf -> Value \cup {NotHeld}]
    /\ declared \subseteq Class
    /\ executed \in Seq(Row) /\ Len(executed) <= Count
    /\ broken \in 0..Count
    /\ diff \in {"none", "notMeasured", "matches", "differs"}
    /\ at \in 1..(Count + 1)
    /\ recorded \subseteq DOMAIN block
    /\ unanswered \subseteq DOMAIN block

Rows == DOMAIN executed
Outcome(i) == executed[i].outcome
DivergedBefore(i) == \E j \in 1..(i - 1) : Outcome(j) = "divergent"

\* The state a transaction that ran saw is the state the sequencer gave it, as long
\* as no transaction before it diverged (state.rs prefetch, leaf; the loop at 422-455):
\* wherever a value came from, prefetched, asked for or left by an earlier transaction.
PrestateIsTheSequencers ==
    \A i \in Rows : Outcome(i) # "refused" /\ ~DivergedBefore(i)
        => executed[i].read = SequencerRead(i)

\* A refused transaction stops the block there: nothing after it runs, whichever of
\* the three ways it was refused in.
RefusalStopsTheBlock ==
    \A i, j \in Rows : i < j /\ Outcome(i) = "refused" => Outcome(j) = "refused"

\* A mined transaction is refused only for a cause: the version of its block, an
\* earlier refusal or divergence, a body of a kind that is not executable, or a
\* question about it the node left unanswered; never for a class this tool loaded early.
RefusalsHaveACause ==
    \A i \in Rows : Outcome(i) = "refused" =>
        \/ ~supported
        \/ \E j \in 1..(i - 1) : Outcome(j) \in {"refused", "divergent"}
        \/ block[i].kind = "DEPLOY"
        \/ i \in unanswered

\* A block diff is measured exactly when every transaction ran, and it matches the
\* node's state update when every one of them was reproduced.
DiffIsOfTheWholeBlock ==
    diff # "none" =>
        /\ diff = "notMeasured" <=>
              (~supported \/ \E i \in DOMAIN block : Outcome(i) = "refused")
        /\ (\A i \in DOMAIN block : Outcome(i) = "replayed") => diff \in {"notMeasured", "matches"}

\* The run ends, with block.json or with an error, however often the node refuses to
\* simulate the block and whatever it leaves unanswered.
ReplayEnds == <>(phase \in {"done", "aborted", "unlisted"})

-----------------------------------------------------------------------------
(* What the sources say of themselves, and the runs refute. *)

\* state.rs:65-66 and main.rs:826-830: `classes` holds the classes a run loaded; one
\* that ran and was never loaded through the reader is an error that ends the run.
EveryClassRunWasLoaded == \A i \in Rows : executed[i].frames \subseteq classes
=============================================================================
