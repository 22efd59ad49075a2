---------------------------- MODULE StateReader ----------------------------
(***************************************************************************)
(* The reader the on-chain executor takes its prestate from                *)
(* (src/onchain/src/state.rs, RpcState): every leaf (storage entry, nonce, *)
(* class hash of a contract) is read from the node AT THE PARENT of the    *)
(* replayed block, most of them in one `starknet_simulateTransactions`     *)
(* call made before anything runs, the others one by one when asked; every *)
(* class is fetched once and kept.                                         *)
(*                                                                         *)
(* The node is outside the sources.  It is modelled as honest and          *)
(* unreliable: what it answers is true of the block it is asked about, and *)
(* it may leave any single question unanswered.  The value of a leaf is    *)
(* named by the transaction that wrote it last (its index in the block),   *)
(* or Old when the parent block already held it; a leaf of a contract that *)
(* is not deployed has the chain's default, Zero.                          *)
(***************************************************************************)
EXTENDS Integers, Sequences

CONSTANTS Leaf,         \* the storage entries, nonces and class hashes in play
          Class,        \* the class hashes in play
          Absent,       \* leaves of contracts that do not exist at the parent block
          AtParent,     \* classes declared by the parent block
          Blocks,       \* the blocks that may be replayed: sequences of transactions
          Zero, Old, Wrong, NotHeld, ContractNotFound

Kinds == {"INVOKE", "DEPLOY_ACCOUNT", "DECLARE", "L1_HANDLER", "DEPLOY"}

\* What a replay can tell two mined transactions apart by.
Tx == [kind : Kinds, v3 : BOOLEAN, reads : SUBSET Leaf, writes : SUBSET Leaf,
       runs : SUBSET Class, declares : SUBSET Class]

Value == (Nat \ {0}) \cup {Zero, Old, Wrong}

ASSUME BlocksAreSequences == Blocks \subseteq Seq(Tx)

\* The classes some transaction of a block before its i-th declares.
DeclaredBefore(b, i) == UNION {b[j].declares : j \in 1..(i - 1)}

\* What the chain admits: a class runs only where it exists, and is declared once.
ASSUME BlocksAreMined ==
    \A b \in Blocks : \A i \in DOMAIN b :
        /\ b[i].runs \subseteq AtParent \cup DeclaredBefore(b, i)
        /\ b[i].declares \cap (AtParent \cup DeclaredBefore(b, i)) = {}

ASSUME MarkersAreDistinct ==
    /\ Absent \subseteq Leaf /\ AtParent \subseteq Class
    /\ NotHeld \notin Value /\ ContractNotFound \notin Value
    /\ {Zero, Old, Wrong} \cap Nat = {} /\ Zero # Wrong /\ Old # Wrong

VARIABLES block,        \* the block being replayed
          prefetched,   \* leaf -> the value the prefetch brought, or NotHeld
          classes,      \* the classes the reader holds
          relaxed,      \* how many whole-batch simulations the node has refused
          toTry         \* the transactions the prefetch has still to simulate

readerVars == <<block, prefetched, classes, relaxed, toTry>>

-----------------------------------------------------------------------------
(* The chain and the node. *)

Writers(k, l) == {j \in 1..k : l \in block[j].writes}

ParentValue(l) == IF l \in Absent THEN Zero ELSE Old

\* What a leaf holds once the first k transactions of the block have run.
ValueAfter(k, l) ==
    IF Writers(k, l) = {} THEN ParentValue(l)
    ELSE CHOOSE j \in Writers(k, l) : \A m \in Writers(k, l) : m <= j

\* The node's answer about a leaf, at the block state k transactions into the block.
Node(k, l) ==
    IF l \in Absent /\ Writers(k, l) = {} THEN ContractNotFound ELSE ValueAfter(k, l)

-----------------------------------------------------------------------------
(* The reader. *)

\* Mutant of ReadAt: `RpcState::new(rpc, number)`, the state the block left behind.
ReadAfterTheBlock == Len(block)

\* `RpcState::new(rpc, number - 1)`: every read is taken before the block's first transaction.
ReadAt == 0

\* RpcState::leaf: "contract not found" is the chain's default value.
LeafRead(l) ==
    LET answer == Node(ReadAt, l) IN IF answer = ContractNotFound THEN Zero ELSE answer

\* get_storage_at, get_nonce_at, get_class_hash_at.
Read(l) == IF prefetched[l] # NotHeld THEN prefetched[l] ELSE LeafRead(l)

\* Only v3 INVOKE and DEPLOY_ACCOUNT bodies can be submitted for simulation.
Simulated(b) == {i \in DOMAIN b : b[i].kind \in {"INVOKE", "DEPLOY_ACCOUNT"} /\ b[i].v3}

\* The answers a simulation of some transactions may give: for any of the leaves
\* they touch (a relaxed run touches fewer), what the leaf held before they ran.
InitialReads(txs) ==
    {[l \in Leaf |-> IF l \in seen THEN ValueAfter(ReadAt, l) ELSE NotHeld] :
        seen \in SUBSET UNION {block[i].reads \cup block[i].writes : i \in txs}}

Insert(reads) ==
    prefetched' = [l \in Leaf |-> IF reads[l] # NotHeld THEN reads[l] ELSE prefetched[l]]

ReaderInit ==
    /\ block \in Blocks
    /\ prefetched = [l \in Leaf |-> NotHeld]
    /\ classes = {}
    /\ relaxed = 0
    /\ toTry = Simulated(block)

\* One of the three simulations of the whole batch is answered: no more are made.
PrefetchWhole ==
    /\ toTry # {} /\ relaxed < 3
    /\ \E reads \in InitialReads(toTry) : Insert(reads)
    /\ toTry' = {}
    /\ UNCHANGED <<block, classes, relaxed>>

\* Mutant of PrefetchRefused: after the last batch the first is sent again.
RefusedAndStartedAgain ==
    /\ toTry # {} /\ relaxed < 3
    /\ relaxed' = (relaxed + 1) % 3
    /\ UNCHANGED <<block, prefetched, classes, toTry>>

\* Mutant of PrefetchRefused: there is no last batch.
RefusedWithoutEnd ==
    /\ toTry # {}
    /\ relaxed' = relaxed + 1
    /\ UNCHANGED <<block, prefetched, classes, toTry>>

\* The node refuses the batch: the next one relaxes fees, then validation.
PrefetchRefused ==
    /\ toTry # {} /\ relaxed < 3
    /\ relaxed' = relaxed + 1
    /\ UNCHANGED <<block, prefetched, classes, toTry>>

\* With the three refused, each transaction is tried alone, in block order, once.
PrefetchOne ==
    /\ relaxed = 3
    /\ \E i \in toTry :
          /\ \A j \in toTry : i <= j
          /\ \/ \E reads \in InitialReads({i}) : Insert(reads)
             \/ UNCHANGED prefetched
          /\ toTry' = toTry \ {i}
    /\ UNCHANGED <<block, classes, relaxed>>

Prefetch == PrefetchWhole \/ PrefetchRefused \/ PrefetchOne

Prefetched == toTry = {}

\* Mutant of DeclaredClassRecord: the reader keeps the class it read for the DECLARE.
DeclaredClassKept(i) == classes' = classes \cup block[i].declares

\* declared_class_record: a DECLARE's class is read at the declaring block, and is
\* not kept by the reader.
DeclaredClassRecord(i) == UNCHANGED classes

\* class_record, for the classes some of an execution loads through the reader.
LoadClasses(loaded) == classes' = classes \cup (loaded \cap AtParent)

\* Which classes the reader finds: those it holds and those the parent block declared.
Found == classes \cup AtParent

ReaderTypeOK ==
    /\ block \in Blocks
    /\ prefetched \in [Leaf -> Value \cup {NotHeld}]
    /\ classes \subseteq Class
    /\ relaxed \in 0..3
    /\ toTry \subseteq DOMAIN block
=============================================================================
