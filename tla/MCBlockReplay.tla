--------------------------- MODULE MCBlockReplay ---------------------------
(***************************************************************************)
(* Blocks of up to three transactions over two leaves, one of a contract   *)
(* the parent block does not have, and two classes, one declared in the    *)
(* block itself: every kind of body, transactions that read what an        *)
(* earlier one wrote, a class declared and then run.                       *)
(***************************************************************************)
EXTENDS BlockReplay

CONSTANTS x, y, a, d

MCLeaf == {x, y}
MCClass == {a, d}
MCAbsent == {y}
MCAtParent == {a}

Body(kind, v3, reads, writes, runs, declares) ==
    [kind |-> kind, v3 |-> v3, reads |-> reads, writes |-> writes,
     runs |-> runs, declares |-> declares]

MCTxs == {Body("INVOKE", TRUE, {x}, {x}, {a}, {}),
          Body("DEPLOY_ACCOUNT", TRUE, {x, y}, {y}, {a}, {}),
          Body("INVOKE", FALSE, {y}, {x}, {a}, {}),
          Body("L1_HANDLER", FALSE, {y}, {y}, {}, {}),
          Body("DECLARE", TRUE, {x}, {x}, {a}, {d}),
          Body("INVOKE", TRUE, {x}, {}, {a, d}, {}),
          Body("DEPLOY", FALSE, {}, {y}, {}, {})}

\* The mined ones of two and three transactions (BlocksAreMined).
Mined(b) ==
    \A i \in DOMAIN b :
        /\ b[i].runs \subseteq MCAtParent \cup DeclaredBefore(b, i)
        /\ b[i].declares \cap DeclaredBefore(b, i) = {}

MCBlocks == {b \in [1..2 -> MCTxs] \cup [1..3 -> MCTxs] : Mined(b)}

MCRequests == {{}, {2}, {0, 1}}
=============================================================================
