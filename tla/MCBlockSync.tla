---------------------------- MODULE MCBlockSync -----------------------------
(* BlockSync alone, with the fairness of all its loops. *)
EXTENDS BlockSync

\* Both peers have the whole chain, and nothing fails.
MCStart == {[head |-> 1, chain |-> [p \in Peers |-> LastBlockNum], breaks |-> 0, silent |-> {}]}

Spec == BlockSyncInit /\ [][BlockSyncNext]_syncVars /\ BlockSyncFairness
=============================================================================
