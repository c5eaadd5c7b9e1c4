-------------------------- MODULE MCChainDatabase --------------------------
(***************************************************************************)
(* Instances of ChainDatabase.  The blocks of every run are taken from one *)
(* tree; a run names those that exist and who produced them:               *)
(*                                                                         *)
(*   a1 -- a2 -- a3 -- a4                                                  *)
(*     \     \-- c3 -- c4                                                  *)
(*      \-- b2 -- b3 -- b4 -- b5                                           *)
(***************************************************************************)
EXTENDS ChainDatabase

CONSTANTS a1, a2, a3, a4, b2, b3, b4, b5, c3, c4, w1, w2, w3, t1, t2

MCPath ==
  [b \in Block \cup {Genesis} |->
     CASE b = Genesis -> <<>>
       [] b = a1 -> <<a1>>
       [] b = a2 -> <<a1, a2>>
       [] b = a3 -> <<a1, a2, a3>>
       [] b = a4 -> <<a1, a2, a3, a4>>
       [] b = b2 -> <<a1, b2>>
       [] b = b3 -> <<a1, b2, b3>>
       [] b = b4 -> <<a1, b2, b3, b4>>
       [] b = b5 -> <<a1, b2, b3, b4, b5>>
       [] b = c3 -> <<a1, a2, c3>>
       [] b = c4 -> <<a1, a2, c3, c4>>]

\* Three witnesses in turn; the fork at a1 is one slot late.
MCProducer ==
  [b \in Block |->
     CASE b \in {a1, a4, b3, c4} -> w1
       [] b \in {a2, b4} -> w2
       [] b \in {a3, b2, b5, c3} -> w3]

\* One witness is behind the longer part of both branches of the fork, so the
\* other one decides when they become irreversible.
MCTwoProducers ==
  [b \in Block |-> IF b \in {a2, a4, b4} THEN w2 ELSE w1]

\* t1 is in both branches of the fork, in one of them after t2.
MCTxs ==
  [b \in Block |-> CASE b \in {a2, b3} -> <<t1>> [] b = b2 -> <<t2>> [] OTHER -> <<>>]

\* t1 spends what t2 needs.
MCValidates(t, head, known) == t = t2 => t1 \notin known
=============================================================================
