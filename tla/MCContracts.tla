---------------------------- MODULE MCContracts -----------------------------
(* Three people, one of whom has most of the money. *)
EXTENDS Contracts, TLC

CONSTANTS alice, bob, carol, s

MCInitialBalance == alice :> 3 @@ bob :> 1 @@ carol :> 0

MCEscrowRoles == {<<alice, bob, carol>>, <<bob, bob, alice>>}

MCSwapRoles == {<<alice, alice>>, <<alice, bob>>, <<alice, carol>>, <<bob, alice>>}
=============================================================================
