------------------------------- MODULE MCFunds -------------------------------
(* Funds alone, for the question whether a pending reward is ever due. *)
EXTENDS Funds

MCCoefficients == {<<4, 2>>, <<3>>}

Spec == FundsInit /\ [][FundsNext]_fundsVars
=============================================================================
