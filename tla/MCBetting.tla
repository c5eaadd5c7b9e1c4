----------------------------- MODULE MCBetting ------------------------------
(* Two betters and a game with a market that has to be decided and one that *)
(* need not be.                                                             *)
EXTENDS Betting

CONSTANTS alice, bob, g1, b1, b2, b3, b4, b5, result, total

MCInitialBalance == alice :> 5 @@ bob :> 5

Bet(uuid, better, wincase, odds, stake, live) ==
  [uuid |-> uuid, better |-> better, game |-> g1, wincase |-> wincase,
   odds |-> odds, stake |-> stake, live |-> live]

MCBetOperations ==
  {Bet(b1, alice, <<result, 1>>, <<3, 1>>, 2, TRUE),
   Bet(b2, bob, <<result, 2>>, <<6, 4>>, 3, TRUE),
   Bet(b3, bob, <<result, 2>>, <<3, 2>>, 2, TRUE),
   Bet(b4, alice, <<total, 1>>, <<2, 1>>, 1, FALSE),
   Bet(b5, bob, <<total, 2>>, <<2, 1>>, 2, TRUE)}
=============================================================================
