--------------------------- MODULE BettingMatcher ---------------------------
(***************************************************************************)
(* How a new bet meets the pending bets on the opposite outcome.           *)
(*                                                                         *)
(* A wincase is a market and one of its two sides, odds are a fraction     *)
(* above one, and a bet is the data of its operation with the time at      *)
(* which it was created.  The list of historical bets whose matches are    *)
(* fixed by their uuids is left out.                                       *)
(***************************************************************************)
EXTENDS Integers, Sequences, SequencesExt

create_market(wincase) == wincase[1]

create_opposite(wincase) == <<wincase[1], 3 - wincase[2]>>

\* odds::inverted: the odds of the opposite outcome.
inverted(odds) == <<odds[1], odds[1] - odds[2]>>

SameOdds(o, p) == o[1] * p[2] = p[1] * o[2]

\* asset * odds: what a stake may bring, rounded down.
Return(stake, odds) == (stake * odds[1]) \div odds[2]

can_be_matched(bet) == Return(bet.stake, bet.odds) > bet.stake

\* calculate_matched_stake: how much of each of two bets the other covers.
MatchedStake(bet1, bet2) ==
  LET r1 == Return(bet1.stake, bet1.odds)
      r2 == Return(bet2.stake, bet2.odds)
  IN  CASE r1 > r2 -> <<r2 - bet2.stake, bet2.stake>>
        [] r1 < r2 -> <<bet1.stake, r1 - bet1.stake>>
        [] OTHER   -> <<bet1.stake, bet2.stake>>

BothMatched(m) == m[1] > 0 /\ m[2] > 0

MatchedBet(bet1, bet2, m, time) ==
  [game |-> bet1.game, created |-> time,
   bet1 |-> [bet1 EXCEPT !.stake = m[1]], bet2 |-> [bet2 EXCEPT !.stake = m[2]]]

\* A mutant: bets of the same block do not meet.
CandidatesOfEarlierBlocks(bets, bet2) ==
  SetToSortSeq({i \in DOMAIN bets : /\ bets[i].game = bet2.game
                                    /\ bets[i].wincase = create_opposite(bet2.wincase)
                                    /\ bets[i].created < bet2.created}, <)

\* by_game_uuid_wincase_asc: the places in a sequence of pending bets, which is
\* in the order of their ids, of those a new bet may be matched with, in the
\* order in which they were created.
Candidates(bets, bet2) ==
  SetToSortSeq({i \in DOMAIN bets : /\ bets[i].game = bet2.game
                                    /\ bets[i].wincase = create_opposite(bet2.wincase)},
               LAMBDA i, j : \/ bets[i].created < bets[j].created
                             \/ bets[i].created = bets[j].created /\ i < j)

\* One round of matcher::match: the last pending bet, which is the new one, and
\* the one in place i.  Either is given up when its stake has no gain any more.
MatchOne(found, i, time) ==
  LET n    == Len(found.pending)
      bet1 == found.pending[i]
      bet2 == found.pending[n]
      m    == MatchedStake(bet1, bet2)
      left == IF BothMatched(m)
                THEN [found.pending EXCEPT ![i].stake = @ - m[1], ![n].stake = @ - m[2]]
                ELSE found.pending
  IN  IF n \in found.cancel \/ ~SameOdds(inverted(bet1.odds), bet2.odds) THEN found
      ELSE [pending |-> left,
            matched |-> IF BothMatched(m)
                          THEN Append(found.matched, MatchedBet(bet1, bet2, m, time))
                          ELSE found.matched,
            cancel  |-> found.cancel \cup {j \in {i, n} : ~can_be_matched(left[j])}]

\* matcher::match of the last of the pending bets: what is pending after it, the
\* matched bets it makes, and the places of the pending bets to cancel.
Match(bets, time) ==
  FoldLeft(LAMBDA found, i : MatchOne(found, i, time),
           [pending |-> bets, matched |-> <<>>, cancel |-> {}],
           Candidates(bets, Last(bets)))
=============================================================================
