------------------------------ MODULE Betting -------------------------------
(***************************************************************************)
(* Games, pending bets and matched bets: the betting operations of the     *)
(* moderator and of the betters, and what the end of a block does to games *)
(* whose time has come.                                                    *)
(*                                                                         *)
(* pending and matched are in the order of the ids of their objects.       *)
(* Moderator operations are those of the one account that                  *)
(* betting_property_object names.                                          *)
(***************************************************************************)
EXTENDS Balances, BettingMatcher

CONSTANTS
  Games,            \* uuids of games
  Markets,
  ThirdState,       \* markets that a game may end without deciding
  MarketSets,       \* lists of markets that create and update operations name
  BetOperations,    \* post_bet operations, with uuid, better, game, wincase,
                    \* odds, stake and live
  Delays,           \* auto_resolve_delay_sec
  ResolveDelays,    \* values that proposals give resolve_delay_sec
  START_TIME_DIFF_MAX,
  TIME_POINT_MAX    \* time_point_sec::maximum()

Wincases(ms) == ms \X {1, 2}

ASSUME BettingAssumption ==
  /\ ThirdState \subseteq Markets
  /\ MarketSets \subseteq SUBSET Markets
  /\ \A op \in BetOperations : /\ op.better \in Accounts
                               /\ op.game \in Games
                               /\ op.wincase \in Wincases(Markets)
                               /\ op.stake \in Nat \ {0}
                               /\ op.odds \in Nat \X (Nat \ {0})
                               /\ op.odds[1] > op.odds[2]
                               /\ op.live \in BOOLEAN
  /\ Delays \subseteq 1 .. TIME_POINT_MAX
  /\ ResolveDelays \subseteq 0 .. TIME_POINT_MAX
  /\ START_TIME_DIFF_MAX \in Nat
  /\ TIME_POINT_MAX \in Nat /\ TIME_POINT_MAX > MaxTime

VARIABLES
  game,     \* game_object by uuid
  pending,  \* pending_bet_object, in the order of their ids
  matched,  \* matched_bet_object, in the order of their ids
  game_uuids, bet_uuids,  \* game_uuid_history_object, bet_uuid_history_object
  pending_bets_volume,
  matched_bets_volume

betVars == <<pending, matched, pending_bets_volume, matched_bets_volume>>

vars == <<balance, circulating_capital, head_block_time, game, betVars,
          game_uuids, bet_uuids>>

GameObject ==
  [status : {"created", "started", "finished"}, markets : SUBSET Markets,
   results : SUBSET Wincases(Markets),
   start_time : Nat, original_start_time : Nat,
   bets_resolve_time : Nat, auto_resolve_time : Nat]

-----------------------------------------------------------------------------
\* The sum of a time_point_sec and seconds, both unsigned, which wraps.
Seconds(n) == CASE n > TIME_POINT_MAX -> n - (TIME_POINT_MAX + 1)
                [] n < 0 -> n + (TIME_POINT_MAX + 1)
                [] OTHER -> n

PendingOf(g) == {b \in ToSet(pending) : b.game = g}

MatchedOf(g) == {m \in ToSet(matched) : m.game = g}

Without(bets, gone) == SelectSeq(bets, LAMBDA b : b \notin gone)

PendingStakes(P) == MapThenSumSet(LAMBDA b : b.stake, P)

MatchedStakes(M) == MapThenSumSet(LAMBDA m : m.bet1.stake + m.bet2.stake, M)

\* The stake of a bet to its better, and of the sides of matched bets that were
\* made since a time.
StakeTo(a, b) == IF b.better = a THEN b.stake ELSE 0

ReturnPending(P) == [a \in Accounts |-> MapThenSumSet(LAMBDA b : StakeTo(a, b), P)]

ReturnSides(M, time) ==
  LET side(a, b) == IF b.created >= time THEN StakeTo(a, b) ELSE 0
  IN  [a \in Accounts |->
         MapThenSumSet(LAMBDA m : side(a, m.bet1) + side(a, m.bet2), M)]

ReturnMatched(M) == ReturnSides(M, 0)

\* cancel_pending_bets and cancel_matched_bets.
CancelBets(P, M) ==
  /\ pending' = Without(pending, P)
  /\ matched' = Without(matched, M)
  /\ pending_bets_volume' = pending_bets_volume - PendingStakes(P)
  /\ matched_bets_volume' = matched_bets_volume - MatchedStakes(M)
  /\ IncreaseBalance(Both(ReturnPending(P), ReturnMatched(M)))

-----------------------------------------------------------------------------
\* Operations of the moderator.

CreateGame(g, start, delay, ms) ==
  /\ start > head_block_time
  /\ g \notin game_uuids
  /\ game_uuids' = game_uuids \cup {g}
  /\ game' = [h \in DOMAIN game \cup {g} |->
                IF h = g THEN [status |-> "created", markets |-> ms, results |-> {},
                               start_time |-> start, original_start_time |-> start,
                               bets_resolve_time |-> TIME_POINT_MAX,
                               auto_resolve_time |-> Seconds(start + delay)]
                         ELSE game[h]]
  /\ UNCHANGED <<balanceVars, betVars, bet_uuids>>

CancelGame(g) ==
  /\ game[g].status # "finished"
  /\ CancelBets(PendingOf(g), MatchedOf(g))
  /\ game' = Restrict(game, DOMAIN game \ {g})
  /\ UNCHANGED <<game_uuids, bet_uuids>>

\* boost::set_intersection of the bets of a game with the markets it loses: of
\* all bets on one market it takes as many as the other range has, which is one.
FirstOfMarkets(bets, wincases, g, ms) ==
  LET market(i) == create_market(wincases[i])
      first(i)  == \A k \in 1 .. i - 1 : bets[k].game = g => market(k) # market(i)
  IN  {bets[i] : i \in {j \in DOMAIN bets :
                          bets[j].game = g /\ market(j) \in ms /\ first(j)}}

UpdateGameMarkets(g, ms) ==
  LET cancelled == game[g].markets \ ms
  IN  /\ game[g].status # "finished"
      /\ game[g].status = "created" \/ cancelled = {}
      /\ CancelBets(
           FirstOfMarkets(pending, [i \in DOMAIN pending |-> pending[i].wincase],
                          g, cancelled),
           FirstOfMarkets(matched, [i \in DOMAIN matched |-> matched[i].bet1.wincase],
                          g, cancelled))
      /\ game' = [game EXCEPT ![g].markets = ms]
      /\ UNCHANGED <<game_uuids, bet_uuids>>

\* A mutant: the restored stake replaces what is left of the bet.
RestorePendingBetInPlace(bets, bet) ==
  IF \E b \in ToSet(bets) : b.uuid = bet.uuid
    THEN [i \in DOMAIN bets |-> IF bets[i].uuid = bet.uuid THEN bet ELSE bets[i]]
    ELSE Append(bets, bet)

\* restore_pending_bet: the stake joins what is left of the bet, or it is a new
\* pending bet with the old data.
RestorePendingBet(bets, bet) ==
  IF \E b \in ToSet(bets) : b.uuid = bet.uuid
    THEN [i \in DOMAIN bets |-> IF bets[i].uuid = bet.uuid
                                  THEN [bets[i] EXCEPT !.stake = @ + bet.stake]
                                  ELSE bets[i]]
    ELSE Append(bets, bet)

\* A mutant: bets matched with late ones are cancelled with them.
CancelBetsSinceBothSides(g, time) ==
  CancelBets({b \in PendingOf(g) : b.created >= time},
             {m \in MatchedOf(g) : m.created >= time})

\* cancel_bets(game, created_after): bets made since then are undone, and bets
\* made earlier that they were matched with are pending again.
CancelBetsSince(g, time) ==
  LET isLate(b)  == b.created >= time
      isEarly(b) == ~isLate(b)
      P     == {b \in PendingOf(g) : isLate(b)}
      M     == {m \in MatchedOf(g) : isLate(m)}
      sides == FlattenSeq([i \in DOMAIN matched |->
                             IF matched[i] \in M THEN <<matched[i].bet1, matched[i].bet2>>
                                                 ELSE <<>>])
      early == SelectSeq(sides, isEarly)
      restored == FoldLeft(LAMBDA acc, b : acc + b.stake, 0, early)
  IN  /\ pending' = FoldLeft(RestorePendingBet, Without(pending, P), early)
      /\ matched' = Without(matched, M)
      /\ pending_bets_volume' = pending_bets_volume - PendingStakes(P) + restored
      /\ matched_bets_volume' = matched_bets_volume - MatchedStakes(M)
      /\ IncreaseBalance(Both(ReturnPending(P), ReturnSides(M, time)))

Distance(s, t) == IF s > t THEN s - t ELSE t - s

UpdateGameStartTime(g, start) ==
  LET o == game[g]
  IN  /\ start > head_block_time
      /\ o.status \in {"created", "started"}
      /\ Distance(o.original_start_time, start) <= START_TIME_DIFF_MAX
      /\ CancelBetsSince(g, o.start_time)
      /\ game' = [game EXCEPT ![g] = [o EXCEPT
                    !.auto_resolve_time = Seconds(@ + (start - o.start_time)),
                    !.start_time = start,
                    !.status = "created"]]
      /\ UNCHANGED <<game_uuids, bet_uuids>>

\* A mutant: correcting the results starts the delay again.
FinishAgain(o, results, delay) ==
  [o EXCEPT !.bets_resolve_time = Seconds(head_block_time + delay),
            !.status = "finished",
            !.auto_resolve_time = TIME_POINT_MAX,
            !.results = results]

\* dbs_game::finish: correcting the results does not move their resolution.  The
\* delay is the one that the last proposal about it stored.
Finish(o, results, delay) ==
  [o EXCEPT !.bets_resolve_time = IF o.status = "started"
                                    THEN Seconds(head_block_time + delay) ELSE @,
            !.status = "finished",
            !.auto_resolve_time = TIME_POINT_MAX,
            !.results = results]

PostGameResults(g, results, delay) ==
  /\ game[g].status # "created"
  /\ game[g].bets_resolve_time > head_block_time
  /\ results \subseteq Wincases(game[g].markets)
  /\ \A m \in game[g].markets \ ThirdState : Wincases({m}) \cap results # {}
  /\ \A w \in results : create_opposite(w) \notin results
  /\ CancelBets(PendingOf(g), {})
  /\ game' = [game EXCEPT ![g] = Finish(@, results, delay)]
  /\ UNCHANGED <<game_uuids, bet_uuids>>

-----------------------------------------------------------------------------
\* Operations of the betters.

NewBet(op) ==
  [uuid |-> op.uuid, game |-> op.game, created |-> head_block_time,
   better |-> op.better, wincase |-> op.wincase, stake |-> op.stake,
   odds |-> op.odds, kind |-> IF op.live THEN "live" ELSE "non_live"]

MayBet(op) ==
  /\ op.game \in DOMAIN game
  /\ op.uuid \notin bet_uuids
  /\ create_market(op.wincase) \in game[op.game].markets
  /\ game[op.game].status # "finished"
  /\ game[op.game].status = "created" \/ op.live

\* post_bet: create_pending_bet, match, and cancel_pending_bets of what the
\* match leaves without a gain.
PostBet(op) ==
  LET found   == Match(Append(pending, NewBet(op)), head_block_time)
      gone    == {found.pending[i] : i \in found.cancel}
      covered == MatchedStakes(ToSet(found.matched))
  IN  /\ MayBet(op)
      /\ balance[op.better] >= op.stake
      /\ bet_uuids' = bet_uuids \cup {op.uuid}
      /\ pending' = Without(found.pending, gone)
      /\ matched' = matched \o found.matched
      /\ pending_bets_volume' =
           pending_bets_volume + op.stake - covered - PendingStakes(gone)
      /\ matched_bets_volume' = matched_bets_volume + covered
      /\ IncreaseBalance(Both(To(op.better, -op.stake), ReturnPending(gone)))
      /\ UNCHANGED <<game, game_uuids>>

CancelPendingBets(better, ids) ==
  /\ \A id \in ids : \E b \in ToSet(pending) : b.uuid = id /\ b.better = better
  /\ CancelBets({b \in ToSet(pending) : b.uuid \in ids}, {})
  /\ UNCHANGED <<game, game_uuids, bet_uuids>>

-----------------------------------------------------------------------------
\* The end of a block: process_games_startup, process_bets_resolving and
\* process_bets_auto_resolving, in this order.

Starting(time) ==
  {g \in DOMAIN game : game[g].start_time <= time /\ game[g].status = "created"}

Resolved(time) == {g \in DOMAIN game : game[g].bets_resolve_time <= time}

\* A mutant: a game expires a block late.
ExpiredLate(time) ==
  {g \in DOMAIN game \ Resolved(time) : game[g].auto_resolve_time < time}

Expired(time) ==
  {g \in DOMAIN game \ Resolved(time) : game[g].auto_resolve_time <= time}

\* resolve_matched_bets: the pot goes to the winner; when neither side is among
\* the results both stakes go back.
Winnings(m, a) ==
  LET won(b) == b.wincase \in game[m.game].results
      pot(b) == IF b.better = a THEN m.bet1.stake + m.bet2.stake ELSE 0
  IN  CASE won(m.bet1) -> pot(m.bet1)
        [] won(m.bet2) /\ ~won(m.bet1) -> pot(m.bet2)
        [] OTHER -> StakeTo(a, m.bet1) + StakeTo(a, m.bet2)

ResolveMatchedBets(M) ==
  [a \in Accounts |-> MapThenSumSet(LAMBDA m : Winnings(m, a), M)]

ProcessGames(time) ==
  LET ended == Resolved(time) \cup Expired(time)
      P == {b \in ToSet(pending) :
              \/ b.game \in ended
              \/ b.game \in Starting(time) /\ b.kind = "non_live"}
      won  == {m \in ToSet(matched) : m.game \in Resolved(time)}
      back == {m \in ToSet(matched) : m.game \in Expired(time)}
  IN  /\ game' = [g \in DOMAIN game \ ended |->
                    IF g \in Starting(time) THEN [game[g] EXCEPT !.status = "started"]
                                            ELSE game[g]]
      /\ pending' = Without(pending, P)
      /\ matched' = Without(matched, won \cup back)
      /\ pending_bets_volume' = pending_bets_volume - PendingStakes(P)
      /\ matched_bets_volume' = matched_bets_volume - MatchedStakes(won \cup back)
      /\ IncreaseBalance(Both(ReturnPending(P),
                              Both(ResolveMatchedBets(won), ReturnMatched(back))))

EndOfBlock(time) ==
  /\ UpdateGlobalDynamicData(time)
  /\ ProcessGames(time)
  /\ UNCHANGED <<game_uuids, bet_uuids>>

-----------------------------------------------------------------------------
Init ==
  /\ BalancesInit
  /\ game = << >>
  /\ pending = <<>>
  /\ matched = <<>>
  /\ game_uuids = {} /\ bet_uuids = {}
  /\ pending_bets_volume = 0
  /\ matched_bets_volume = 0

ModeratorOp ==
  \/ \E g \in Games, start \in 1 .. MaxTime, delay \in Delays, ms \in MarketSets :
       CreateGame(g, start, delay, ms)
  \/ \E g \in DOMAIN game :
       \/ CancelGame(g)
       \/ \E ms \in MarketSets : UpdateGameMarkets(g, ms)
       \/ \E start \in 1 .. MaxTime : UpdateGameStartTime(g, start)
       \/ \E results \in SUBSET Wincases(Markets), delay \in ResolveDelays :
            PostGameResults(g, results, delay)

BetterOp ==
  \/ \E op \in BetOperations : PostBet(op)
  \/ \E better \in Accounts :
       \E ids \in (SUBSET {b.uuid : b \in ToSet(pending)}) \ {{}} :
         CancelPendingBets(better, ids)

Operation == (ModeratorOp \/ BetterOp) /\ UNCHANGED head_block_time

ApplyBlock == \E time \in 1 .. MaxTime : EndOfBlock(time)

Next == Operation \/ ApplyBlock

Spec == Init /\ [][Next]_vars

-----------------------------------------------------------------------------
\* Types.  That no balance is negative and that a bet is pending in one place
\* only is the work of the evaluators and of restore_pending_bet().
TypeOK ==
  /\ balance \in [Accounts -> Nat]
  /\ head_block_time \in 0 .. MaxTime
  /\ DOMAIN game \subseteq game_uuids /\ game_uuids \subseteq Games
  /\ \A g \in DOMAIN game : game[g] \in GameObject
  /\ \A i \in DOMAIN pending : /\ pending[i].stake \in Nat \ {0}
                              /\ pending[i].uuid \in bet_uuids
  /\ \A i, j \in DOMAIN pending : pending[i].uuid = pending[j].uuid => i = j
  /\ \A i \in DOMAIN matched : BothMatched(<<matched[i].bet1.stake, matched[i].bet2.stake>>)

\* Posting, matching, cancelling, restoring and resolving bets neither make nor
\* destroy money, and the volumes that betting_stats counts step by step are the
\* sums of the stakes there are.
BetMoneyConserved ==
  /\ circulating_capital = SumFunction(balance)
  /\ pending_bets_volume = PendingStakes(ToSet(pending))
  /\ matched_bets_volume = MatchedStakes(ToSet(matched))
  /\ circulating_capital + pending_bets_volume + matched_bets_volume
       = SumFunction(InitialBalance)

\* No bet outlives its game, a started game has only live pending bets, also
\* after it was moved and bets were restored, and a finished game has none.
BetsOfOpenGames ==
  /\ \A m \in ToSet(matched) : m.game \in DOMAIN game
  /\ \A b \in ToSet(pending) :
       /\ b.game \in DOMAIN game
       /\ game[b.game].status # "finished"
       /\ game[b.game].status = "started" => b.kind = "live"

\* No operation meets a game that should have started, and however often a game is
\* moved it expires its delay after it starts.
StartsAndExpires ==
  \A g \in DOMAIN game :
    /\ game[g].status = "created" => game[g].start_time > head_block_time
    /\ game[g].status # "finished" =>
         /\ \E delay \in Delays :
              game[g].auto_resolve_time = Seconds(game[g].start_time + delay)
         /\ game[g].bets_resolve_time = TIME_POINT_MAX

\* A block leaves no game behind that it should have resolved or expired.
NoneOverdue ==
  head_block_time' # head_block_time =>
    \A g \in DOMAIN game' : /\ game'[g].bets_resolve_time > head_block_time'
                            /\ game'[g].auto_resolve_time > head_block_time'

\* The block that reaches the time of a game has dealt with it when it ends: what
\* is left has not started, been resolved or expired late, whatever delays the
\* moderator and the committee chose.
GamesOnTime == []StartsAndExpires /\ [][NoneOverdue]_vars

\* Rounding never costs a winner: the pot of a matched bet is at least what each
\* side's odds promise for the stake it risks.
PotCoversOdds ==
  \A m \in ToSet(matched) :
    \A b \in {m.bet1, m.bet2} :
      m.bet1.stake + m.bet2.stake >= Return(b.stake, b.odds)

\* No two pending bets are left that would match.
NoMissedMatch ==
  \A b, c \in ToSet(pending) :
    ~ /\ b.game = c.game /\ b.wincase = create_opposite(c.wincase)
      /\ SameOdds(inverted(b.odds), c.odds)
      /\ BothMatched(MatchedStake(b, c))

\* What an account has in the bet with a uuid.
InBet(id, P, M) ==
  LET stake(b) == IF b.uuid = id THEN b.stake ELSE 0
  IN  MapThenSumSet(stake, P) + MapThenSumSet(LAMBDA m : stake(m.bet1) + stake(m.bet2), M)

\* Moving the start of a game undoes exactly the bets made since it started:
\* every earlier bet has the same money in it as before, whoever it was matched
\* with, and every later one has none.
RescheduleKeepsEarlyBets ==
  [][\A g \in DOMAIN game \cap DOMAIN game' :
       game'[g].start_time # game[g].start_time =>
         \A b \in PendingOf(g) \cup {m.bet1 : m \in MatchedOf(g)} \cup {m.bet2 : m \in MatchedOf(g)} :
           InBet(b.uuid, PendingOf(g)', MatchedOf(g)') =
             IF b.created < game[g].start_time
               THEN InBet(b.uuid, PendingOf(g), MatchedOf(g)) ELSE 0]_vars

\* When a finished game goes, the winner of each of its bets receives the pot and
\* an undecided bet is returned, whatever times the game was given before; when
\* a game goes without results everybody has the stakes back.
GameEndsInFull ==
  [][\A g \in DOMAIN game \ DOMAIN game', a \in Accounts :
       balance'[a] - balance[a] >=
         IF game[g].status = "finished"
           THEN MapThenSumSet(LAMBDA m : Winnings(m, a), MatchedOf(g))
           ELSE MapThenSumSet(LAMBDA b : StakeTo(a, b), PendingOf(g))
                + MapThenSumSet(LAMBDA m : StakeTo(a, m.bet1) + StakeTo(a, m.bet2), MatchedOf(g))]_vars

\* Once results are posted the game is not moved or reopened, and neither a
\* correction of the results nor another resolve delay puts off the payment: the
\* time that was announced first stays, and no block that reaches it leaves the
\* game behind.  A game that a block takes away had reached that time.
ResolvedWhenAnnounced ==
  [][\A g \in DOMAIN game :
       game[g].status = "finished" =>
         IF g \in DOMAIN game'
           THEN /\ game'[g].status = "finished"
                /\ game'[g].bets_resolve_time = game[g].bets_resolve_time
                /\ \/ UNCHANGED head_block_time
                   \/ head_block_time' < game[g].bets_resolve_time
           ELSE \/ UNCHANGED head_block_time
                \/ head_block_time' >= game[g].bets_resolve_time]_vars

\* "All accepted bets would be canceled and returned back when moderator removes
\* markets": every bet is on a market that its game has.
BetsInMarkets ==
  /\ \A b \in ToSet(pending) :
       b.game \in DOMAIN game => create_market(b.wincase) \in game[b.game].markets
  /\ \A m \in ToSet(matched) :
       m.game \in DOMAIN game => create_market(m.bet1.wincase) \in game[m.game].markets

\* Every stake is in exactly one place, which fits the state of its game.
BetsSound == TypeOK /\ BetMoneyConserved /\ BetsOfOpenGames

\* The matcher leaves nothing that could be matched, and rounds for the winner.
MatchingSound == NoMissedMatch /\ PotCoversOdds

\* What becomes of the bets when their game is moved or ends.
BetsFollowGames == RescheduleKeepsEarlyBets /\ GameEndsInFull
=============================================================================
