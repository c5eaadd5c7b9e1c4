--------------------------- MODULE BettingProofs ----------------------------
(***************************************************************************)
(* The life of a game, for every set of games, markets, bets and delays,   *)
(* also a resolve delay of zero and delays that wrap: no block leaves a    *)
(* game behind that is overdue, and once a game has results it is resolved *)
(* when they said.                                                         *)
(*                                                                         *)
(* Neither is inductive alone.  That a finished game is not taken for an   *)
(* expired one needs that finishing put its expiration off for ever, that  *)
(* a game that is moved expires its delay after the new start needs that   *)
(* it did so after the old one, and that none is replaced by a new one     *)
(* needs that every game is in the history of uuids.                       *)
(***************************************************************************)
EXTENDS Betting, TLAPS

\* What a game satisfies at a given time, during a block and at its end.
OnTime(o, time) ==
  /\ o.status = "created" => o.start_time > time
  /\ o.status = "finished" => o.auto_resolve_time = TIME_POINT_MAX
  /\ o.status # "finished" =>
       /\ \E delay \in Delays : o.auto_resolve_time = Seconds(o.start_time + delay)
       /\ o.bets_resolve_time = TIME_POINT_MAX

NotOverdue(o, time) == o.bets_resolve_time > time /\ o.auto_resolve_time > time

\* Times in blocks and in games do not go past what the type holds.
TimesFit(o) == o.start_time \in 0 .. MaxTime /\ o.auto_resolve_time \in 0 .. TIME_POINT_MAX

IInv ==
  /\ head_block_time \in 0 .. MaxTime
  /\ DOMAIN game \subseteq game_uuids
  /\ \A g \in DOMAIN game : /\ game[g] \in GameObject /\ TimesFit(game[g])
                            /\ OnTime(game[g], head_block_time)

\* The invariant says what the checked one says.
LEMMA IInvImplies == IInv => StartsAndExpires
  BY DEF IInv, OnTime, StartsAndExpires

\* A sum of times fits again.
LEMMA SecondsFit ==
  ASSUME NEW n \in Int, n <= 2 * TIME_POINT_MAX, n >= -TIME_POINT_MAX
  PROVE  Seconds(n) \in 0 .. TIME_POINT_MAX
  BY BettingAssumption DEF Seconds

\* Moving a start moves the sum with it.
LEMMA SecondsMove ==
  ASSUME NEW s \in 0 .. MaxTime, NEW t \in 0 .. MaxTime, NEW d \in 1 .. TIME_POINT_MAX
  PROVE  Seconds(Seconds(s + d) + (t - s)) = Seconds(t + d)
  BY BettingAssumption, BalancesAssumption DEF Seconds

\* There are no games at first.
LEMMA InitIInv == Init => IInv
  BY BalancesAssumption DEF Init, BalancesInit, IInv

-----------------------------------------------------------------------------
\* create_game: the game expires after it starts, and it has no results.
LEMMA CreateGameKeeps ==
  ASSUME IInv, UNCHANGED head_block_time,
         NEW g \in Games, NEW start \in 1 .. MaxTime, NEW delay \in Delays,
         NEW ms \in MarketSets, CreateGame(g, start, delay, ms)
  PROVE  IInv' /\ \A h \in DOMAIN game : h \in DOMAIN game' /\ game'[h] = game[h]
  <1> DEFINE o == [status |-> "created", markets |-> ms, results |-> {},
                   start_time |-> start, original_start_time |-> start,
                   bets_resolve_time |-> TIME_POINT_MAX,
                   auto_resolve_time |-> Seconds(start + delay)]
  <1>1. /\ DOMAIN game' = DOMAIN game \cup {g}
        /\ \A h \in DOMAIN game' : game'[h] = IF h = g THEN o ELSE game[h]
    BY DEF CreateGame
  <1>2. /\ start \in Nat /\ start \in 0 .. MaxTime /\ delay \in 1 .. TIME_POINT_MAX
        /\ ms \subseteq Markets /\ TIME_POINT_MAX \in Nat
        /\ Seconds(start + delay) \in 0 .. TIME_POINT_MAX
    <2>1. start \in 0 .. MaxTime /\ delay \in 1 .. TIME_POINT_MAX /\ start + delay \in Int
          /\ start + delay <= 2 * TIME_POINT_MAX /\ start + delay >= -TIME_POINT_MAX
      BY BettingAssumption, BalancesAssumption
    <2> QED BY <2>1, SecondsFit, BettingAssumption, BalancesAssumption
  <1>3. o \in GameObject /\ TimesFit(o)
    BY <1>2 DEF GameObject, TimesFit
  <1>4. OnTime(o, head_block_time)
    BY <1>2 DEF OnTime, CreateGame
  <1>5. g \notin DOMAIN game /\ DOMAIN game' \subseteq game_uuids'
    BY <1>1 DEF CreateGame, IInv
  <1> HIDE DEF o
  <1> QED BY <1>1, <1>3, <1>4, <1>5 DEF IInv

\* Replacing a game by one that is on time.
LEMMA ReplaceGameKeeps ==
  ASSUME IInv, UNCHANGED <<head_block_time, game_uuids>>, NEW g \in DOMAIN game,
         NEW o \in GameObject, TimesFit(o), OnTime(o, head_block_time),
         game' = [game EXCEPT ![g] = o]
  PROVE  IInv'
  <1>1. /\ DOMAIN game' = DOMAIN game
        /\ \A h \in DOMAIN game' : game'[h] = IF h = g THEN o ELSE game[h]
    OBVIOUS
  <1> QED BY <1>1 DEF IInv

\* cancel_game: the other games stay as they are.
LEMMA CancelGameKeeps ==
  ASSUME IInv, UNCHANGED head_block_time, NEW g \in DOMAIN game, CancelGame(g)
  PROVE  IInv'
  <1>1. /\ DOMAIN game' = DOMAIN game \ {g}
        /\ \A h \in DOMAIN game' : game'[h] = game[h]
    BY DEF CancelGame, Restrict
  <1> QED BY <1>1 DEF IInv, CancelGame

\* update_game_markets: no time of the game changes.
LEMMA UpdateGameMarketsKeeps ==
  ASSUME IInv, UNCHANGED head_block_time, NEW g \in DOMAIN game,
         NEW ms \in MarketSets, UpdateGameMarkets(g, ms)
  PROVE  IInv'
  <1> DEFINE o == [game[g] EXCEPT !.markets = ms]
  <1>1. game[g] \in GameObject /\ TimesFit(game[g]) /\ OnTime(game[g], head_block_time)
    BY DEF IInv
  <1>2. ms \in SUBSET Markets
    BY BettingAssumption
  <1>3. o \in GameObject /\ TimesFit(o)
    BY <1>1, <1>2 DEF GameObject, TimesFit
  <1>4. OnTime(o, head_block_time)
    BY <1>1 DEF OnTime, GameObject
  <1>5. game' = [game EXCEPT ![g] = o] /\ UNCHANGED game_uuids
    BY DEF UpdateGameMarkets
  <1> HIDE DEF o
  <1> QED BY <1>3, <1>4, <1>5, ReplaceGameKeeps

\* update_game_start_time: the expiration moves by as much as the start.
LEMMA UpdateGameStartTimeKeeps ==
  ASSUME IInv, UNCHANGED head_block_time, NEW g \in DOMAIN game,
         NEW start \in 1 .. MaxTime, UpdateGameStartTime(g, start)
  PROVE  IInv'
  <1> DEFINE t == Seconds(game[g].auto_resolve_time + (start - game[g].start_time))
             o == [game[g] EXCEPT !.auto_resolve_time = t, !.start_time = start,
                                  !.status = "created"]
  <1>1. /\ game[g] \in GameObject /\ OnTime(game[g], head_block_time) /\ TimesFit(game[g])
        /\ head_block_time \in Nat /\ start \in Nat /\ start \in 0 .. MaxTime
    BY BalancesAssumption DEF IInv
  <1>2. start > head_block_time /\ game[g].status # "finished"
    BY DEF UpdateGameStartTime
  <1>3. PICK delay \in Delays : game[g].auto_resolve_time = Seconds(game[g].start_time + delay)
    BY <1>1, <1>2 DEF OnTime
  <1>4. t = Seconds(start + delay) /\ t \in 0 .. TIME_POINT_MAX
    <2>1. /\ delay \in 1 .. TIME_POINT_MAX /\ start + delay \in Int
          /\ start + delay <= 2 * TIME_POINT_MAX /\ start + delay >= -TIME_POINT_MAX
      BY <1>1, BettingAssumption, BalancesAssumption
    <2>2. t = Seconds(start + delay)
      BY <1>1, <1>3, <2>1, SecondsMove DEF TimesFit
    <2> HIDE DEF t
    <2> QED BY <2>1, <2>2, SecondsFit
  <1> HIDE DEF t
  <1>5. o \in GameObject /\ TimesFit(o) /\ OnTime(o, head_block_time)
    <2>1. t \in Nat
      BY <1>4, BettingAssumption
    <2>2. o \in GameObject /\ TimesFit(o)
      BY <1>1, <1>4, <2>1 DEF GameObject, TimesFit
    <2>3. /\ o.status = "created" /\ o.start_time = start /\ o.auto_resolve_time = t
          /\ o.bets_resolve_time = game[g].bets_resolve_time
      BY <1>1 DEF GameObject
    <2>4. game[g].bets_resolve_time = TIME_POINT_MAX
      BY <1>1, <1>2 DEF OnTime
    <2> HIDE DEF o
    <2> QED BY <1>2, <1>4, <2>2, <2>3, <2>4 DEF OnTime
  <1>6. game' = [game EXCEPT ![g] = o] /\ UNCHANGED game_uuids
    BY DEF UpdateGameStartTime, t
  <1> HIDE DEF o
  <1> QED BY <1>5, <1>6, ReplaceGameKeeps

\* dbs_game::finish: what it makes of a game that can be given results.
LEMMA FinishIsOnTime ==
  ASSUME NEW o \in GameObject, TimesFit(o), o.status # "created",
         NEW results \in SUBSET Wincases(Markets), NEW delay \in ResolveDelays,
         head_block_time \in 0 .. MaxTime
  PROVE  /\ Finish(o, results, delay) \in GameObject
         /\ TimesFit(Finish(o, results, delay))
         /\ OnTime(Finish(o, results, delay), head_block_time)
         /\ Finish(o, results, delay).status = "finished"
         /\ o.status = "finished" =>
              Finish(o, results, delay).bets_resolve_time = o.bets_resolve_time
  <1> DEFINE f == Finish(o, results, delay)
             t == IF o.status = "started" THEN Seconds(head_block_time + delay)
                                          ELSE o.bets_resolve_time
  <1>1. TIME_POINT_MAX \in Nat /\ Seconds(head_block_time + delay) \in 0 .. TIME_POINT_MAX
    <2>1. /\ head_block_time + delay \in Int
          /\ head_block_time + delay <= 2 * TIME_POINT_MAX
          /\ head_block_time + delay >= -TIME_POINT_MAX
      BY BettingAssumption, BalancesAssumption
    <2> QED BY <2>1, SecondsFit, BettingAssumption
  <1>2. t \in Nat
    BY <1>1 DEF GameObject
  <1>3. f = [o EXCEPT !.bets_resolve_time = t, !.status = "finished",
                      !.auto_resolve_time = TIME_POINT_MAX, !.results = results]
    BY DEF Finish
  <1>4. o.status = "finished" => t = o.bets_resolve_time
    OBVIOUS
  <1> HIDE DEF t, f
  <1>5. /\ f \in GameObject /\ f.status = "finished" /\ f.bets_resolve_time = t
        /\ f.start_time = o.start_time /\ f.auto_resolve_time = TIME_POINT_MAX
    BY <1>1, <1>2, <1>3 DEF GameObject
  <1>6. TimesFit(f) /\ OnTime(f, head_block_time)
    BY <1>1, <1>5 DEF TimesFit, OnTime
  <1> QED BY <1>4, <1>5, <1>6 DEF f

\* post_game_results.
LEMMA PostGameResultsKeeps ==
  ASSUME IInv, UNCHANGED head_block_time, NEW g \in DOMAIN game,
         NEW results \in SUBSET Wincases(Markets), NEW delay \in ResolveDelays,
         PostGameResults(g, results, delay)
  PROVE  IInv'
  <1>1. game[g] \in GameObject /\ TimesFit(game[g]) /\ head_block_time \in 0 .. MaxTime
    BY DEF IInv
  <1>2. /\ game[g].status # "created" /\ UNCHANGED game_uuids
        /\ game' = [game EXCEPT ![g] = Finish(game[g], results, delay)]
    BY DEF PostGameResults
  <1>3. /\ Finish(game[g], results, delay) \in GameObject
        /\ TimesFit(Finish(game[g], results, delay))
        /\ OnTime(Finish(game[g], results, delay), head_block_time)
    BY <1>1, <1>2, FinishIsOnTime
  <1> QED BY <1>2, <1>3, ReplaceGameKeeps

\* The end of a block: games that the new time reaches are started or gone.
LEMMA EndOfBlockKeeps ==
  ASSUME IInv, NEW time \in 1 .. MaxTime, EndOfBlock(time)
  PROVE  IInv' /\ \A g \in DOMAIN game' : NotOverdue(game'[g], head_block_time')
  <1> DEFINE ended == Resolved(time) \cup Expired(time)
  <1>1. head_block_time' = time /\ time \in 0 .. MaxTime /\ time \in Nat
    BY BalancesAssumption DEF EndOfBlock, UpdateGlobalDynamicData
  <1>2. /\ DOMAIN game' = DOMAIN game \ ended
        /\ \A g \in DOMAIN game' :
             game'[g] = IF g \in Starting(time) THEN [game[g] EXCEPT !.status = "started"]
                                                ELSE game[g]
    BY DEF EndOfBlock, ProcessGames
  <1>3. ASSUME NEW g \in DOMAIN game'
        PROVE  /\ game'[g] \in GameObject /\ TimesFit(game'[g])
               /\ OnTime(game'[g], time) /\ NotOverdue(game'[g], time)
    <2>1. /\ g \in DOMAIN game /\ game[g] \in GameObject /\ TimesFit(game[g])
          /\ OnTime(game[g], head_block_time)
          /\ game[g].bets_resolve_time > time /\ game[g].auto_resolve_time > time
      BY <1>1, <1>2, <1>3 DEF IInv, Resolved, Expired, GameObject
    <2>2. CASE g \in Starting(time)
      <3>1. game'[g] = [game[g] EXCEPT !.status = "started"] /\ game[g].status = "created"
        BY <1>2, <1>3, <2>2 DEF Starting
      <3>2. game'[g] \in GameObject /\ TimesFit(game'[g]) /\ NotOverdue(game'[g], time)
        BY <2>1, <3>1 DEF GameObject, TimesFit, NotOverdue
      <3>3. OnTime(game'[g], time)
        BY <2>1, <3>1 DEF OnTime, GameObject
      <3> QED BY <3>2, <3>3
    <2>3. CASE g \notin Starting(time)
      <3>1. game'[g] = game[g]
        BY <1>2, <1>3, <2>3
      <3>2. game[g].status = "created" => game[g].start_time > time
        BY <1>1, <2>1, <2>3 DEF Starting, GameObject
      <3> QED BY <2>1, <3>1, <3>2 DEF OnTime, NotOverdue
    <2> QED BY <2>2, <2>3
  <1>4. DOMAIN game' \subseteq game_uuids'
    BY <1>2 DEF IInv, EndOfBlock
  <1> QED BY <1>1, <1>3, <1>4 DEF IInv

\* Bets do not change games.
LEMMA BetterOpKeeps ==
  ASSUME BetterOp
  PROVE  UNCHANGED <<game, game_uuids>>
  BY DEF BetterOp, PostBet, CancelPendingBets

-----------------------------------------------------------------------------
\* Every step keeps the invariant.
LEMMA NextIInv == IInv /\ [Next]_vars => IInv'
  <1> SUFFICES ASSUME IInv, [Next]_vars PROVE IInv'
    OBVIOUS
  <1>1. CASE ModeratorOp /\ UNCHANGED head_block_time
    <2>1. CASE \E g \in Games, start \in 1 .. MaxTime, delay \in Delays, ms \in MarketSets :
                 CreateGame(g, start, delay, ms)
      BY <1>1, <2>1, CreateGameKeeps
    <2>2. ASSUME NEW g \in DOMAIN game, CancelGame(g)
          PROVE  IInv'
      BY <1>1, <2>2, CancelGameKeeps
    <2>3. ASSUME NEW g \in DOMAIN game, NEW ms \in MarketSets, UpdateGameMarkets(g, ms)
          PROVE  IInv'
      BY <1>1, <2>3, UpdateGameMarketsKeeps
    <2>4. ASSUME NEW g \in DOMAIN game, NEW start \in 1 .. MaxTime, UpdateGameStartTime(g, start)
          PROVE  IInv'
      BY <1>1, <2>4, UpdateGameStartTimeKeeps
    <2>5. ASSUME NEW g \in DOMAIN game, NEW results \in SUBSET Wincases(Markets),
                 NEW delay \in ResolveDelays, PostGameResults(g, results, delay)
          PROVE  IInv'
      BY <1>1, <2>5, PostGameResultsKeeps
    <2> QED BY <1>1, <2>1, <2>2, <2>3, <2>4, <2>5 DEF ModeratorOp
  <1>2. CASE BetterOp /\ UNCHANGED head_block_time
    BY <1>2, BetterOpKeeps DEF IInv
  <1>3. CASE ApplyBlock
    BY <1>3, EndOfBlockKeeps DEF ApplyBlock
  <1>4. CASE UNCHANGED vars
    BY <1>4 DEF vars, IInv
  <1> QED BY <1>1, <1>2, <1>3, <1>4 DEF Next, Operation

\* No block leaves a game behind that should have started, been resolved or
\* expired, for any delays.
THEOREM NoGameOverdue == Spec => GamesOnTime
  <1>1. Spec => []IInv
    BY InitIInv, NextIInv, PTL DEF Spec
  <1>2. ASSUME IInv, [Next]_vars
        PROVE  [NoneOverdue]_vars
    <2> SUFFICES ASSUME Next, head_block_time' # head_block_time
                 PROVE  \A g \in DOMAIN game' : NotOverdue(game'[g], head_block_time')
      BY <1>2 DEF NoneOverdue, NotOverdue
    <2>1. PICK time \in 1 .. MaxTime : EndOfBlock(time)
      BY DEF Next, Operation, ApplyBlock
    <2> QED BY <1>2, <2>1, EndOfBlockKeeps
  <1>3. Spec => [][NoneOverdue]_vars
    BY <1>1, <1>2, PTL DEF Spec
  <1>4. Spec => []StartsAndExpires
    BY <1>1, IInvImplies, PTL
  <1> QED BY <1>3, <1>4, PTL DEF GamesOnTime

-----------------------------------------------------------------------------
\* What one step may do to a game that has results.
Kept(g) ==
  IF g \in DOMAIN game'
    THEN /\ game'[g].status = "finished"
         /\ game'[g].bets_resolve_time = game[g].bets_resolve_time
         /\ \/ UNCHANGED head_block_time
            \/ head_block_time' < game[g].bets_resolve_time
    ELSE \/ UNCHANGED head_block_time
         \/ head_block_time' >= game[g].bets_resolve_time

\* An operation that leaves a finished game alone, or corrects its results.
LEMMA OperationKeepsFinished ==
  ASSUME IInv, NEW g \in DOMAIN game, game[g].status = "finished",
         (ModeratorOp \/ BetterOp) /\ UNCHANGED head_block_time
  PROVE  Kept(g)
  <1>1. game[g] \in GameObject /\ TimesFit(game[g]) /\ head_block_time \in 0 .. MaxTime
    BY DEF IInv
  <1>3. SUFFICES /\ g \in DOMAIN game'
                 /\ game'[g].status = "finished"
                 /\ game'[g].bets_resolve_time = game[g].bets_resolve_time
    BY DEF Kept
  <1>4. CASE \E h \in Games, start \in 1 .. MaxTime, delay \in Delays, ms \in MarketSets :
               CreateGame(h, start, delay, ms)
    BY <1>4, CreateGameKeeps
  <1>5. ASSUME NEW h \in DOMAIN game, CancelGame(h)
        PROVE  g \in DOMAIN game' /\ game'[g] = game[g]
    BY <1>5 DEF CancelGame, Restrict
  <1>6. ASSUME NEW h \in DOMAIN game, NEW ms, UpdateGameMarkets(h, ms)
        PROVE  g \in DOMAIN game' /\ game'[g] = game[g]
    BY <1>6 DEF UpdateGameMarkets
  <1>7. ASSUME NEW h \in DOMAIN game, NEW start, UpdateGameStartTime(h, start)
        PROVE  g \in DOMAIN game' /\ game'[g] = game[g]
    <2>1. h # g
      BY <1>7 DEF UpdateGameStartTime
    <2> QED BY <1>7, <2>1 DEF UpdateGameStartTime
  <1>8. ASSUME NEW h \in DOMAIN game, NEW results \in SUBSET Wincases(Markets),
               NEW delay \in ResolveDelays, PostGameResults(h, results, delay)
        PROVE  /\ g \in DOMAIN game'
               /\ game'[g].status = "finished"
               /\ game'[g].bets_resolve_time = game[g].bets_resolve_time
    <2>1. game' = [game EXCEPT ![h] = Finish(game[h], results, delay)]
      BY <1>8 DEF PostGameResults
    <2>2. /\ Finish(game[g], results, delay).status = "finished"
          /\ Finish(game[g], results, delay).bets_resolve_time = game[g].bets_resolve_time
      BY <1>1, FinishIsOnTime
    <2> QED BY <2>1, <2>2
  <1>9. CASE BetterOp
    BY <1>9, BetterOpKeeps
  <1> QED BY <1>4, <1>5, <1>6, <1>7, <1>8, <1>9 DEF ModeratorOp

\* The end of a block ends a finished game exactly when its time has come.
LEMMA EndOfBlockEndsFinished ==
  ASSUME IInv, NEW g \in DOMAIN game, game[g].status = "finished",
         NEW time \in 1 .. MaxTime, EndOfBlock(time)
  PROVE  Kept(g)
  <1>1. /\ game[g] \in GameObject /\ OnTime(game[g], head_block_time)
        /\ head_block_time' = time /\ time \in Nat /\ time < TIME_POINT_MAX
    BY BalancesAssumption, BettingAssumption DEF IInv, EndOfBlock, UpdateGlobalDynamicData
  <1>2. g \notin Expired(time) /\ g \notin Starting(time)
    BY <1>1, BettingAssumption DEF Expired, Starting, OnTime, GameObject, TimesFit
  <1>3. /\ DOMAIN game' = DOMAIN game \ (Resolved(time) \cup Expired(time))
        /\ g \in DOMAIN game' => game'[g] = game[g]
    BY <1>2 DEF EndOfBlock, ProcessGames
  <1>4. g \in DOMAIN game' <=> ~(game[g].bets_resolve_time <= time)
    BY <1>2, <1>3 DEF Resolved
  <1> QED BY <1>1, <1>3, <1>4 DEF Kept, GameObject

\* Once results are posted the game stays until the block that reaches the time
\* dbs_game::finish() set, and goes in it, whatever operations come in between.
THEOREM ResultsAreFinal == Spec => ResolvedWhenAnnounced
  <1>1. ASSUME IInv, [Next]_vars
        PROVE  [\A g \in DOMAIN game : game[g].status = "finished" => Kept(g)]_vars
    <2> SUFFICES ASSUME Next, NEW g \in DOMAIN game, game[g].status = "finished"
                 PROVE  Kept(g)
      BY <1>1
    <2>1. CASE Operation
      BY <1>1, <2>1, OperationKeepsFinished DEF Operation
    <2>2. CASE ApplyBlock
      BY <1>1, <2>2, EndOfBlockEndsFinished DEF ApplyBlock
    <2> QED BY <2>1, <2>2 DEF Next
  <1>2. Spec => []IInv
    BY InitIInv, NextIInv, PTL DEF Spec
  <1>3. Spec => [][\A g \in DOMAIN game : game[g].status = "finished" => Kept(g)]_vars
    BY <1>1, <1>2, PTL DEF Spec
  <1> QED BY <1>3 DEF ResolvedWhenAnnounced, Kept
=============================================================================
