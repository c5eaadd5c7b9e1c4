-------------------------------- MODULE Funds ---------------------------------
(***************************************************************************)
(* Advertising budgets, their auction, and what process_funds does with    *)
(* the money of a block: the development pool, the reward balancers, the   *)
(* witness, the holders of power who have voted, and the content fund.     *)
(*                                                                         *)
(* Time is in seconds; a block comes at a multiple of the interval and     *)
(* slots may be missed.  Votes matter here for the power they use only     *)
(* (Comments models the rest of a vote).                                   *)
(***************************************************************************)
EXTENDS Integers, FiniteSets, FiniteSetsExt, Functions, SequencesExt

CONSTANTS Advertisers, Holders,  \* owners of budgets, holders of power who vote
          Signers,           \* witnesses
          Wallet,            \* SCR of an advertiser at genesis
          Power,             \* scorumpower of a holder at genesis
          FundSp, FundPerBlock, \* the fund budget
          Interval,          \* SCORUM_BLOCK_INTERVAL
          CashoutPeriod,     \* SCORUM_ADVERTISING_CASHOUT_PERIOD_SEC
          BudgetLimit,       \* SCORUM_BUDGETS_LIMIT_PER_OWNER
          Coefficients,      \* lists the committee may set for an auction
          Percent,           \* SCORUM_100_PERCENT
          DevPercent, WitnessPercent, HoldersPercent, AdjustPercent,
          GuaranteedBlocks, IncreaseBlocks, \* the thresholds of a balancer, in blocks
          FullPower,         \* SCORUM_100_PERCENT of voting power, which regains
                             \* one unit in a second
          HoldersPeriod,     \* SCORUM_ACTIVE_SP_HOLDERS_REWARD_PERIOD
          BudgetAmounts,     \* bound: balances of new budgets
          Delays, Lengths,   \* bound: seconds to the start, from start to deadline
          UsedPower,         \* bound: power a vote uses, by its weight
          MissedSlots,       \* bound: slots missed before a block
          MaxFundOps, LastTime  \* bound: operations, the clock

ASSUME FundsAssumption ==
    /\ {Wallet, Power, FundSp, MaxFundOps, LastTime} \subseteq Nat
    /\ {FundPerBlock, Interval, CashoutPeriod, BudgetLimit, Percent, GuaranteedBlocks,
        IncreaseBlocks, FullPower, HoldersPeriod} \subseteq Nat \ {0}
    /\ Signers \subseteq Advertisers \cup Holders
    /\ WitnessPercent + HoldersPercent <= Percent
    /\ BudgetAmounts \cup UsedPower \subseteq Nat \ {0}
    /\ Delays \subseteq Nat \ {0} /\ Lengths \subseteq Nat /\ MissedSlots \subseteq Nat
    /\ \A c \in Coefficients : Len(c) > 0

Kinds == {"post", "banner"}
Symbols == {"SCR", "SP"}
Accounts == Advertisers \cup Holders
Never == LastTime + HoldersPeriod + 1   \* time_point_sec::maximum()

VARIABLES time,            \* head_block_time
          budgets,         \* the budgets there are, records
          next_budget,     \* id of the next one
          totals,          \* kind -> what dynamic_global_property says of its budgets
          coefficients,    \* kind -> auction coefficients
          money,           \* symbol -> account -> balance, scorumpower
          fund,            \* balance of the fund budget
          dev_pool,        \* SCR of the development pool
          balancer,        \* the content reward balancer
          voters_balancer, \* symbol -> the voters reward balancer
          content_fund,    \* symbol -> activity_reward_balance
          pending,         \* symbol -> holder -> pending reward
          voting,          \* holder -> voting power and the times that go with it
          fundOps          \* operations so far (bound)

budgetVars == <<budgets, next_budget, totals, coefficients>>
rewardVars == <<fund, dev_pool, balancer, voters_balancer, content_fund, pending>>
fundsVars == <<time, budgetVars, money, rewardVars, voting, fundOps>>

NewBalancer == [balance |-> 0, per_block |-> 1]

FundsInit ==
    /\ time = Interval
    /\ budgets = {} /\ next_budget = 1
    /\ totals = [k \in Kinds |-> [volume |-> 0, income |-> 0, outgo |-> 0]]
    /\ \E c \in Coefficients : coefficients = [k \in Kinds |-> c]
    /\ money = [s \in Symbols |-> [a \in Accounts |->
                   IF s = "SCR" THEN IF a \in Advertisers THEN Wallet ELSE 0
                   ELSE IF a \in Holders THEN Power ELSE 0]]
    /\ fund = FundSp /\ dev_pool = 0
    /\ balancer = NewBalancer
    /\ voters_balancer = [s \in Symbols |-> NewBalancer]
    /\ content_fund = [s \in Symbols |-> 0]
    /\ pending = [s \in Symbols |-> [h \in Holders |-> 0]]
    /\ voting = [h \in Holders |->
                   [power |-> FullPower, last |-> 0, restored |-> 0, sp |-> 0, cashout |-> Never]]
    /\ fundOps = 0

(***************************************************************************)
(* Budgets.                                                                *)
(***************************************************************************)
\* The next time of the grid of blocks, from a value after the head block.
ceil(value, start) ==
    LET rest == (value - start) % Interval IN IF rest = 0 THEN value ELSE value + Interval - rest

adv_calculate_per_block(start, deadline, head, balance) ==
    LET blocks == 1 + (ceil(deadline, head) - ceil(start, head)) \div Interval
    IN  Max({1, balance \div blocks})

create_budget(kind, owner, balance, start, deadline) ==
    /\ money["SCR"][owner] >= balance
    /\ Cardinality({b \in budgets : b.owner = owner}) < BudgetLimit
    /\ start <= deadline /\ start > time
    /\ budgets' = budgets \cup
          {[id |-> next_budget, kind |-> kind, owner |-> owner, start |-> start,
            deadline |-> deadline, balance |-> balance,
            per_block |-> adv_calculate_per_block(start, deadline, time, balance),
            cashout |-> ceil(start, time) + CashoutPeriod - Interval,
            income |-> 0, outgo |-> 0]}
    /\ next_budget' = next_budget + 1
    /\ money' = [money EXCEPT !["SCR"][owner] = @ - balance]
    /\ totals' = [totals EXCEPT ![kind].volume = @ + balance]
    /\ UNCHANGED <<time, coefficients, rewardVars, voting>>

finish_budget(b, now) ==
    [b EXCEPT !.cashout = now, !.income = @ + b.balance, !.balance = 0]

\* A mutant: the volume of the budget stays in the statistics.
CloseKeepsVolume(b) ==
    /\ budgets' = (budgets \ {b}) \cup {finish_budget(b, time)}
    /\ totals' = [totals EXCEPT ![b.kind].income = @ + b.balance]
    /\ UNCHANGED <<time, next_budget, coefficients, money, rewardVars, voting>>

\* By its owner, or by the moderator for any owner.
close_budget(b) ==
    /\ budgets' = (budgets \ {b}) \cup {finish_budget(b, time)}
    /\ totals' = [totals EXCEPT ![b.kind].income = @ + b.balance,
                                ![b.kind].volume = @ - b.balance]
    /\ UNCHANGED <<time, next_budget, coefficients, money, rewardVars, voting>>

change_coefficients(kind, c) ==
    /\ coefficients' = [coefficients EXCEPT ![kind] = c]
    /\ UNCHANGED <<time, budgets, next_budget, totals, money, rewardVars, voting>>

(***************************************************************************)
(* The auction.                                                            *)
(***************************************************************************)
\* The index by_per_block: the dearest first, then the oldest.
get_top_budgets(kind, now) ==
    SetToSortSeq({b \in budgets : b.kind = kind /\ b.balance # 0 /\ b.start <= now},
                 LAMBDA b, c : \/ b.per_block > c.per_block
                               \/ b.per_block = c.per_block /\ b.id < c.id)

take_n(bids, n) == SubSeq(bids, 1, Min({n, Len(bids)}))

\* The last winner pays the bid below his own, every other winner what the one after
\* him pays and the part of that one's bid that his better place is worth.
calculate_bets(bids, c) ==
    LET n == Min({Len(bids), Len(c)})
        bet[i \in 1..n] ==
            IF i = n THEN bids[Min({n + 1, Len(bids)})]
            ELSE Min({bet[i + 1] + (bids[i + 1] * (c[i] - c[i + 1])) \div c[1], bids[i]})
    IN  bet

allocate_cash(b, now) ==
    LET paid == [b EXCEPT !.balance = @ - b.per_block]
    IN  IF b.deadline <= now \/ paid.balance = 0 THEN finish_budget(paid, now) ELSE paid

\* The budgets of one kind after a round, and what the statistics say of them.
run_round(kind, now) ==
    LET top == get_top_budgets(kind, now)
        bids == [i \in DOMAIN top |-> top[i].per_block]
        bets == calculate_bets(take_n(bids, Len(coefficients[kind]) + 1), coefficients[kind])
        bet(i) == IF i \in DOMAIN bets THEN bets[i] ELSE 0
        after(i) == LET b == allocate_cash(top[i], now)
                    IN  [b EXCEPT !.income = @ + bids[i] - bet(i), !.outgo = @ + bet(i)]
        left(i) == top[i].balance - bids[i] - after(i).balance
        all == DOMAIN top
    IN  [budgets |-> ({b \in budgets : b.kind = kind} \ Range(top)) \cup {after(i) : i \in all},
         total |-> [volume |-> totals[kind].volume - MapThenSumSet(LAMBDA i : bids[i] + left(i), all),
                    income |-> totals[kind].income
                                  + MapThenSumSet(LAMBDA i : left(i) + bids[i] - bet(i), all),
                    outgo |-> totals[kind].outgo + MapThenSumSet(bet, all)]]

\* get_empty_budgets compares the three balances in this order with zero.
IsEmpty(b) ==
    \/ b.balance < 0
    \/ b.balance = 0 /\ b.income < 0
    \/ b.balance = 0 /\ b.income = 0 /\ b.outgo <= 0

PaidBudget(b, now) == [b EXCEPT !.income = 0, !.outgo = 0, !.cashout = now + CashoutPeriod]

\* The auction, the payouts that are due, the removal of empty budgets.
run_auction_round(now) ==
    LET round == [k \in Kinds |-> run_round(k, now)]
        played == round["post"].budgets \cup round["banner"].budgets
        due == {b \in played : b.cashout <= now}
        income(bs) == MapThenSumSet(LAMBDA b : b.income, bs)
        outgo(bs) == MapThenSumSet(LAMBDA b : b.outgo, bs)
        paid == (played \ due) \cup {PaidBudget(b, now) : b \in due}
    IN  [budgets |-> {b \in paid : ~IsEmpty(b)},
         totals |-> [k \in Kinds |->
             LET d == {b \in due : b.kind = k}
             IN  [round[k].total EXCEPT !.income = @ - income(d), !.outgo = @ - outgo(d)]],
         owners |-> [a \in Accounts |-> income({b \in due : b.owner = a})],
         reward |-> outgo(due)]

(***************************************************************************)
(* Rewards.                                                                *)
(***************************************************************************)
\* reward_balance_algorithm: the reward of a block follows what the pool holds.
take_block_reward(pool) ==
    LET delta == Max({1, (pool.per_block * AdjustPercent) \div Percent})
        per_block == IF pool.balance > pool.per_block * IncreaseBlocks THEN pool.per_block + delta
                     ELSE IF pool.balance < pool.per_block * GuaranteedBlocks
                     THEN Max({1, pool.per_block - delta}) ELSE pool.per_block
        reward == IF pool.balance >= per_block THEN per_block ELSE Max({0, pool.balance})
    IN  [pool |-> [balance |-> pool.balance - reward, per_block |-> per_block], reward |-> reward]

get_active_sp_holders(now) == {h \in Holders : voting[h].restored > now}

\* What one distribution gives to the witness, to each active holder, to the balancer
\* of voters and to the content fund.
distribute_reward(s, reward, now) ==
    LET witness == (reward * WitnessPercent) \div Percent
        holders == (reward * HoldersPercent) \div Percent
        taken == take_block_reward(voters_balancer[s])
        total == holders + taken.reward
        active == get_active_sp_holders(now)
        sp == MapThenSumSet(LAMBDA h : voting[h].sp, active)
        share == [h \in Holders |-> IF h \in active /\ sp > 0
                                    THEN (total * voting[h].sp) \div sp ELSE 0]
    IN  [witness |-> witness, share |-> share,
         balancer |-> [taken.pool EXCEPT !.balance = @ + total - SumFunction(share)],
         content |-> reward - witness - holders]

\* process_active_sp_holders_cashout: who is still recovering is due again later.
Cashout(v, now) ==
    [v EXCEPT !.cashout = IF v.restored > now THEN now + HoldersPeriod ELSE Never]

ApplyFunds(witness, now) ==
    \E auction \in {run_auction_round(now)} :
    LET fund_reward == Min({fund, FundPerBlock})
        dev == (auction.reward * DevPercent) \div Percent
        due == {h \in Holders : voting[h].cashout <= now}
    IN
    \E content \in {take_block_reward([balancer EXCEPT !.balance = @ + auction.reward - dev])} :
    \E paid \in {[s \in Symbols |-> distribute_reward(s, IF s = "SP" THEN fund_reward
                                                          ELSE content.reward, now)]} :
    LET owed == [s \in Symbols |-> [h \in Holders |-> pending[s][h] + paid[s].share[h]]]
    IN  /\ time' = now
        /\ budgets' = auction.budgets
        /\ totals' = auction.totals
        /\ fund' = fund - fund_reward
        /\ dev_pool' = dev_pool + dev
        /\ balancer' = content.pool
        /\ voters_balancer' = [s \in Symbols |-> paid[s].balancer]
        /\ content_fund' = [s \in Symbols |-> content_fund[s] + paid[s].content]
        /\ pending' = [s \in Symbols |-> [h \in Holders |-> IF h \in due THEN 0 ELSE owed[s][h]]]
        /\ voting' = [h \in Holders |-> IF h \in due THEN Cashout(voting[h], now) ELSE voting[h]]
        /\ money' = [s \in Symbols |-> [a \in Accounts |->
              money[s][a] + (IF a = witness THEN paid[s].witness ELSE 0)
                          + (IF s = "SCR" THEN auction.owners[a] ELSE 0)
                          + (IF a \in due THEN owed[s][a] ELSE 0)]]
        /\ UNCHANGED <<next_budget, coefficients, fundOps>>

(***************************************************************************)
(* Votes.                                                                  *)
(***************************************************************************)
restoring_power(v) == Min({v.power + time - v.last, FullPower})

\* update_voting_power: the power is compared with the one of the last vote, which
\* has been regained in part or whole since.
update_voting_power(h, power) ==
    voting' = [voting EXCEPT ![h] =
        [power |-> power, last |-> time, restored |-> time + FullPower - power,
         sp |-> money["SP"][h],
         cashout |-> IF power < voting[h].power /\ voting[h].cashout = Never
                     THEN time + HoldersPeriod ELSE voting[h].cashout]]

vote(h, used) ==
    /\ time - voting[h].last >= Interval
    /\ used <= restoring_power(voting[h])
    /\ update_voting_power(h, restoring_power(voting[h]) - used)
    /\ UNCHANGED <<time, budgetVars, money, rewardVars>>

FundsOperation ==
    \/ \E k \in Kinds, a \in Advertisers, n \in BudgetAmounts, d \in Delays, l \in Lengths :
          create_budget(k, a, n, time + d, time + d + l)
    \/ \E b \in budgets : close_budget(b)
    \/ \E k \in Kinds, c \in Coefficients : change_coefficients(k, c)
    \/ \E h \in Holders, used \in UsedPower : vote(h, used)

FundsNext ==
    \/ fundOps < MaxFundOps /\ fundOps' = fundOps + 1 /\ FundsOperation
    \/ \E missed \in MissedSlots, w \in Signers :
          LET now == time + Interval * (1 + missed) IN now <= LastTime /\ ApplyFunds(w, now)

(***************************************************************************)
(* Properties.                                                             *)
(***************************************************************************)
\* Types: no balance is negative, of a budget above all.  A budget that could not pay
\* its block would be closed as empty and the debt forgotten.
FundsTypeOK ==
    /\ \A b \in budgets : {b.balance, b.income, b.outgo} \subseteq Nat /\ b.per_block > 0
    /\ {fund, dev_pool, balancer.balance} \subseteq Nat
    /\ \A s \in Symbols : /\ money[s] \in [Accounts -> Nat] /\ pending[s] \in [Holders -> Nat]
                          /\ {voters_balancer[s].balance, content_fund[s]} \subseteq Nat

Held(s) ==
    SumFunction(money[s]) + SumFunction(pending[s]) + voters_balancer[s].balance + content_fund[s]

\* No money comes or goes: SCR is with its owners, in the budgets or in what they pay
\* for, power is in the fund or in what it pays for.
FundsConserved ==
    /\ Held("SP") + fund = FundSp + Power * Cardinality(Holders)
    /\ Held("SCR") + dev_pool + balancer.balance
          + MapThenSumSet(LAMBDA b : b.balance + b.income + b.outgo, budgets)
       = Wallet * Cardinality(Advertisers)

\* The totals of dynamic_global_property, which operations and block tasks update piece
\* by piece, are the sums over the budgets.
TotalsMatch ==
    \A k \in Kinds :
        LET bs == {b \in budgets : b.kind = k}
        IN  totals[k] = [volume |-> MapThenSumSet(LAMBDA b : b.balance, bs),
                         income |-> MapThenSumSet(LAMBDA b : b.income, bs),
                         outgo |-> MapThenSumSet(LAMBDA b : b.outgo, bs)]

\* Whatever slots are missed, a budget has its share for every block up to its deadline,
\* or pays the smallest amount there is until it is spent.
PaysToTheDeadline ==
    \A b \in budgets : (b.balance # 0 /\ b.per_block > 1) =>
        b.balance >= b.per_block * (1 + ((ceil(b.deadline, time)
                                          - Max({ceil(b.start, time), time + Interval})) \div Interval))

\* A budget that is over is paid out and removed with the next block, and one that goes
\* on is paid out again after the period.
NoStrandedBudget ==
    \A b \in budgets : /\ b.balance = 0 => b.cashout <= time
                       /\ b.start <= time => b.cashout <= time + CashoutPeriod

\* What run_round and calculate_bets assert, so that no block fails on it: nobody pays
\* more than he bid, and a better place never costs less.
BetsAreSound ==
    \A k \in Kinds :
        LET top == get_top_budgets(k, time + Interval)
            bids == [i \in DOMAIN top |-> top[i].per_block]
            bets == calculate_bets(take_n(bids, Len(coefficients[k]) + 1), coefficients[k])
        IN  \A i \in DOMAIN bets : /\ 0 < bets[i] /\ bets[i] <= bids[i]
                                   /\ i > 1 => bets[i - 1] >= bets[i]

\* "Cashout time is changing if voting power is changing to less value": who has a
\* pending reward has a time at which it is paid.
PendingIsScheduled ==
    \A h \in Holders, s \in Symbols : pending[s][h] > 0 => voting[h].cashout # Never

\* Money is conserved through process_funds and the totals follow the budgets.  What
\* an advertiser relies on holds too: his budget lasts, is settled in time and is
\* never charged more than he bid.
FundsSound ==
    /\ FundsTypeOK /\ FundsConserved /\ TotalsMatch
    /\ PaysToTheDeadline /\ NoStrandedBudget /\ BetsAreSound
=============================================================================
