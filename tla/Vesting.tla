------------------------------- MODULE Vesting --------------------------------
(***************************************************************************)
(* Scorumpower: power bought with SCR, withdrawn in instalments along      *)
(* routes, delegated to others, lent by the registration pool, and given   *)
(* as a bonus that the pool takes back.                                    *)
(*                                                                         *)
(* Accounts are numbers, their ids.  The development pool may withdraw,    *)
(* and be a destination, like an account.  Decisions of committees         *)
(* (Committees) arrive as the operations of the pool.                      *)
(***************************************************************************)
EXTENDS Integers, FiniteSets, Functions, Folds

CONSTANTS Owners,            \* account ids
          Founding,          \* those created by genesis
          GenesisScr, GenesisSp,  \* of each founding account
          PoolSp,            \* of the development pool
          RegistrationPool,  \* the registration pool
          Bonus,             \* what calculate_amount_by_schedule gives
          FirstBonuses,      \* founding accounts genesis gives a bonus
          Member,            \* the member of the registration committee who acts
          LockedUntil,       \* lock_withdraw_sp_until_timestamp
          WithdrawIntervals, \* SCORUM_VESTING_WITHDRAW_INTERVALS
          MaxRoutes,         \* SCORUM_MAX_WITHDRAW_ROUTES
          Whole,             \* SCORUM_100_PERCENT
          Percents,          \* percents a route may have, 0 included
          LimboTime,         \* SCORUM_CASHOUT_WINDOW_SECONDS, in instalments
          BonusTime,         \* SCORUM_EXPIRATON_FOR_REGISTRATION_BONUS
          CreateTime,        \* SCORUM_CREATE_ACCOUNT_DELEGATION_TIME
          MinPower,          \* power above which an account that is not founding
                             \* may withdraw
          MinDelegation,     \* the smallest delegation
          MinUpdate,         \* account_creation_fee: the smallest change of one
          PowerAmounts,      \* bound: amounts named by operations, 0 included
          RoutePairs,        \* bound: pairs of holders a route is set for
          MaxPowerOps,       \* bound: operations
          LastInstalment     \* bound: the clock, in intervals between instalments

ASSUME VestingAssumption ==
    /\ Owners \subseteq Nat /\ IsFiniteSet(Owners) /\ 0 \in Founding
    /\ Founding \subseteq Owners /\ FirstBonuses \subseteq Founding /\ Member \in Founding
    /\ {GenesisScr, GenesisSp, PoolSp, RegistrationPool, MaxRoutes, LimboTime, BonusTime,
        CreateTime, MinPower, MaxPowerOps, LockedUntil} \subseteq Nat
    /\ {Bonus, WithdrawIntervals, Whole, MinDelegation, MinUpdate, LastInstalment}
           \subseteq Nat \ {0}
    /\ RoutePairs \subseteq (Owners \cup {-1}) \X (Owners \cup {-1})
    /\ Percents \subseteq 0..Whole /\ PowerAmounts \subseteq Nat /\ 0 \in PowerAmounts
    /\ Cardinality(FirstBonuses) * Bonus <= RegistrationPool

DevPool == -1
PowerHolders == Owners \cup {DevPool}

NoWithdrawal == [rate |-> 0, next |-> 0, to_withdraw |-> 0, withdrawn |-> 0]
NoRoute == [percent |-> 0, auto_vest |-> FALSE]

VARIABLES now,           \* head_block_time, in intervals between instalments
          existing,      \* accounts created so far
          scr, sp,       \* holder -> balance, scorumpower
          delegated, received, \* account -> delegated and received scorumpower
          delegations,   \* <<delegator, delegatee>> -> amount, 0: none
          min_time,      \* <<delegator, delegatee>> -> min_delegation_time
          limbo,         \* account -> time -> power that comes back after it
          withdrawals,   \* holder -> its withdrawal
          routes,        \* <<from, to>> -> route
          reg_pool,      \* balance of the registration pool
          reg_delegated, \* account -> power delegated by the registration pool
          bonus,         \* account -> time the bonus is taken back, 0: none
          granted,       \* account -> the bonus it was given
          powerOps       \* operations so far

vestingVars == <<now, existing, scr, sp, delegated, received, delegations, min_time, limbo,
                 withdrawals, routes, reg_pool, reg_delegated, bonus, granted, powerOps>>
accountVars == <<existing, delegated, received, delegations, min_time, limbo, granted>>

Pairs == Owners \X Owners
Times == 0..(LastInstalment + LimboTime + BonusTime + CreateTime)

\* Genesis gives some of the founding accounts a bonus from the registration pool.
VestingInit ==
    /\ now = 1
    /\ existing = Founding
    /\ scr = [h \in PowerHolders |-> IF h \in Founding THEN GenesisScr ELSE 0]
    /\ sp = [h \in PowerHolders |->
                CASE h = DevPool -> PoolSp
                  [] h \in FirstBonuses -> GenesisSp + Bonus
                  [] h \in Founding \ FirstBonuses -> GenesisSp
                  [] OTHER -> 0]
    /\ delegated = [a \in Owners |-> 0] /\ received = [a \in Owners |-> 0]
    /\ delegations = [p \in Pairs |-> 0] /\ min_time = [p \in Pairs |-> 0]
    /\ limbo = [a \in Owners |-> [t \in Times |-> 0]]
    /\ withdrawals = [h \in PowerHolders |-> NoWithdrawal]
    /\ routes = [r \in PowerHolders \X PowerHolders |-> NoRoute]
    /\ reg_pool = RegistrationPool - Cardinality(FirstBonuses) * Bonus
    /\ reg_delegated = [a \in Owners |-> 0]
    /\ bonus = [a \in Owners |-> IF a \in FirstBonuses THEN 1 + BonusTime ELSE 0]
    /\ granted = [a \in Owners |-> IF a \in FirstBonuses THEN Bonus ELSE 0]
    /\ powerOps = 0

Exists(h) == h \in existing \cup {DevPool}

\* process_user_activity_task: who signs a transaction keeps his bonus for good.
process_user_activity(h) == [a \in Owners |-> IF a = h THEN 0 ELSE bonus[a]]

(***************************************************************************)
(* Withdrawals.                                                            *)
(***************************************************************************)
Withdrawable(h) == IF h = DevPool THEN sp[h] ELSE sp[h] - delegated[h]

MayWithdraw(h, amount) ==
    /\ Withdrawable(h) >= amount
    /\ h \in existing \ Founding => sp[h] > MinPower \/ amount = 0

withdraw_scorumpower(h, amount) ==
    /\ Exists(h)
    /\ now > LockedUntil
    /\ MayWithdraw(h, amount)
    /\ amount = 0 => withdrawals[h].rate # 0
    /\ withdrawals' = [withdrawals EXCEPT ![h] =
           IF amount = 0 THEN NoWithdrawal
           ELSE [rate |-> IF amount < WithdrawIntervals THEN 1
                          ELSE amount \div WithdrawIntervals,
                 next |-> now + 1, to_withdraw |-> amount, withdrawn |-> 0]]
    /\ bonus' = process_user_activity(h)
    /\ UNCHANGED <<now, accountVars, scr, sp, routes, reg_pool, reg_delegated>>

\* get_all goes through the routes after the one to the default destination, which
\* is account 0: a route to that account is never found.
Destinations(h) == {to \in PowerHolders : to # 0 /\ routes[<<h, to>>].percent > 0}

RoutesOf(h) == {to \in PowerHolders : routes[<<h, to>>].percent > 0}

total_percent(h, to, percent) ==
    SumFunctionOnSet([d \in PowerHolders |-> IF d = to THEN percent ELSE routes[<<h, d>>].percent],
                     (Destinations(h) \cup {to}) \ {0})

set_withdraw_scorumpower_route(h, to, percent, auto_vest) ==
    /\ Exists(h) /\ Exists(to)
    /\ h = DevPool => to # DevPool
    /\ to \notin RoutesOf(h) => percent # 0 /\ Cardinality(RoutesOf(h)) < MaxRoutes
    /\ total_percent(h, to, percent) <= Whole
    /\ routes' = [routes EXCEPT ![<<h, to>>] =
           IF percent = 0 THEN NoRoute ELSE [percent |-> percent, auto_vest |-> auto_vest]]
    /\ bonus' = process_user_activity(h)
    /\ UNCHANGED <<now, accountVars, scr, sp, withdrawals, reg_pool, reg_delegated>>

Instalment(w, power) ==
    LET due == IF w.to_withdraw - w.withdrawn < w.rate THEN w.to_withdraw % w.rate ELSE w.rate
    IN  IF power < due THEN power ELSE due

Share(amount, percent) == (amount * percent) \div Whole

Finished(w, amount, power) == w.withdrawn + amount >= w.to_withdraw \/ power = amount

\* One withdrawal, in a record of the balances: along the routes, the rest to the
\* holder in SCR.
Withdraw(s, h) ==
    LET w == s.withdrawals[h]
        amount == Instalment(w, s.sp[h])
        share == [to \in PowerHolders |-> IF to \in Destinations(h)
                                     THEN Share(amount, routes[<<h, to>>].percent) ELSE 0]
        rest == amount - SumFunction(share)
        toSp == [to \in PowerHolders |-> IF routes[<<h, to>>].auto_vest THEN share[to] ELSE 0]
    IN  IF amount = 0 THEN [s EXCEPT !.withdrawals[h] = NoWithdrawal]
        ELSE [sp |-> [x \in PowerHolders |-> s.sp[x] + toSp[x] - IF x = h THEN amount ELSE 0],
              scr |-> [x \in PowerHolders |-> s.scr[x] + share[x] - toSp[x]
                                            + IF x = h THEN rest ELSE 0],
              withdrawals |-> [s.withdrawals EXCEPT ![h] =
                  IF Finished(w, amount, s.sp[h]) THEN NoWithdrawal
                  ELSE [w EXCEPT !.withdrawn = @ + amount, !.next = @ + 1]]]

DueWithdrawals(time) ==
    {h \in PowerHolders : withdrawals[h].rate # 0 /\ withdrawals[h].next <= time}

\* The one that get_until lists last: by time, then by object.
LastListed(hs) ==
    CHOOSE h \in hs : \A g \in hs \ {h} :
        \/ withdrawals[g].next < withdrawals[h].next
        \/ withdrawals[g].next = withdrawals[h].next /\ g < h

process_vesting_withdrawals(time) ==
    MapThenFoldSet(LAMBDA h, s : Withdraw(s, h),
                   [sp |-> sp, scr |-> scr, withdrawals |-> withdrawals],
                   LAMBDA h : h, LastListed, DueWithdrawals(time))

(***************************************************************************)
(* Delegations.                                                            *)
(***************************************************************************)
WithdrawRest(a) == withdrawals[a].to_withdraw - withdrawals[a].withdrawn

\* available_shares
Available(a) == sp[a] - delegated[a] - WithdrawRest(a)

IncreaseDelegation(a, b, amount) ==
    LET delta == amount - delegations[<<a, b>>]
    IN  /\ delta >= IF delegations[<<a, b>>] = 0 THEN MinDelegation ELSE MinUpdate
        /\ Available(a) >= delta
        /\ delegated' = [delegated EXCEPT ![a] = @ + delta]
        /\ received' = [received EXCEPT ![b] = @ + delta]
        /\ min_time' = [min_time EXCEPT ![<<a, b>>] = IF delegations[<<a, b>>] = 0 THEN now ELSE @]
        /\ UNCHANGED limbo

\* A mutant: an account has one delegation in limbo at a time.
LimboReplaced(a, back, delta) == [limbo EXCEPT ![a][back] = delta]

LimboAfter(a, back, delta) == [limbo EXCEPT ![a][back] = @ + delta]

\* What is taken back stays delegated until the time in limbo is over.
DecreaseDelegation(a, b, amount) ==
    LET delta == delegations[<<a, b>>] - amount
        back == IF now + LimboTime > min_time[<<a, b>>] THEN now + LimboTime ELSE min_time[<<a, b>>]
    IN  /\ amount > 0 => delta >= MinUpdate /\ amount >= MinDelegation
        /\ limbo' = LimboAfter(a, back, delta)
        /\ received' = [received EXCEPT ![b] = @ - delta]
        /\ min_time' = [min_time EXCEPT ![<<a, b>>] = IF amount = 0 THEN 0 ELSE @]
        /\ UNCHANGED delegated

delegate_scorumpower(a, b, amount) ==
    /\ a # b /\ {a, b} \subseteq existing
    /\ \/ amount > 0 /\ amount >= delegations[<<a, b>>] /\ IncreaseDelegation(a, b, amount)
       \/ amount < delegations[<<a, b>>] /\ DecreaseDelegation(a, b, amount)
    /\ delegations' = [delegations EXCEPT ![<<a, b>>] = amount]
    /\ bonus' = process_user_activity(a)
    /\ UNCHANGED <<now, existing, scr, sp, withdrawals, routes, reg_pool, reg_delegated, granted>>

Lapsed(a, time) == SumFunctionOnSet(limbo[a], {t \in Times : t < time})

(***************************************************************************)
(* New accounts, the registration pool and its bonuses.                    *)
(***************************************************************************)
transfer_to_scorumpower(a, b, amount) ==
    /\ {a, b} \subseteq existing
    /\ amount > 0 /\ scr[a] >= amount
    /\ scr' = [scr EXCEPT ![a] = @ - amount]
    /\ sp' = [sp EXCEPT ![b] = @ + amount]
    /\ bonus' = process_user_activity(a)
    /\ UNCHANGED <<now, accountVars, withdrawals, routes, reg_pool, reg_delegated>>

\* The fee becomes the power of the new account; the amounts allowed are those that
\* meet the fee and the delegation the chain asks for.
account_create_with_delegation(a, b, fee, amount) ==
    /\ a \in existing /\ b \notin existing
    /\ fee > 0 /\ scr[a] >= fee
    /\ Available(a) >= amount
    /\ existing' = existing \cup {b}
    /\ delegated' = [delegated EXCEPT ![a] = @ + amount]
    /\ received' = [received EXCEPT ![b] = amount]
    /\ delegations' = [delegations EXCEPT ![<<a, b>>] = amount]
    /\ min_time' = [min_time EXCEPT ![<<a, b>>] = IF amount = 0 THEN 0 ELSE now + CreateTime]
    /\ scr' = [scr EXCEPT ![a] = @ - fee]
    /\ sp' = [sp EXCEPT ![b] = @ + fee]
    /\ bonus' = process_user_activity(a)
    /\ UNCHANGED <<now, limbo, withdrawals, routes, reg_pool, reg_delegated, granted>>

\* Registration by a committee member, with what the pool has left of the bonus.
account_create_by_committee(b) ==
    LET amount == IF reg_pool < Bonus THEN reg_pool ELSE Bonus
    IN  /\ b \notin existing /\ amount > 0
        /\ existing' = existing \cup {b}
        /\ reg_pool' = reg_pool - amount
        /\ sp' = [sp EXCEPT ![b] = amount]
        /\ bonus' = [process_user_activity(Member) EXCEPT ![b] = now + BonusTime]
        /\ granted' = [granted EXCEPT ![b] = amount]
        /\ UNCHANGED <<now, scr, delegated, received, delegations, min_time, limbo,
                       withdrawals, routes, reg_delegated>>

PoolAfter(b, extra) == reg_pool - extra

delegate_sp_from_reg_pool(b, amount) ==
    LET extra == amount - reg_delegated[b]
    IN  /\ b \in existing
        /\ reg_delegated[b] = 0 => amount > 0
        /\ reg_pool >= extra
        /\ received' = [received EXCEPT ![b] = @ + extra]
        /\ reg_pool' = PoolAfter(b, extra)
        /\ reg_delegated' = [reg_delegated EXCEPT ![b] = amount]
        /\ bonus' = process_user_activity(Member)
        /\ UNCHANGED <<now, existing, scr, sp, delegated, delegations, min_time, limbo,
                       withdrawals, routes, granted>>

\* What the pool takes back of what it gave: no more than is not delegated.
Returned(power, lent, given) ==
    IF power - lent <= 0 THEN 0 ELSE IF power - lent < given THEN power - lent ELSE given

\* What a block does to power, in the order of _apply_block: delegations that come
\* back, instalments, bonuses that are taken back.
ApplyBlock ==
    /\ now < LastInstalment
    /\ now' = now + 1
    /\ delegated' = [a \in Owners |-> delegated[a] - Lapsed(a, now')]
    /\ limbo' = [a \in Owners |-> [t \in Times |-> IF t < now' THEN 0 ELSE limbo[a][t]]]
    /\ \E after \in {process_vesting_withdrawals(now')} :
          LET expired == {a \in Owners : bonus[a] # 0 /\ bonus[a] <= now'}
              back == [h \in PowerHolders |-> IF h \in expired
                                         THEN Returned(after.sp[h], delegated'[h], granted[h]) ELSE 0]
          IN  /\ sp' = [h \in PowerHolders |-> after.sp[h] - back[h]]
              /\ scr' = after.scr
              /\ withdrawals' = after.withdrawals
              /\ reg_pool' = reg_pool + SumFunction(back)
              /\ bonus' = [a \in Owners |-> IF a \in expired THEN 0 ELSE bonus[a]]
    /\ UNCHANGED <<existing, received, delegations, min_time, routes, reg_delegated, granted, powerOps>>

VestingOperation ==
    \/ \E h \in PowerHolders, amount \in PowerAmounts : withdraw_scorumpower(h, amount)
    \/ \E r \in RoutePairs, percent \in Percents, auto_vest \in BOOLEAN :
          set_withdraw_scorumpower_route(r[1], r[2], percent, auto_vest)
    \/ \E a, b \in Owners, amount \in PowerAmounts :
          delegate_scorumpower(a, b, amount) \/ transfer_to_scorumpower(a, b, amount)
    \/ \E a, b \in Owners, fee, amount \in PowerAmounts :
          account_create_with_delegation(a, b, fee, amount)
    \/ \E b \in Owners : account_create_by_committee(b)
    \/ \E b \in Owners, amount \in PowerAmounts : delegate_sp_from_reg_pool(b, amount)

VestingNext ==
    \/ ApplyBlock
    \/ /\ powerOps < MaxPowerOps
       /\ powerOps' = powerOps + 1
       /\ VestingOperation

VestingSpec == VestingInit /\ [][VestingNext]_vestingVars

(***************************************************************************)
(* Properties.                                                             *)
(***************************************************************************)
\* Types: nothing is negative, above all what the routes leave of an instalment.
VestingTypeOK ==
    /\ now \in 1..LastInstalment /\ existing \subseteq Owners
    /\ scr \in [PowerHolders -> Nat] /\ sp \in [PowerHolders -> Nat]
    /\ delegated \in [Owners -> Nat] /\ received \in [Owners -> Nat]
    /\ reg_pool \in Nat /\ reg_delegated \in [Owners -> Nat]

\* No SCR or power comes or goes: all of it is with a holder, in the registration pool
\* or delegated by that pool.
PowerConserved ==
    SumFunction(scr) + SumFunction(sp) + reg_pool + SumFunction(reg_delegated)
        = Cardinality(Founding) * (GenesisScr + GenesisSp) + PoolSp + RegistrationPool

\* What an account has delegated is what others have of it and what is in limbo, and
\* what an account has received is what others and the registration pool gave it.
DelegationsMatch ==
    \A a \in Owners :
        /\ delegated[a] = SumFunctionOnSet(delegations, {a} \X Owners) + SumFunction(limbo[a])
        /\ received[a] = SumFunctionOnSet(delegations, Owners \X {a}) + reg_delegated[a]

\* A withdrawal in progress has been paid in whole instalments and is not complete, so
\* the last instalment, the remainder of the division, ends it exactly.
WholeInstalments ==
    \A h \in PowerHolders : withdrawals[h].rate # 0 =>
        /\ withdrawals[h].withdrawn % withdrawals[h].rate = 0
        /\ withdrawals[h].withdrawn < withdrawals[h].to_withdraw

\* "The scorumpower are still owned by the original account": an account can pay the
\* rest of its withdrawal from power it has not delegated.  Neither instalments, which
\* look at the whole power, nor a bonus that is taken back, which does not look at
\* the withdrawal, reach what others have of it.
DelegatedStays == \A a \in Owners : sp[a] - delegated[a] >= WithdrawRest(a)

\* Scorumpower is conserved, every delegation has two ends, and
\* process_vesting_withdrawals can always pay what it has begun.
PowerSound ==
    VestingTypeOK /\ PowerConserved /\ DelegationsMatch /\ WholeInstalments /\ DelegatedStays
=============================================================================
