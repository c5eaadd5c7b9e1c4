---------------------------- MODULE Registration ----------------------------
(***************************************************************************)
(* The registration pool before hardfork 0.3 (registration_pool_evaluator, *)
(* registration_pool, registration_committee and their initializators):    *)
(* accounts registered by members of its committee get a bonus that a      *)
(* schedule sets and that is limited for each member by a window of        *)
(* blocks; a bonus whose account stays inactive goes back.                 *)
(*                                                                         *)
(* Who is in the committee is in Committees, what becomes of the power in  *)
(* Vesting: here it is what an account may still give back.                *)
(***************************************************************************)
EXTENDS Naturals, Integers, Sequences, FiniteSets, FiniteSetsExt, SequencesExt

CONSTANTS Registrars,      \* members of the committee
          Newcomers,         \* accounts to register, in the order they are
          Genesis,           \* accounts of genesis, in their order
          Schedule,          \* stages: numbers of users and percentages of the bonus
          MaximumBonus,      \* registration_bonus of genesis
          RegistrationSupply,\* registration_supply
          LimitPerMember,    \* SCORUM_REGISTRATION_BONUS_LIMIT_PER_MEMBER_PER_N_BLOCK
          WindowBlocks,      \* SCORUM_REGISTRATION_BONUS_LIMIT_PER_MEMBER_N_BLOCK
          BonusExpiration,   \* SCORUM_EXPIRATON_FOR_REGISTRATION_BONUS, in blocks
          LastRegistration   \* bound: the last block

ASSUME RegistrationAssumption ==
    /\ Schedule \in Seq([users : Nat \ {0}, bonus_percent : 0..100]) /\ Schedule # <<>>
    /\ {MaximumBonus, RegistrationSupply, WindowBlocks, LimitPerMember} \subseteq Nat \ {0}
    /\ {BonusExpiration, LastRegistration} \subseteq Nat
    /\ Newcomers \in Seq(STRING) /\ Genesis \in Seq(STRING) /\ IsInjective(Newcomers \o Genesis)
    /\ "genesis" \notin Registrars

VARIABLES pool,         \* registration_pool_object: balance, already_allocated_count
          committee_members,\* registration_committee_member_object of each member
          bonuses,        \* account_registration_bonus_object
          bonus_power,    \* the scorumpower of accounts they have not delegated
          reg_block,      \* head_block_number
          allocations     \* history: who allocated what in which block

registrationVars == <<pool, committee_members, bonuses, bonus_power, reg_block, allocations>>

(***************************************************************************)
(* allocate_cash.                                                          *)
(***************************************************************************)
\* A mutant: a stage ends one user late.
CurrentStageLate ==
    LET after[i \in 0..Len(Schedule)] ==
          IF i = 0 THEN [rest |-> pool.already_allocated_count, stage |-> 1]
          ELSE IF after[i - 1].stage = i /\ after[i - 1].rest > Schedule[i].users
               THEN [rest |-> after[i - 1].rest - Schedule[i].users, stage |-> i + 1]
               ELSE after[i - 1]
        found == after[Len(Schedule)].stage
    IN  IF found > Len(Schedule) THEN Len(Schedule) ELSE found

\* The loop that finds the stage: what is left of the count goes down stage by stage,
\* until one has more users, and the last stage goes on for ever.
CurrentStage ==
    LET after[i \in 0..Len(Schedule)] ==
          IF i = 0 THEN [rest |-> pool.already_allocated_count, stage |-> 1]
          ELSE IF after[i - 1].stage = i /\ after[i - 1].rest >= Schedule[i].users
               THEN [rest |-> after[i - 1].rest - Schedule[i].users, stage |-> i + 1]
               ELSE after[i - 1]
        found == after[Len(Schedule)].stage
    IN  IF found > Len(Schedule) THEN Len(Schedule) ELSE found

calculate_amount_by_schedule == (MaximumBonus * Schedule[CurrentStage].bonus_percent) \div 100

take_actually_amount(balance) == IF balance <= pool.balance THEN balance ELSE pool.balance

\* A mutant: the amounts of a window are not added up.
MovedWindowForgets(m, amount) ==
    LET passed == IF m.last_allocated_block > 0 THEN reg_block - m.last_allocated_block ELSE 0
        remain == IF passed > m.per_n_block_remain THEN 0 ELSE m.per_n_block_remain - passed
    IN  [passed |-> passed,
         checked |-> IF remain > 0 THEN amount ELSE 0,
         member |-> [last_allocated_block |-> reg_block,
                     per_n_block_remain |-> IF remain > 0 THEN remain ELSE WindowBlocks,
                     already_allocated_cash |-> amount]]

\* The member after the window has moved on to this block and the amount is added; what
\* is checked against the limit is nothing where a window begins.
MovedWindow(m, amount) ==
    LET passed == IF m.last_allocated_block > 0 THEN reg_block - m.last_allocated_block ELSE 0
        remain == IF passed > m.per_n_block_remain THEN 0 ELSE m.per_n_block_remain - passed
    IN  [passed |-> passed,
         checked |-> IF remain > 0 THEN m.already_allocated_cash + amount ELSE 0,
         member |-> [last_allocated_block |-> reg_block,
                     per_n_block_remain |-> IF remain > 0 THEN remain ELSE WindowBlocks,
                     already_allocated_cash |->
                         IF remain > 0 THEN m.already_allocated_cash + amount ELSE amount]]

check_bandwidth(w) == w.checked <= (MaximumBonus * (w.passed + 1) * LimitPerMember) \div WindowBlocks

\* The amount must not be zero, and is never more than the pool has.
Allocated == take_actually_amount(calculate_amount_by_schedule)

TakeFromPool == pool' = [balance |-> pool.balance - Allocated,
                         already_allocated_count |-> pool.already_allocated_count + 1]

register_account_bonus(a) ==
    /\ bonuses' = bonuses \cup {[account |-> a, bonus |-> Allocated, expires |-> reg_block + BonusExpiration]}
    /\ bonus_power' = [bonus_power EXCEPT ![a] = @ + Allocated]

(***************************************************************************)
(* Operations.                                                             *)
(***************************************************************************)
\* registration_pool_evaluator::do_apply
account_create_by_committee_evaluator(creator, a) ==
    LET w == MovedWindow(committee_members[creator], Allocated)
    IN  /\ Allocated > 0
        /\ check_bandwidth(w)
        /\ committee_members' = [committee_members EXCEPT ![creator] = w.member]
        /\ TakeFromPool
        /\ register_account_bonus(a)
        /\ allocations' = allocations \cup
              {[account |-> a, by |-> creator, amount |-> Allocated, block |-> reg_block,
                nth |-> pool.already_allocated_count + 1]}
        /\ UNCHANGED reg_block

\* give_bonus_from_registration_pool_task for the accounts of genesis, in their order, as
\* long as there is something in the pool.
registration_bonus_initializator ==
    LET a == Genesis[pool.already_allocated_count + 1]
    IN  /\ reg_block = 0 /\ pool.already_allocated_count < Len(Genesis)
        /\ Allocated > 0
        /\ TakeFromPool
        /\ register_account_bonus(a)
        /\ allocations' = allocations \cup
              {[account |-> a, by |-> "genesis", amount |-> Allocated, block |-> 0,
                nth |-> pool.already_allocated_count + 1]}
        /\ UNCHANGED <<committee_members, reg_block>>

\* process_user_activity_task: a transaction the account owns makes the bonus its own.
process_user_activity_task(a) ==
    /\ \E b \in bonuses : b.account = a
    /\ bonuses' = {b \in bonuses : b.account # a}
    /\ UNCHANGED <<pool, committee_members, bonus_power, reg_block, allocations>>

\* An account may delegate power, which cannot be returned then.
Delegate(a) ==
    /\ bonus_power[a] > 0
    /\ bonus_power' = [bonus_power EXCEPT ![a] = @ - 1]
    /\ UNCHANGED <<pool, committee_members, bonuses, reg_block, allocations>>

return_funds(b) == IF b.bonus < bonus_power[b.account] THEN b.bonus ELSE bonus_power[b.account]

\* The next block: after genesis the first one; process_account_registration_bonus_expiration
\* takes back what has expired.
process_account_registration_bonus_expiration ==
    LET now == reg_block + 1
        due == {b \in bonuses : b.expires <= now}
        back == [b \in due |-> return_funds(b)]
        Back(a) == SumFunctionOnSet(back, {b \in due : b.account = a})
    IN  /\ reg_block < LastRegistration
        /\ reg_block = 0 => Allocated = 0 \/ pool.already_allocated_count = Len(Genesis)
        /\ reg_block' = now
        /\ bonuses' = bonuses \ due
        /\ bonus_power' = [a \in DOMAIN bonus_power |-> bonus_power[a] - Back(a)]
        /\ pool' = [pool EXCEPT !.balance = @ + SumFunctionOnSet(back, due)]
        /\ UNCHANGED <<committee_members, allocations>>

\* create_pool and create_committee
RegistrationInit ==
    /\ pool = [balance |-> RegistrationSupply, already_allocated_count |-> 0]
    /\ committee_members = [m \in Registrars |->
          [last_allocated_block |-> 0, per_n_block_remain |-> WindowBlocks, already_allocated_cash |-> 0]]
    /\ bonuses = {} /\ bonus_power = [a \in Range(Newcomers \o Genesis) |-> 0]
    /\ reg_block = 0 /\ allocations = {}

RegistrationNext ==
    \/ registration_bonus_initializator
    \/ process_account_registration_bonus_expiration
    \/ \E m \in Registrars, i \in DOMAIN Newcomers :
          /\ reg_block > 0 /\ i = 1 + Cardinality({x \in allocations : x.by # "genesis"})
          /\ account_create_by_committee_evaluator(m, Newcomers[i])
    \/ \E a \in DOMAIN bonus_power : reg_block > 0 /\ (process_user_activity_task(a) \/ Delegate(a))

RegistrationSpec == RegistrationInit /\ [][RegistrationNext]_registrationVars

(***************************************************************************)
(* Properties.                                                             *)
(***************************************************************************)
\* The bonus of the n-th account is that of the stage whose users the n-th is one of,
\* counted over all stages before, or less only if the pool had less.
UsersUpTo[i \in 0..Len(Schedule)] == IF i = 0 THEN 0 ELSE UsersUpTo[i - 1] + Schedule[i].users

StageOf(n) ==
    IF n > UsersUpTo[Len(Schedule)] THEN Len(Schedule)
    ELSE CHOOSE i \in DOMAIN Schedule : UsersUpTo[i - 1] < n /\ n <= UsersUpTo[i]

BonusFollowsSchedule ==
    \A x \in allocations : 100 * x.amount <= MaximumBonus * Schedule[StageOf(x.nth)].bonus_percent

\* In any window of blocks a member gives away no more than the limit of the two windows
\* of its own that can overlap it (validate_bandwidth).
GivenIn(m, first, last) ==
    LET given == {x \in allocations : x.by = m /\ x.block \in first..last}
    IN  SumFunctionOnSet([x \in given |-> x.amount], given)

MembersLimited ==
    \A m \in Registrars, b \in 1..LastRegistration :
        GivenIn(m, b, b + WindowBlocks - 1) <= 2 * MaximumBonus * LimitPerMember

\* No bonus is given back twice or to nobody: the pool never has more than its supply,
\* and is only ever short of what accounts hold or have used.
PoolBounded == pool.balance \in 0..RegistrationSupply

RegistrationSound == BonusFollowsSchedule /\ MembersLimited /\ PoolBounded
=============================================================================
