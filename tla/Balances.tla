------------------------------ MODULE Balances ------------------------------
(***************************************************************************)
(* The SCR balances of accounts and the clock of the chain, which every    *)
(* component that locks, pays or returns money shares.                     *)
(*                                                                         *)
(* decrease_balance() does not look at the balance: that it stays above    *)
(* zero is the duty of the evaluators.                                     *)
(***************************************************************************)
EXTENDS Integers, FiniteSets, Functions

CONSTANTS
  Accounts,
  InitialBalance,  \* of each account
  Amounts,         \* amounts an operation may name, all positive
  MaxTime          \* bound on the clock, which counts slots

ASSUME BalancesAssumption ==
  /\ IsFiniteSet(Accounts)
  /\ InitialBalance \in [Accounts -> Nat]
  /\ Amounts \subseteq Nat \ {0}
  /\ MaxTime \in Nat

VARIABLES
  balance,             \* account_object::balance
  circulating_capital, \* dynamic_global_property_object::circulating_capital
  head_block_time      \* the time of the last block: what every operation of
                       \* the next block compares its deadlines with

balanceVars == <<balance, circulating_capital>>

-----------------------------------------------------------------------------
\* An amount for one account, as a payment to every account.
To(a, amount) == [x \in Accounts |-> IF x = a THEN amount ELSE 0]

Both(p, q) == [x \in Accounts |-> p[x] + q[x]]

\* increase_balance for every account that a payment names; decrease_balance
\* is the same with a negative amount.
IncreaseBalance(payment) ==
  /\ balance' = [a \in Accounts |-> balance[a] + payment[a]]
  /\ circulating_capital' = circulating_capital + SumFunction(payment)

DecreaseBalance(a, amount) == IncreaseBalance(To(a, -amount))

Transfer(from, to, amount) ==
  /\ balance[from] >= amount
  /\ IncreaseBalance(Both(To(from, -amount), To(to, amount)))

\* Blocks come in slots, and a slot may pass without one.
UpdateGlobalDynamicData(time) ==
  /\ time > head_block_time
  /\ head_block_time' = time

BalancesInit ==
  /\ balance = InitialBalance
  /\ circulating_capital = SumFunction(InitialBalance)
  /\ head_block_time = 0
=============================================================================
