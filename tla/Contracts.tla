----------------------------- MODULE Contracts ------------------------------
(***************************************************************************)
(* The operations that lock money under a condition, and the end of each   *)
(* block, which decides the conditions that are a matter of time.          *)
(*                                                                         *)
(* Operations of a block see the time of the block before it.  Then the    *)
(* clock moves to the block's own time, overdue swap contracts are ended,  *)
(* and escrows whose ratification is overdue.                              *)
(***************************************************************************)
EXTENDS Escrow, AtomicSwap

vars == <<balance, circulating_capital, head_block_time, escrow, contract>>

-----------------------------------------------------------------------------
Init == BalancesInit /\ EscrowInit /\ SwapInit

TransferOp ==
  /\ \E from, to \in Accounts, amount \in Amounts : Transfer(from, to, amount)
  /\ UNCHANGED <<head_block_time, escrow, contract>>

EscrowOp == EscrowNext /\ UNCHANGED <<head_block_time, contract>>

SwapOp == SwapNext /\ UNCHANGED <<head_block_time, escrow>>

EndOfBlock(time) ==
  /\ UpdateGlobalDynamicData(time)
  /\ ProcessContractsExpiration(time)
  /\ ExpireEscrowRatification(time)
  /\ IncreaseBalance(Both(SwapRefunds(time), EscrowRefunds(time)))

ApplyBlock == \E time \in 1 .. MaxTime : EndOfBlock(time)

Next == TransferOp \/ EscrowOp \/ SwapOp \/ ApplyBlock

Spec == Init /\ [][Next]_vars

-----------------------------------------------------------------------------
BalancesOK ==
  /\ balance \in [Accounts -> Nat]
  /\ circulating_capital \in Nat

ObjectsOK ==
  /\ head_block_time \in 0 .. MaxTime
  /\ DOMAIN escrow \subseteq EscrowKeys
  /\ \A k \in DOMAIN escrow : escrow[k] \in EscrowObject /\ escrow[k].from = k[1]
  /\ DOMAIN contract \subseteq ContractHashes
  /\ \A h \in DOMAIN contract :
       /\ contract[h] \in ContractObject
       /\ contract[h].owner = h[1] /\ contract[h].to = h[2]

\* Types.  That a balance is not negative is the result of the evaluators'
\* checks: decrease_balance() has none.
TypeOK == BalancesOK /\ ObjectsOK

\* No operation and no expiration makes or destroys money: what left the
\* balances is in an escrow or a contract, and circulating_capital follows.
MoneyConserved ==
  /\ circulating_capital = SumFunction(balance)
  /\ SumFunction(balance) + EscrowMoney + SwapMoney = SumFunction(InitialBalance)

\* What ends with time is gone at the end of the block whose time reaches it, so
\* no operation ever meets an escrow or a contract past its deadline, although
\* redeeming checks no deadline and approving allows the deadline itself.
NothingOverdue ==
  /\ \A k \in DOMAIN escrow :
       ~IsApproved(escrow[k]) => escrow[k].ratification_deadline > head_block_time
  /\ \A h \in DOMAIN contract : contract[h].deadline > head_block_time

\* The amount or the fee of an escrow, and the amount of a contract, are paid
\* out once: nothing is left to pay where a payment was made, and only there.
PaidOnce ==
  /\ \A k \in DOMAIN escrow :
       /\ IsApproved(escrow[k]) => escrow[k].pending_fee = 0
       /\ escrow[k].disputed => IsApproved(escrow[k])
       /\ escrow[k].scorum_balance > 0
  /\ \A h \in DOMAIN contract :
       contract[h].secret <=> contract[h].amount = 0

\* create_contract: the limits hold across owners, recipients and contracts that
\* have been redeemed but not removed.
WithinLimits ==
  \A a \in Accounts : /\ Cardinality(OfOwner(a)) <= LIMIT_PER_OWNER
                      /\ Cardinality(ForRecipient(a)) <= LIMIT_PER_RECIPIENT

\* An escrow that ends before both parties approved it, by a rejection or by a
\* deadline, gives the sender back the amount and the fee; and one that both
\* approved is left alone at the end of a block, however old, and ends only when
\* the last of it is released to the sender or to the receiver.
EscrowEndsInFull ==
  [][\A k \in DOMAIN escrow \ DOMAIN escrow' :
       LET e == escrow[k]
           gain(a) == balance'[a] - balance[a]
       IN  IF IsApproved(e) THEN /\ head_block_time' = head_block_time
                                /\ e.scorum_balance \in {gain(e.from), gain(e.to)}
           ELSE gain(e.from) >= e.scorum_balance + e.pending_fee]_vars

\* "Can't refund initiator contract. It is locked on ${h} hours.": until its
\* deadline the contract of an initiator only ends by paying the recipient.
InitiatorLocked ==
  [][\A h \in DOMAIN contract \ DOMAIN contract' :
       LET c == contract[h]
       IN  \/ c.type = "participant"
           \/ head_block_time' >= c.deadline
           \/ balance'[c.to] = balance[c.to] + c.amount]_vars

\* The balances and what is locked in escrows and contracts: nobody owes, nothing
\* comes or goes, and the limits hold.
LedgerSound == TypeOK /\ MoneyConserved /\ WithinLimits
=============================================================================
