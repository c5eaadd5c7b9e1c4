----------------------------- MODULE AtomicSwap -----------------------------
(***************************************************************************)
(* Hash-locked contracts, the half of a swap between two chains that this  *)
(* chain holds.  A contract pays its amount to whoever it is for when the  *)
(* secret is shown, and otherwise goes back to its owner.  The initiator   *)
(* of a swap locks for longer than the participant, and a participant's    *)
(* contract outlives its redemption so that the secret can be read.        *)
(*                                                                         *)
(* A secret is known by its hash, and a contract by its owner, its         *)
(* recipient and that hash: the SHA-256 of their concatenation is taken to *)
(* tell different ones apart.                                              *)
(***************************************************************************)
EXTENDS Balances

CONSTANTS
  Secrets,
  SwapRoles,               \* owners and recipients that an operation may name
  INITIATOR_REFUND_LOCK,   \* SCORUM_ATOMICSWAP_INITIATOR_REFUND_LOCK_SECS, in slots
  PARTICIPANT_REFUND_LOCK, \* SCORUM_ATOMICSWAP_PARTICIPANT_REFUND_LOCK_SECS
  LIMIT_PER_OWNER,         \* SCORUM_ATOMICSWAP_LIMIT_REQUESTED_CONTRACTS_PER_OWNER
  LIMIT_PER_RECIPIENT      \* ..._PER_RECIPIENT

ASSUME AtomicSwapAssumption ==
  /\ SwapRoles \subseteq Accounts \X Accounts
  /\ INITIATOR_REFUND_LOCK \in Nat \ {0}
  /\ PARTICIPANT_REFUND_LOCK \in Nat \ {0}
  /\ LIMIT_PER_OWNER \in Nat
  /\ LIMIT_PER_RECIPIENT \in Nat

VARIABLE contract  \* atomicswap_contract_index by contract_hash

ContractHashes == Accounts \X Accounts \X Secrets

ContractObject ==
  [type : {"initiator", "participant"}, owner : Accounts, to : Accounts,
   amount : Nat, deadline : 0 .. MaxTime, secret : BOOLEAN]

RemoveContract(h) == contract' = Restrict(contract, DOMAIN contract \ {h})

OfOwner(a) == {h \in DOMAIN contract : contract[h].owner = a}

\* by_recipient_name counts the contracts of every owner.
ForRecipient(a) == {h \in DOMAIN contract : contract[h].to = a}

RefundLock(type) ==
  IF type = "initiator" THEN INITIATOR_REFUND_LOCK ELSE PARTICIPANT_REFUND_LOCK

-----------------------------------------------------------------------------
\* That the deadline is within MaxTime is the bound of the model.
CreateContract(type, owner, to, amount, secret) ==
  LET h == <<owner, to, secret>>
      deadline == head_block_time + RefundLock(type)
  IN  /\ deadline <= MaxTime
      /\ balance[owner] >= amount
      /\ h \notin DOMAIN contract
      /\ Cardinality(OfOwner(owner)) < LIMIT_PER_OWNER
      /\ Cardinality(ForRecipient(to)) < LIMIT_PER_RECIPIENT
      /\ contract' = [x \in DOMAIN contract \cup {h} |->
           IF x = h THEN [type |-> type, owner |-> owner, to |-> to, amount |-> amount,
                          deadline |-> deadline, secret |-> FALSE]
           ELSE contract[x]]
      /\ DecreaseBalance(owner, amount)

\* A mutant: the amount stays in a redeemed contract.
RedeemContractKeepsAmount(h) ==
  LET c == contract[h]
  IN  /\ IncreaseBalance(To(c.to, c.amount))
      /\ IF c.type = "initiator" THEN RemoveContract(h)
         ELSE contract' = [contract EXCEPT ![h].secret = TRUE]

\* Anyone who signs for the recipient and shows the secret; no deadline is
\* checked, and a participant's contract can be redeemed again, for nothing.
RedeemContract(h) ==
  LET c == contract[h]
  IN  /\ IncreaseBalance(To(c.to, c.amount))
      /\ IF c.type = "initiator" THEN RemoveContract(h)
         ELSE contract' = [contract EXCEPT ![h].secret = TRUE, ![h].amount = 0]

\* A mutant: an initiator can take its contract back too.
RefundAnyContract(h) ==
  /\ IncreaseBalance(To(contract[h].owner, contract[h].amount))
  /\ RemoveContract(h)

\* Only a participant can take its contract back, and at any time.
RefundContract(h) ==
  /\ contract[h].type # "initiator"
  /\ IncreaseBalance(To(contract[h].owner, contract[h].amount))
  /\ RemoveContract(h)

\* process_contracts_expiration: a contract whose secret was shown is only
\* removed, any other is refunded.
Overdue(time) == {h \in DOMAIN contract : time >= contract[h].deadline}

SwapRefunds(time) ==
  [a \in Accounts |->
     SumFunction([h \in {x \in Overdue(time) : contract[x].owner = a /\ ~contract[x].secret}
                  |-> contract[h].amount])]

ProcessContractsExpiration(time) ==
  contract' = Restrict(contract, DOMAIN contract \ Overdue(time))

-----------------------------------------------------------------------------
SwapInit == contract = [h \in {} |-> 0]

SwapNext ==
  \/ \E type \in {"initiator", "participant"}, r \in SwapRoles,
        amount \in Amounts, secret \in Secrets :
       CreateContract(type, r[1], r[2], amount, secret)
  \/ \E h \in DOMAIN contract : RedeemContract(h) \/ RefundContract(h)

SwapMoney == SumFunction([h \in DOMAIN contract |-> contract[h].amount])
=============================================================================
