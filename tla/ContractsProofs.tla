-------------------------- MODULE ContractsProofs ---------------------------
(***************************************************************************)
(* Escrows and swap contracts, for every set of accounts, ids, amounts,    *)
(* lock times and limits: money is conserved and limits are kept, none is  *)
(* ever overdue, none pays twice, an escrow ends only when all it held is  *)
(* paid, and the money of an initiator stays locked.                       *)
(*                                                                         *)
(* That nothing is overdue does not need the types of balances, but it is  *)
(* inductive only together with the types of the objects; that a contract  *)
(* pays once needs that its amount is never zero to begin with.            *)
(***************************************************************************)
EXTENDS Contracts, SumTheorems

\* What an escrow or a contract satisfies between operations at a given time.
GoodEscrow(k, e, time) ==
  /\ e \in EscrowObject
  /\ e.from = k[1]
  /\ ~IsApproved(e) => e.ratification_deadline > time
  /\ IsApproved(e) => e.pending_fee = 0
  /\ e.disputed => IsApproved(e)
  /\ e.scorum_balance > 0

GoodContract(h, c, time) ==
  /\ c \in ContractObject
  /\ c.owner = h[1] /\ c.to = h[2]
  /\ c.deadline > time
  /\ c.secret <=> c.amount = 0

GoodEscrows ==
  /\ DOMAIN escrow \subseteq EscrowKeys
  /\ \A k \in DOMAIN escrow : GoodEscrow(k, escrow[k], head_block_time)

GoodContracts ==
  /\ DOMAIN contract \subseteq ContractHashes
  /\ \A h \in DOMAIN contract : GoodContract(h, contract[h], head_block_time)

IInv == head_block_time \in 0 .. MaxTime /\ GoodEscrows /\ GoodContracts

\* The invariant says what the checked ones say.
LEMMA IInvImplies == IInv => ObjectsOK /\ NothingOverdue /\ PaidOnce
  BY DEF IInv, GoodEscrows, GoodContracts, GoodEscrow, GoodContract,
         ObjectsOK, NothingOverdue, PaidOnce

----------------------------------------------------------------------------
(* Escrows. *)

\* Storing a good escrow keeps all of them good.
LEMMA SetEscrowGood ==
  ASSUME GoodEscrows, NEW k \in EscrowKeys, NEW e,
         GoodEscrow(k, e, head_block_time),
         SetEscrow(k, e), UNCHANGED head_block_time
  PROVE  GoodEscrows'
  <1>1. DOMAIN escrow' = DOMAIN escrow \cup {k}
    BY DEF SetEscrow
  <1>2. \A x \in DOMAIN escrow' : escrow'[x] = IF x = k THEN e ELSE escrow[x]
    BY DEF SetEscrow
  <1>3. \A x \in DOMAIN escrow' : GoodEscrow(x, escrow'[x], head_block_time)
    BY <1>1, <1>2 DEF GoodEscrows
  <1> QED BY <1>1, <1>3 DEF GoodEscrows

\* Removing escrows keeps the others good.
LEMMA RestrictEscrowGood ==
  ASSUME GoodEscrows, NEW S, escrow' = Restrict(escrow, DOMAIN escrow \ S),
         UNCHANGED head_block_time
  PROVE  GoodEscrows'
  BY DEF GoodEscrows, Restrict

\* escrow_transfer stores an escrow that is not overdue and holds money.
LEMMA EscrowTransferGood ==
  ASSUME IInv, UNCHANGED head_block_time,
         NEW r \in EscrowRoles, NEW id \in EscrowIds, NEW amount \in Amounts, NEW fee \in Fees,
         NEW ratification \in 1 .. MaxTime, NEW expiration \in 1 .. MaxTime,
         EscrowTransfer(r[1], r[2], r[3], id, amount, fee, ratification, expiration)
  PROVE  GoodEscrows'
  <1> DEFINE e == [from |-> r[1], to |-> r[2], agent |-> r[3],
                   ratification_deadline |-> ratification, escrow_expiration |-> expiration,
                   scorum_balance |-> amount, pending_fee |-> fee,
                   to_approved |-> FALSE, agent_approved |-> FALSE, disputed |-> FALSE]
  <1>1. r[1] \in Accounts /\ r[2] \in Accounts /\ r[3] \in Accounts
    BY EscrowAssumption
  <1>2. e \in EscrowObject
    BY <1>1, BalancesAssumption, EscrowAssumption DEF EscrowObject
  <1>3. amount > 0 /\ ratification > head_block_time
    BY BalancesAssumption DEF EscrowTransfer, IInv
  <1>4. ~IsApproved(e)
    BY DEF IsApproved
  <1>5. GoodEscrow(<<r[1], id>>, e, head_block_time)
    BY <1>2, <1>3, <1>4 DEF GoodEscrow
  <1>6. <<r[1], id>> \in EscrowKeys
    BY <1>1 DEF EscrowKeys
  <1>7. SetEscrow(<<r[1], id>>, e)
    BY DEF EscrowTransfer
  <1> QED BY <1>5, <1>6, <1>7, SetEscrowGood DEF IInv

\* escrow_approve, approving: the second approval pays the fee.
LEMMA EscrowApproveGood ==
  ASSUME IInv, UNCHANGED head_block_time,
         NEW k \in DOMAIN escrow, NEW who \in Accounts, EscrowApprove(k, who)
  PROVE  GoodEscrows'
  <1> DEFINE e == [escrow[k] EXCEPT !.to_approved = @ \/ who = escrow[k].to,
                                    !.agent_approved = @ \/ who = escrow[k].agent]
             f == [e EXCEPT !.pending_fee = 0]
  <1>1. GoodEscrow(k, escrow[k], head_block_time) /\ k \in EscrowKeys
    BY DEF IInv, GoodEscrows
  <1>2. escrow[k] \in EscrowObject
    BY <1>1 DEF GoodEscrow
  <1>3. /\ e \in EscrowObject
        /\ e.from = escrow[k].from /\ e.disputed = escrow[k].disputed
        /\ e.scorum_balance = escrow[k].scorum_balance
        /\ e.ratification_deadline = escrow[k].ratification_deadline
        /\ e.to_approved = (escrow[k].to_approved \/ who = escrow[k].to)
        /\ e.agent_approved = (escrow[k].agent_approved \/ who = escrow[k].agent)
    BY <1>2 DEF EscrowObject
  <1>4. /\ f \in EscrowObject
        /\ f.from = e.from /\ f.disputed = e.disputed
        /\ f.scorum_balance = e.scorum_balance
        /\ f.ratification_deadline = e.ratification_deadline
        /\ f.to_approved = e.to_approved /\ f.agent_approved = e.agent_approved
        /\ f.pending_fee = 0
    BY <1>3 DEF EscrowObject
  <1>5. CASE ~IsApproved(e) /\ SetEscrow(k, e)
    <2>1. ~IsApproved(escrow[k])
      BY <1>3, <1>5 DEF IsApproved
    <2>2. GoodEscrow(k, e, head_block_time)
      BY <1>1, <1>3, <1>5, <2>1 DEF GoodEscrow
    <2> QED BY <1>1, <1>5, <2>2, SetEscrowGood DEF IInv
  <1>6. CASE IsApproved(e) /\ SetEscrow(k, f)
    <2>1. IsApproved(f)
      BY <1>4, <1>6 DEF IsApproved
    <2>2. GoodEscrow(k, f, head_block_time)
      BY <1>1, <1>3, <1>4, <2>1 DEF GoodEscrow
    <2> QED BY <1>1, <1>6, <2>2, SetEscrowGood DEF IInv
  <1> QED BY <1>5, <1>6 DEF EscrowApprove

\* escrow_dispute is raised on an approved escrow only.
LEMMA EscrowDisputeGood ==
  ASSUME IInv, UNCHANGED head_block_time, NEW k \in DOMAIN escrow, EscrowDispute(k)
  PROVE  GoodEscrows'
  <1> DEFINE e == [escrow[k] EXCEPT !.disputed = TRUE]
  <1>1. GoodEscrow(k, escrow[k], head_block_time) /\ k \in EscrowKeys
    BY DEF IInv, GoodEscrows
  <1>2. /\ e \in EscrowObject
        /\ e.from = escrow[k].from /\ e.pending_fee = escrow[k].pending_fee
        /\ e.scorum_balance = escrow[k].scorum_balance
        /\ e.to_approved = escrow[k].to_approved
        /\ e.agent_approved = escrow[k].agent_approved
    BY <1>1 DEF GoodEscrow, EscrowObject
  <1>3. IsApproved(escrow[k]) /\ IsApproved(e)
    BY <1>2 DEF EscrowDispute, IsApproved
  <1>4. GoodEscrow(k, e, head_block_time)
    BY <1>1, <1>2, <1>3 DEF GoodEscrow
  <1>5. SetEscrow(k, e)
    BY DEF EscrowDispute
  <1> QED BY <1>1, <1>4, <1>5, SetEscrowGood DEF IInv

\* escrow_release keeps an escrow only while there is money in it.
LEMMA EscrowReleaseGood ==
  ASSUME IInv, UNCHANGED head_block_time, NEW k \in DOMAIN escrow,
         NEW who \in Accounts, NEW receiver \in Accounts, NEW amount \in Amounts \cup {0},
         EscrowRelease(k, who, receiver, amount)
  PROVE  GoodEscrows'
  <1> DEFINE left == escrow[k].scorum_balance - amount
             e == [escrow[k] EXCEPT !.scorum_balance = left]
  <1>1. GoodEscrow(k, escrow[k], head_block_time) /\ k \in EscrowKeys
    BY DEF IInv, GoodEscrows
  <1>2. left \in Nat
    BY <1>1, BalancesAssumption DEF GoodEscrow, EscrowObject, EscrowRelease
  <1>3. CASE left = 0
    BY <1>3, RestrictEscrowGood DEF IInv, EscrowRelease, RemoveEscrow
  <1>4. CASE left # 0
    <2>1. /\ e \in EscrowObject
          /\ e.from = escrow[k].from /\ e.pending_fee = escrow[k].pending_fee
          /\ e.scorum_balance = left
          /\ e.to_approved = escrow[k].to_approved
          /\ e.agent_approved = escrow[k].agent_approved
          /\ e.disputed = escrow[k].disputed
      BY <1>1, <1>2 DEF GoodEscrow, EscrowObject
    <2>2. IsApproved(escrow[k]) /\ IsApproved(e)
      BY <2>1 DEF EscrowRelease, IsApproved
    <2>3. left > 0
      BY <1>2, <1>4
    <2>4. GoodEscrow(k, e, head_block_time)
      BY <1>1, <2>1, <2>2, <2>3 DEF GoodEscrow
    <2>5. SetEscrow(k, e)
      BY <1>4 DEF EscrowRelease
    <2> QED BY <1>1, <2>4, <2>5, SetEscrowGood DEF IInv
  <1> QED BY <1>3, <1>4

\* Every escrow operation preserves the invariant.
LEMMA EscrowOpGood == IInv /\ EscrowOp => IInv'
  <1> SUFFICES ASSUME IInv, EscrowNext, UNCHANGED <<head_block_time, contract>> PROVE IInv'
    BY DEF EscrowOp
  <1>1. ASSUME NEW r \in EscrowRoles, NEW id \in EscrowIds, NEW amount \in Amounts,
               NEW fee \in Fees,
               NEW ratification \in 1 .. MaxTime, NEW expiration \in 1 .. MaxTime,
               EscrowTransfer(r[1], r[2], r[3], id, amount, fee, ratification, expiration)
        PROVE  GoodEscrows'
    BY <1>1, EscrowTransferGood
  <1>2. ASSUME NEW k \in DOMAIN escrow, NEW who \in Accounts, EscrowApprove(k, who)
        PROVE  GoodEscrows'
    BY <1>2, EscrowApproveGood
  <1>3. ASSUME NEW k \in DOMAIN escrow, NEW who \in Accounts, EscrowReject(k, who)
        PROVE  GoodEscrows'
    BY <1>3, RestrictEscrowGood DEF IInv, EscrowReject, RemoveEscrow
  <1>4. ASSUME NEW k \in DOMAIN escrow, EscrowDispute(k) PROVE GoodEscrows'
    BY <1>4, EscrowDisputeGood
  <1>5. ASSUME NEW k \in DOMAIN escrow, NEW who \in Accounts, NEW receiver \in Accounts,
               NEW amount \in Amounts \cup {0}, EscrowRelease(k, who, receiver, amount)
        PROVE  GoodEscrows'
    BY <1>5, EscrowReleaseGood
  <1>6. GoodEscrows'
    BY <1>1, <1>2, <1>3, <1>4, <1>5 DEF EscrowNext
  <1> QED BY <1>6 DEF IInv, GoodContracts

----------------------------------------------------------------------------
(* Swap contracts. *)

\* Removing contracts keeps the others good.
LEMMA RestrictContractGood ==
  ASSUME GoodContracts, NEW S, contract' = Restrict(contract, DOMAIN contract \ S),
         UNCHANGED head_block_time
  PROVE  GoodContracts'
  BY DEF GoodContracts, Restrict

\* create_contract stores a contract with an amount and a later deadline.
LEMMA CreateContractGood ==
  ASSUME IInv, UNCHANGED head_block_time,
         NEW type \in {"initiator", "participant"}, NEW r \in SwapRoles,
         NEW amount \in Amounts, NEW secret \in Secrets,
         CreateContract(type, r[1], r[2], amount, secret)
  PROVE  GoodContracts'
  <1> DEFINE h == <<r[1], r[2], secret>>
             deadline == head_block_time + RefundLock(type)
             c == [type |-> type, owner |-> r[1], to |-> r[2], amount |-> amount,
                   deadline |-> deadline, secret |-> FALSE]
  <1>1. r[1] \in Accounts /\ r[2] \in Accounts
    BY AtomicSwapAssumption
  <1>2. deadline \in 0 .. MaxTime /\ deadline > head_block_time
    BY AtomicSwapAssumption, BalancesAssumption DEF CreateContract, RefundLock, IInv
  <1>3. amount \in Nat \ {0}
    BY BalancesAssumption
  <1>4. GoodContract(h, c, head_block_time)
    BY <1>1, <1>2, <1>3 DEF GoodContract, ContractObject
  <1>5. h \in ContractHashes
    BY <1>1 DEF ContractHashes
  <1>6. contract' = [x \in DOMAIN contract \cup {h} |-> IF x = h THEN c ELSE contract[x]]
    BY DEF CreateContract
  <1>7. \A x \in DOMAIN contract' : GoodContract(x, contract'[x], head_block_time)
    BY <1>4, <1>6 DEF IInv, GoodContracts
  <1> QED BY <1>5, <1>6, <1>7 DEF IInv, GoodContracts

\* redeem_contract empties a contract exactly when it records the secret.
LEMMA RedeemContractGood ==
  ASSUME IInv, UNCHANGED head_block_time, NEW h \in DOMAIN contract, RedeemContract(h)
  PROVE  GoodContracts'
  <1> DEFINE c == [contract[h] EXCEPT !.secret = TRUE, !.amount = 0]
  <1>1. GoodContract(h, contract[h], head_block_time)
    BY DEF IInv, GoodContracts
  <1>2. CASE contract[h].type = "initiator"
    BY <1>2, RestrictContractGood DEF IInv, RedeemContract, RemoveContract
  <1>3. CASE contract[h].type # "initiator"
    <2>1. GoodContract(h, c, head_block_time)
      BY <1>1 DEF GoodContract, ContractObject
    <2>2. contract' = [contract EXCEPT ![h] = c]
      BY <1>3 DEF RedeemContract
    <2>3. \A x \in DOMAIN contract : GoodContract(x, contract'[x], head_block_time)
      BY <2>1, <2>2 DEF IInv, GoodContracts
    <2> QED BY <2>2, <2>3 DEF IInv, GoodContracts
  <1> QED BY <1>2, <1>3

\* Every swap operation preserves the invariant.
LEMMA SwapOpGood == IInv /\ SwapOp => IInv'
  <1> SUFFICES ASSUME IInv, SwapNext, UNCHANGED <<head_block_time, escrow>> PROVE IInv'
    BY DEF SwapOp
  <1>1. ASSUME NEW type \in {"initiator", "participant"}, NEW r \in SwapRoles,
               NEW amount \in Amounts, NEW secret \in Secrets,
               CreateContract(type, r[1], r[2], amount, secret)
        PROVE  GoodContracts'
    BY <1>1, CreateContractGood
  <1>2. ASSUME NEW h \in DOMAIN contract, RedeemContract(h) PROVE GoodContracts'
    BY <1>2, RedeemContractGood
  <1>3. ASSUME NEW h \in DOMAIN contract, RefundContract(h) PROVE GoodContracts'
    BY <1>3, RestrictContractGood DEF IInv, RefundContract, RemoveContract
  <1>4. GoodContracts'
    BY <1>1, <1>2, <1>3 DEF SwapNext
  <1> QED BY <1>4 DEF IInv, GoodEscrows

----------------------------------------------------------------------------
(* The end of a block, and the specification. *)

\* The clock moves, and what it makes overdue is removed in the same step.
LEMMA EndOfBlockGood ==
  ASSUME IInv, NEW time \in 1 .. MaxTime, EndOfBlock(time)
  PROVE  IInv'
  <1>1. head_block_time' = time /\ time > head_block_time
    BY DEF EndOfBlock, UpdateGlobalDynamicData
  <1>2. GoodEscrows'
    <2>1. /\ DOMAIN escrow' = DOMAIN escrow \ Unratified(time)
          /\ \A k \in DOMAIN escrow' : escrow'[k] = escrow[k]
      BY DEF EndOfBlock, ExpireEscrowRatification, Restrict
    <2>2. ASSUME NEW k \in DOMAIN escrow'
          PROVE  GoodEscrow(k, escrow'[k], head_block_time')
      <3>1. GoodEscrow(k, escrow[k], head_block_time)
        BY <2>1 DEF IInv, GoodEscrows
      <3>2. ~IsApproved(escrow[k]) => ~(escrow[k].ratification_deadline <= time)
        BY <2>1 DEF Unratified
      <3> QED BY <1>1, <2>1, <3>1, <3>2 DEF GoodEscrow, EscrowObject
    <2> QED BY <2>1, <2>2 DEF IInv, GoodEscrows
  <1>3. GoodContracts'
    <2>1. /\ DOMAIN contract' = DOMAIN contract \ Overdue(time)
          /\ \A h \in DOMAIN contract' : contract'[h] = contract[h]
      BY DEF EndOfBlock, ProcessContractsExpiration, Restrict
    <2>2. ASSUME NEW h \in DOMAIN contract'
          PROVE  GoodContract(h, contract'[h], head_block_time')
      <3>1. GoodContract(h, contract[h], head_block_time)
        BY <2>1 DEF IInv, GoodContracts
      <3>2. ~(time >= contract[h].deadline)
        BY <2>1 DEF Overdue
      <3> QED BY <1>1, <2>1, <3>1, <3>2 DEF GoodContract, ContractObject
    <2> QED BY <2>1, <2>2 DEF IInv, GoodContracts
  <1> QED BY <1>1, <1>2, <1>3 DEF IInv

\* It holds at the start.
LEMMA InitGood == Init => IInv
  BY BalancesAssumption
  DEF Init, BalancesInit, EscrowInit, SwapInit, IInv, GoodEscrows, GoodContracts

\* Every step preserves the invariant.
LEMMA NextGood == IInv /\ [Next]_vars => IInv'
  <1> SUFFICES ASSUME IInv, [Next]_vars PROVE IInv'
    OBVIOUS
  <1>1. CASE TransferOp
    BY <1>1 DEF TransferOp, IInv, GoodEscrows, GoodContracts
  <1>2. CASE EscrowOp
    BY <1>2, EscrowOpGood
  <1>3. CASE SwapOp
    BY <1>3, SwapOpGood
  <1>4. CASE ApplyBlock
    BY <1>4, EndOfBlockGood DEF ApplyBlock
  <1>5. CASE UNCHANGED vars
    BY <1>5 DEF vars, IInv, GoodEscrows, GoodContracts
  <1> QED BY <1>1, <1>2, <1>3, <1>4, <1>5 DEF Next

\* The invariant holds in every state.
LEMMA AlwaysIInv == Spec => []IInv
  BY InitGood, NextGood, PTL DEF Spec

\* process_contracts_expiration and expire_escrow_ratification leave nothing
\* whose time has come, for every clock and every lock time.
THEOREM NeverOverdue == Spec => []NothingOverdue
  BY AlwaysIInv, IInvImplies, PTL

\* The evaluators and the expirations pay no fee and no amount twice.
THEOREM NeverPaidTwice == Spec => []PaidOnce
  BY AlwaysIInv, IInvImplies, PTL

\* The money of an initiator stays locked until the deadline.
THEOREM InitiatorStaysLocked == Spec => InitiatorLocked
  <1> DEFINE Locked ==
        \A h \in DOMAIN contract \ DOMAIN contract' :
           LET c == contract[h]
           IN  \/ c.type = "participant"
               \/ head_block_time' >= c.deadline
               \/ balance'[c.to] = balance[c.to] + c.amount
  <1>1. IInv /\ [Next]_vars => [Locked]_vars
    <2> SUFFICES ASSUME IInv, Next, NEW h \in DOMAIN contract \ DOMAIN contract',
                        contract[h].type # "participant"
                 PROVE  \/ head_block_time' >= contract[h].deadline
                        \/ balance'[contract[h].to] = balance[contract[h].to] + contract[h].amount
      OBVIOUS
    <2>1. contract[h] \in ContractObject
      BY DEF IInv, GoodContracts, GoodContract
    <2>2. CASE SwapOp
      <3>1. ASSUME NEW g \in DOMAIN contract, RedeemContract(g)
            PROVE  balance'[contract[h].to] = balance[contract[h].to] + contract[h].amount
        <4>1. g = h
          BY <3>1 DEF RedeemContract, RemoveContract, Restrict
        <4> QED BY <2>1, <3>1, <4>1 DEF RedeemContract, IncreaseBalance, To, ContractObject
      <3>2. ASSUME NEW g \in DOMAIN contract, RefundContract(g) PROVE FALSE
        <4>1. g = h
          BY <3>2 DEF RefundContract, RemoveContract, Restrict
        <4> QED BY <2>1, <3>2, <4>1 DEF RefundContract, ContractObject
      <3>3. ASSUME NEW type \in {"initiator", "participant"}, NEW r \in SwapRoles,
                   NEW amount \in Amounts, NEW secret \in Secrets,
                   CreateContract(type, r[1], r[2], amount, secret)
            PROVE  FALSE
        BY <3>3 DEF CreateContract
      <3> QED BY <2>2, <3>1, <3>2, <3>3 DEF SwapOp, SwapNext
    <2>3. CASE ApplyBlock
      <3>1. PICK time \in 1 .. MaxTime : EndOfBlock(time)
        BY <2>3 DEF ApplyBlock
      <3>2. head_block_time' = time /\ h \in Overdue(time)
        BY <3>1 DEF EndOfBlock, UpdateGlobalDynamicData, ProcessContractsExpiration, Restrict
      <3> QED BY <3>2 DEF Overdue
    <2>4. CASE TransferOp \/ EscrowOp
      BY <2>4 DEF TransferOp, EscrowOp
    <2> QED BY <2>2, <2>3, <2>4 DEF Next
  <1>2. Spec => [][Locked]_vars
    BY <1>1, AlwaysIInv, PTL DEF Spec
  <1> QED BY <1>2 DEF InitiatorLocked

----------------------------------------------------------------------------
(* Money. *)

\* Escrows and contracts are finitely many, the balances have their types, and
\* money is conserved.
MoneyInv ==
  /\ BalancesOK
  /\ IsFiniteSet(DOMAIN escrow)
  /\ IsFiniteSet(DOMAIN contract)
  /\ MoneyConserved

Worth(e) == e.scorum_balance + e.pending_fee

EscrowWorth == [k \in DOMAIN escrow |-> Worth(escrow[k])]

SwapWorth == [h \in DOMAIN contract |-> contract[h].amount]

\* The money of escrows and contracts is a sum of naturals.
LEMMA WorthTypes ==
  ASSUME IInv, MoneyInv
  PROVE  /\ \A k \in DOMAIN escrow : EscrowWorth[k] = Worth(escrow[k]) /\ EscrowWorth[k] \in Nat
         /\ \A h \in DOMAIN contract : SwapWorth[h] = contract[h].amount /\ SwapWorth[h] \in Nat
         /\ EscrowMoney = SumFunction(EscrowWorth) /\ EscrowMoney \in Nat
         /\ SwapMoney = SumFunction(SwapWorth) /\ SwapMoney \in Nat
  <1>1. ASSUME NEW k \in DOMAIN escrow
        PROVE  EscrowWorth[k] = Worth(escrow[k]) /\ EscrowWorth[k] \in Nat
    BY DEF IInv, GoodEscrows, GoodEscrow, EscrowObject, EscrowWorth, Worth
  <1>2. ASSUME NEW h \in DOMAIN contract
        PROVE  SwapWorth[h] = contract[h].amount /\ SwapWorth[h] \in Nat
    BY DEF IInv, GoodContracts, GoodContract, ContractObject, SwapWorth
  <1>3. EscrowMoney = SumFunction(EscrowWorth) /\ SwapMoney = SumFunction(SwapWorth)
    BY DEF EscrowMoney, EscrowWorth, SwapMoney, SwapWorth, Worth
  <1>4. DOMAIN EscrowWorth = DOMAIN escrow /\ DOMAIN SwapWorth = DOMAIN contract
    BY DEF EscrowWorth, SwapWorth
  <1>5. SumFunctionOnSet(EscrowWorth, DOMAIN escrow) \in Nat
    BY <1>1, SumNatural DEF MoneyInv
  <1>6. SumFunctionOnSet(SwapWorth, DOMAIN contract) \in Nat
    BY <1>2, SumNatural DEF MoneyInv
  <1> QED BY <1>1, <1>2, <1>3, <1>4, <1>5, <1>6 DEF SumFunction

\* A payment to one account, and two payments.
LEMMA ToSum ==
  ASSUME NEW a \in Accounts, NEW n \in Int
  PROVE  /\ To(a, n) \in [Accounts -> Int]
         /\ SumFunction(To(a, n)) = n
  <1>1. /\ To(a, n) \in [Accounts -> Int] /\ DOMAIN To(a, n) = Accounts
        /\ To(a, n)[a] = n /\ \A x \in Accounts \ {a} : To(a, n)[x] = 0
    BY DEF To
  <1>2. IsFiniteSet(Accounts)
    BY BalancesAssumption
  <1> HIDE DEF To
  <1>3. SumFunctionOnSet(To(a, n), Accounts) = n
    BY <1>1, <1>2, SumSingle
  <1> QED BY <1>1, <1>3 DEF SumFunction

LEMMA BothSum ==
  ASSUME NEW p \in [Accounts -> Int], NEW q \in [Accounts -> Int]
  PROVE  /\ Both(p, q) \in [Accounts -> Int]
         /\ SumFunction(p) \in Int /\ SumFunction(q) \in Int
         /\ SumFunction(Both(p, q)) = SumFunction(p) + SumFunction(q)
  <1>1. Both(p, q) \in [Accounts -> Int] /\ DOMAIN Both(p, q) = Accounts
    BY DEF Both
  <1>2. \A x \in Accounts : p[x] \in Int /\ q[x] \in Int /\ Both(p, q)[x] = p[x] + q[x]
    BY DEF Both
  <1>3. IsFiniteSet(Accounts)
    BY BalancesAssumption
  <1> HIDE DEF Both
  <1>4. SumFunctionOnSet(Both(p, q), Accounts) = SumFunctionOnSet(p, Accounts) + SumFunctionOnSet(q, Accounts)
    BY <1>2, <1>3, SumPlus
  <1>5. SumFunctionOnSet(p, Accounts) \in Int /\ SumFunctionOnSet(q, Accounts) \in Int
    BY <1>2, <1>3, SumInteger
  <1> QED BY <1>1, <1>4, <1>5 DEF SumFunction

\* A payment that overdraws nobody and that the escrows and contracts make up for.
LEMMA PaymentConserves ==
  ASSUME IInv, MoneyInv, NEW p \in [Accounts -> Int], IncreaseBalance(p),
         \A a \in Accounts : balance[a] + p[a] >= 0,
         EscrowMoney' \in Int, SwapMoney' \in Int,
         EscrowMoney' + SwapMoney' + SumFunction(p) = EscrowMoney + SwapMoney
  PROVE  BalancesOK' /\ MoneyConserved'
  <1> DEFINE new == [a \in Accounts |-> balance[a] + p[a]]
  <1>1. /\ balance \in [Accounts -> Nat]
        /\ circulating_capital = SumFunction(balance)
        /\ SumFunction(balance) + EscrowMoney + SwapMoney = SumFunction(InitialBalance)
    BY DEF MoneyInv, BalancesOK, MoneyConserved
  <1>2. balance' = new /\ circulating_capital' = circulating_capital + SumFunction(p)
    BY DEF IncreaseBalance
  <1>3. IsFiniteSet(Accounts)
    BY BalancesAssumption
  <1>4. /\ new \in [Accounts -> Nat] /\ DOMAIN new = Accounts
        /\ \A a \in Accounts : balance[a] \in Int /\ p[a] \in Int /\ new[a] = balance[a] + p[a]
    BY <1>1
  <1> HIDE DEF new
  <1>5. SumFunctionOnSet(new, Accounts) = SumFunctionOnSet(balance, Accounts) + SumFunctionOnSet(p, Accounts)
    BY <1>3, <1>4, SumPlus
  <1>6. SumFunctionOnSet(new, Accounts) \in Nat
    BY <1>3, <1>4, SumNatural
  <1>7. SumFunctionOnSet(balance, Accounts) \in Int /\ SumFunctionOnSet(p, Accounts) \in Int
    BY <1>3, <1>4, SumInteger
  <1>8. /\ SumFunction(new) = SumFunction(balance) + SumFunction(p)
        /\ SumFunction(new) \in Nat
        /\ SumFunction(balance) \in Int /\ SumFunction(p) \in Int
    BY <1>1, <1>4, <1>5, <1>6, <1>7 DEF SumFunction
  <1>9. BalancesOK'
    BY <1>1, <1>2, <1>4, <1>8 DEF BalancesOK
  <1>10. EscrowMoney \in Int /\ SwapMoney \in Int
    BY WorthTypes
  <1>11. SumFunction(new) + EscrowMoney' + SwapMoney' = SumFunction(InitialBalance)
    BY <1>1, <1>8, <1>10
  <1>12. circulating_capital' = SumFunction(new)
    BY <1>1, <1>2, <1>8
  <1> QED BY <1>2, <1>9, <1>11, <1>12 DEF MoneyConserved

\* Storing an escrow adds its worth, in place of what was there.
LEMMA StoreEscrowMoney ==
  ASSUME IInv, MoneyInv, NEW k, NEW e, Worth(e) \in Nat, SetEscrow(k, e)
  PROVE  /\ IsFiniteSet(DOMAIN escrow')
         /\ EscrowMoney' \in Int
         /\ k \in DOMAIN escrow => EscrowMoney' = EscrowMoney - Worth(escrow[k]) + Worth(e)
         /\ k \notin DOMAIN escrow => EscrowMoney' = EscrowMoney + Worth(e)
  <1> DEFINE f == EscrowWorth
             g == [x \in DOMAIN f \cup {k} |-> IF x = k THEN Worth(e) ELSE f[x]]
  <1>1. DOMAIN f = DOMAIN escrow
    BY DEF EscrowWorth
  <1>2. /\ IsFiniteSet(DOMAIN f) /\ \A x \in DOMAIN f : f[x] \in Int /\ f[x] = Worth(escrow[x])
        /\ EscrowMoney = SumFunction(f) /\ EscrowMoney \in Int
    BY <1>1, WorthTypes DEF MoneyInv
  <1>3. /\ DOMAIN escrow' = DOMAIN escrow \cup {k}
        /\ \A x \in DOMAIN escrow' : escrow'[x] = IF x = k THEN e ELSE escrow[x]
    BY DEF SetEscrow
  <1>4. EscrowMoney' = SumFunction([x \in DOMAIN escrow' |-> Worth(escrow'[x])])
    BY DEF EscrowMoney, Worth
  <1>5. [x \in DOMAIN escrow' |-> Worth(escrow'[x])] = g
    BY <1>1, <1>2, <1>3
  <1>6. Worth(e) \in Int
    OBVIOUS
  <1>7. DOMAIN g = DOMAIN escrow'
    BY <1>1, <1>3
  <1> HIDE DEF f
  <1>8. g = [x \in DOMAIN f \cup {k} |-> IF x = k THEN Worth(e) ELSE f[x]]
    OBVIOUS
  <1> HIDE DEF g
  <1>9. /\ IsFiniteSet(DOMAIN g)
        /\ k \in DOMAIN f => SumFunction(g) = SumFunction(f) - f[k] + Worth(e)
        /\ k \notin DOMAIN f => SumFunction(g) = SumFunction(f) + Worth(e)
    BY <1>2, <1>6, <1>8, SumStore
  <1>10. EscrowMoney' = SumFunction(g)
    BY <1>4, <1>5
  <1> QED BY <1>1, <1>2, <1>6, <1>7, <1>9, <1>10

\* Removing escrows takes their worth.
LEMMA DropEscrowMoney ==
  ASSUME IInv, MoneyInv, NEW S \in SUBSET DOMAIN escrow,
         escrow' = Restrict(escrow, DOMAIN escrow \ S)
  PROVE  /\ IsFiniteSet(DOMAIN escrow')
         /\ EscrowMoney' \in Int
         /\ EscrowMoney = EscrowMoney' + SumFunctionOnSet(EscrowWorth, S)
  <1> DEFINE f == EscrowWorth
             g == [x \in DOMAIN f \ S |-> f[x]]
  <1>1. DOMAIN f = DOMAIN escrow
    BY DEF EscrowWorth
  <1>2. /\ IsFiniteSet(DOMAIN f) /\ \A x \in DOMAIN f : f[x] \in Int /\ f[x] = Worth(escrow[x])
        /\ EscrowMoney = SumFunction(f)
    BY <1>1, WorthTypes DEF MoneyInv
  <1>3. /\ DOMAIN escrow' = DOMAIN escrow \ S
        /\ \A x \in DOMAIN escrow' : escrow'[x] = escrow[x]
    BY DEF Restrict
  <1>4. EscrowMoney' = SumFunction([x \in DOMAIN escrow' |-> Worth(escrow'[x])])
    BY DEF EscrowMoney, Worth
  <1>5. [x \in DOMAIN escrow' |-> Worth(escrow'[x])] = g /\ DOMAIN g = DOMAIN escrow'
    BY <1>1, <1>2, <1>3
  <1> HIDE DEF f
  <1>6. /\ IsFiniteSet(DOMAIN g) /\ SumFunction(g) \in Int
        /\ SumFunction(f) = SumFunction(g) + SumFunctionOnSet(f, S)
    BY <1>1, <1>2, SumDrop
  <1> HIDE DEF g
  <1> QED BY <1>2, <1>4, <1>5, <1>6 DEF f

\* The same for contracts.
LEMMA StoreSwapMoney ==
  ASSUME IInv, MoneyInv, NEW h, NEW c, c.amount \in Nat,
         contract' = [x \in DOMAIN contract \cup {h} |-> IF x = h THEN c ELSE contract[x]]
  PROVE  /\ IsFiniteSet(DOMAIN contract')
         /\ SwapMoney' \in Int
         /\ h \in DOMAIN contract => SwapMoney' = SwapMoney - contract[h].amount + c.amount
         /\ h \notin DOMAIN contract => SwapMoney' = SwapMoney + c.amount
  <1> DEFINE f == SwapWorth
             g == [x \in DOMAIN f \cup {h} |-> IF x = h THEN c.amount ELSE f[x]]
  <1>1. DOMAIN f = DOMAIN contract
    BY DEF SwapWorth
  <1>2. /\ IsFiniteSet(DOMAIN f) /\ \A x \in DOMAIN f : f[x] \in Int /\ f[x] = contract[x].amount
        /\ SwapMoney = SumFunction(f) /\ SwapMoney \in Int
    BY <1>1, WorthTypes DEF MoneyInv
  <1>3. /\ DOMAIN contract' = DOMAIN contract \cup {h}
        /\ \A x \in DOMAIN contract' : contract'[x].amount = IF x = h THEN c.amount ELSE contract[x].amount
    OBVIOUS
  <1>4. SwapMoney' = SumFunction([x \in DOMAIN contract' |-> contract'[x].amount])
    BY DEF SwapMoney
  <1>5. [x \in DOMAIN contract' |-> contract'[x].amount] = g
    BY <1>1, <1>2, <1>3
  <1>6. c.amount \in Int
    OBVIOUS
  <1>7. DOMAIN g = DOMAIN contract'
    BY <1>1, <1>3
  <1> HIDE DEF f
  <1>8. g = [x \in DOMAIN f \cup {h} |-> IF x = h THEN c.amount ELSE f[x]]
    OBVIOUS
  <1> HIDE DEF g
  <1>9. /\ IsFiniteSet(DOMAIN g)
        /\ h \in DOMAIN f => SumFunction(g) = SumFunction(f) - f[h] + c.amount
        /\ h \notin DOMAIN f => SumFunction(g) = SumFunction(f) + c.amount
    BY <1>2, <1>6, <1>8, SumStore
  <1>10. SwapMoney' = SumFunction(g)
    BY <1>4, <1>5
  <1> QED BY <1>1, <1>2, <1>6, <1>7, <1>9, <1>10

LEMMA DropSwapMoney ==
  ASSUME IInv, MoneyInv, NEW S \in SUBSET DOMAIN contract,
         contract' = Restrict(contract, DOMAIN contract \ S)
  PROVE  /\ IsFiniteSet(DOMAIN contract')
         /\ SwapMoney' \in Int
         /\ SwapMoney = SwapMoney' + SumFunctionOnSet(SwapWorth, S)
  <1> DEFINE f == SwapWorth
             g == [x \in DOMAIN f \ S |-> f[x]]
  <1>1. DOMAIN f = DOMAIN contract
    BY DEF SwapWorth
  <1>2. /\ IsFiniteSet(DOMAIN f) /\ \A x \in DOMAIN f : f[x] \in Int /\ f[x] = contract[x].amount
        /\ SwapMoney = SumFunction(f)
    BY <1>1, WorthTypes DEF MoneyInv
  <1>3. /\ DOMAIN contract' = DOMAIN contract \ S
        /\ \A x \in DOMAIN contract' : contract'[x] = contract[x]
    BY DEF Restrict
  <1>4. SwapMoney' = SumFunction([x \in DOMAIN contract' |-> contract'[x].amount])
    BY DEF SwapMoney
  <1>5. [x \in DOMAIN contract' |-> contract'[x].amount] = g /\ DOMAIN g = DOMAIN contract'
    BY <1>1, <1>2, <1>3
  <1> HIDE DEF f
  <1>6. /\ IsFiniteSet(DOMAIN g) /\ SumFunction(g) \in Int
        /\ SumFunction(f) = SumFunction(g) + SumFunctionOnSet(f, S)
    BY <1>1, <1>2, SumDrop
  <1> HIDE DEF g
  <1> QED BY <1>2, <1>4, <1>5, <1>6 DEF f

\* What stays is the same money.
LEMMA EscrowMoneyStays ==
  ASSUME IInv, MoneyInv, UNCHANGED escrow
  PROVE  IsFiniteSet(DOMAIN escrow') /\ EscrowMoney' = EscrowMoney /\ EscrowMoney' \in Int
  BY WorthTypes DEF EscrowMoney, MoneyInv

LEMMA SwapMoneyStays ==
  ASSUME IInv, MoneyInv, UNCHANGED contract
  PROVE  IsFiniteSet(DOMAIN contract') /\ SwapMoney' = SwapMoney /\ SwapMoney' \in Int
  BY WorthTypes DEF SwapMoney, MoneyInv

\* A payment to an account that has enough.
LEMMA PayConserves ==
  ASSUME IInv, MoneyInv, NEW a \in Accounts, NEW n \in Int, IncreaseBalance(To(a, n)),
         balance[a] + n >= 0,
         IsFiniteSet(DOMAIN escrow'), IsFiniteSet(DOMAIN contract'),
         EscrowMoney' \in Int, SwapMoney' \in Int,
         EscrowMoney' + SwapMoney' + n = EscrowMoney + SwapMoney
  PROVE  MoneyInv'
  <1>1. To(a, n) \in [Accounts -> Int] /\ SumFunction(To(a, n)) = n
    BY ToSum
  <1>2. \A x \in Accounts : balance[x] + To(a, n)[x] >= 0
    BY DEF To, MoneyInv, BalancesOK
  <1>3. BalancesOK' /\ MoneyConserved'
    BY <1>1, <1>2, PaymentConserves
  <1> QED BY <1>3 DEF MoneyInv

\* No payment at all.
LEMMA NothingPaid ==
  ASSUME IInv, MoneyInv, UNCHANGED balanceVars,
         IsFiniteSet(DOMAIN escrow'), IsFiniteSet(DOMAIN contract'),
         EscrowMoney' = EscrowMoney, SwapMoney' = SwapMoney
  PROVE  MoneyInv'
  BY DEF MoneyInv, BalancesOK, MoneyConserved, balanceVars

LEMMA TransferMoney == ASSUME IInv, MoneyInv, TransferOp PROVE MoneyInv'
  <1>1. PICK from \in Accounts, to \in Accounts, amount \in Amounts : Transfer(from, to, amount)
    BY DEF TransferOp
  <1>2. UNCHANGED <<escrow, contract>>
    BY DEF TransferOp
  <1>3. amount \in Nat /\ -amount \in Int /\ amount \in Int
    BY BalancesAssumption
  <1> DEFINE p == To(from, -amount)
             q == To(to, amount)
  <1>4. /\ p \in [Accounts -> Int] /\ q \in [Accounts -> Int]
        /\ SumFunction(p) = -amount /\ SumFunction(q) = amount
    BY <1>3, ToSum
  <1>5. \A x \in Accounts : balance[x] + Both(p, q)[x] >= 0
    <2>1. ASSUME NEW x \in Accounts PROVE balance[x] + Both(p, q)[x] >= 0
      <3>1. balance[x] \in Nat /\ balance[from] >= amount
        BY <1>1 DEF MoneyInv, BalancesOK, Transfer
      <3>2. /\ p[x] = IF x = from THEN -amount ELSE 0
            /\ q[x] = IF x = to THEN amount ELSE 0
            /\ Both(p, q)[x] = p[x] + q[x]
        BY DEF To, Both
      <3> QED BY <1>3, <3>1, <3>2
    <2> QED BY <2>1
  <1>6. IncreaseBalance(Both(p, q))
    BY <1>1 DEF Transfer
  <1> HIDE DEF p, q
  <1>7. Both(p, q) \in [Accounts -> Int] /\ SumFunction(Both(p, q)) = 0
    BY <1>3, <1>4, BothSum
  <1>8. /\ EscrowMoney' = EscrowMoney /\ SwapMoney' = SwapMoney
        /\ EscrowMoney' \in Int /\ SwapMoney' \in Int
        /\ IsFiniteSet(DOMAIN escrow') /\ IsFiniteSet(DOMAIN contract')
    BY <1>2, EscrowMoneyStays, SwapMoneyStays
  <1>9. EscrowMoney' + SwapMoney' + SumFunction(Both(p, q)) = EscrowMoney + SwapMoney
    BY <1>7, <1>8
  <1>10. BalancesOK' /\ MoneyConserved'
    BY <1>5, <1>6, <1>7, <1>8, <1>9, PaymentConserves
  <1> QED BY <1>8, <1>10 DEF MoneyInv

\* The types of an escrow, from the invariant.
LEMMA EscrowTypes ==
  ASSUME IInv, NEW k \in DOMAIN escrow
  PROVE  /\ escrow[k].scorum_balance \in Nat /\ escrow[k].pending_fee \in Nat
         /\ escrow[k].from \in Accounts /\ escrow[k].to \in Accounts /\ escrow[k].agent \in Accounts
         /\ IsApproved(escrow[k]) => escrow[k].pending_fee = 0
         /\ escrow[k] \in EscrowObject
  BY DEF IInv, GoodEscrows, GoodEscrow, EscrowObject

LEMMA EscrowTransferMoney ==
  ASSUME IInv, MoneyInv, UNCHANGED contract,
         NEW r \in EscrowRoles, NEW id \in EscrowIds, NEW amount \in Amounts, NEW fee \in Fees,
         NEW ratification \in 1 .. MaxTime, NEW expiration \in 1 .. MaxTime,
         EscrowTransfer(r[1], r[2], r[3], id, amount, fee, ratification, expiration)
  PROVE  MoneyInv'
  <1> DEFINE e == [from |-> r[1], to |-> r[2], agent |-> r[3],
                   ratification_deadline |-> ratification, escrow_expiration |-> expiration,
                   scorum_balance |-> amount, pending_fee |-> fee,
                   to_approved |-> FALSE, agent_approved |-> FALSE, disputed |-> FALSE]
             key == <<r[1], id>>
  <1>1. r[1] \in Accounts /\ amount \in Nat /\ fee \in Nat
    BY BalancesAssumption, EscrowAssumption
  <1>2. Worth(e) = amount + fee /\ Worth(e) \in Nat
    BY <1>1 DEF Worth
  <1>3. SetEscrow(key, e) /\ key \notin DOMAIN escrow
    BY DEF EscrowTransfer
  <1> HIDE DEF e, key
  <1>4. IsFiniteSet(DOMAIN escrow') /\ EscrowMoney' = EscrowMoney + amount + fee /\ EscrowMoney' \in Int
    <2>1. EscrowMoney' = EscrowMoney + Worth(e) /\ IsFiniteSet(DOMAIN escrow') /\ EscrowMoney' \in Int
      BY <1>2, <1>3, StoreEscrowMoney
    <2>2. EscrowMoney \in Int
      BY WorthTypes
    <2> QED BY <1>1, <1>2, <2>1, <2>2
  <1>5. SwapMoney' = SwapMoney /\ SwapMoney' \in Int /\ IsFiniteSet(DOMAIN contract')
    BY SwapMoneyStays
  <1>6. /\ IncreaseBalance(To(r[1], -(amount + fee))) /\ balance[r[1]] >= amount + fee
        /\ balance[r[1]] \in Nat
    BY <1>1 DEF EscrowTransfer, DecreaseBalance, MoneyInv, BalancesOK
  <1>7. -(amount + fee) \in Int /\ balance[r[1]] + (-(amount + fee)) >= 0
    BY <1>1, <1>6
  <1>8. EscrowMoney \in Int /\ SwapMoney \in Int
    BY WorthTypes
  <1>9. EscrowMoney' + SwapMoney' + (-(amount + fee)) = EscrowMoney + SwapMoney
    BY <1>1, <1>4, <1>5, <1>8
  <1> QED BY <1>1, <1>4, <1>5, <1>6, <1>7, <1>9, PayConserves

LEMMA EscrowApproveMoney ==
  ASSUME IInv, MoneyInv, UNCHANGED contract,
         NEW k \in DOMAIN escrow, NEW who \in Accounts, EscrowApprove(k, who)
  PROVE  MoneyInv'
  <1> DEFINE e == [escrow[k] EXCEPT !.to_approved = @ \/ who = escrow[k].to,
                                    !.agent_approved = @ \/ who = escrow[k].agent]
             f == [e EXCEPT !.pending_fee = 0]
  <1>1. /\ escrow[k].scorum_balance \in Nat /\ escrow[k].pending_fee \in Nat
        /\ escrow[k].agent \in Accounts /\ escrow[k] \in EscrowObject
    BY EscrowTypes
  <1>2. /\ e.scorum_balance = escrow[k].scorum_balance /\ e.pending_fee = escrow[k].pending_fee
        /\ e.agent = escrow[k].agent
        /\ f.scorum_balance = escrow[k].scorum_balance /\ f.pending_fee = 0
    BY <1>1 DEF EscrowObject
  <1>3. \/ SetEscrow(k, e) /\ UNCHANGED balanceVars
        \/ SetEscrow(k, f) /\ IncreaseBalance(To(e.agent, e.pending_fee))
    BY DEF EscrowApprove
  <1> HIDE DEF e, f
  <1>4. /\ Worth(e) = Worth(escrow[k]) /\ Worth(e) \in Nat /\ Worth(f) \in Nat
        /\ Worth(escrow[k]) \in Nat /\ Worth(f) = Worth(escrow[k]) - escrow[k].pending_fee
    BY <1>1, <1>2 DEF Worth
  <1>5. SwapMoney' = SwapMoney /\ SwapMoney' \in Int /\ IsFiniteSet(DOMAIN contract')
    BY SwapMoneyStays
  <1>6. EscrowMoney \in Int /\ SwapMoney \in Int
    BY WorthTypes
  <1>7. CASE SetEscrow(k, e) /\ UNCHANGED balanceVars
    <2>1. EscrowMoney' = EscrowMoney - Worth(escrow[k]) + Worth(e) /\ IsFiniteSet(DOMAIN escrow')
      BY <1>4, <1>7, StoreEscrowMoney
    <2>2. EscrowMoney' = EscrowMoney
      BY <1>4, <1>6, <2>1
    <2> QED BY <1>5, <1>7, <2>1, <2>2, NothingPaid
  <1>8. CASE SetEscrow(k, f) /\ IncreaseBalance(To(e.agent, e.pending_fee))
    <2>1. /\ EscrowMoney' = EscrowMoney - Worth(escrow[k]) + Worth(f)
          /\ IsFiniteSet(DOMAIN escrow') /\ EscrowMoney' \in Int
      BY <1>4, <1>8, StoreEscrowMoney
    <2>2. EscrowMoney' + SwapMoney' + e.pending_fee = EscrowMoney + SwapMoney
      BY <1>1, <1>2, <1>4, <1>5, <1>6, <2>1
    <2>3. e.agent \in Accounts /\ e.pending_fee \in Int /\ balance[e.agent] + e.pending_fee >= 0
      BY <1>1, <1>2 DEF MoneyInv, BalancesOK
    <2> QED BY <1>5, <1>8, <2>1, <2>2, <2>3, PayConserves
  <1> QED BY <1>3, <1>7, <1>8

\* An escrow that ends and pays its worth to one account.
LEMMA EscrowPaidOut ==
  ASSUME IInv, MoneyInv, UNCHANGED contract, NEW k \in DOMAIN escrow, RemoveEscrow(k),
         NEW a \in Accounts, NEW n \in Nat, n = Worth(escrow[k]), IncreaseBalance(To(a, n))
  PROVE  MoneyInv'
  <1>1. EscrowWorth[k] = Worth(escrow[k]) /\ EscrowWorth[k] \in Int
    BY WorthTypes
  <1>2. SumFunctionOnSet(EscrowWorth, {k}) = n
    BY <1>1, SumOfOne
  <1>3. {k} \in SUBSET DOMAIN escrow /\ escrow' = Restrict(escrow, DOMAIN escrow \ {k})
    BY DEF RemoveEscrow
  <1>4. /\ IsFiniteSet(DOMAIN escrow') /\ EscrowMoney' \in Int
        /\ EscrowMoney = EscrowMoney' + n
    BY <1>2, <1>3, DropEscrowMoney
  <1>5. SwapMoney' = SwapMoney /\ SwapMoney' \in Int /\ IsFiniteSet(DOMAIN contract')
    BY SwapMoneyStays
  <1>6. EscrowMoney' + SwapMoney' + n = EscrowMoney + SwapMoney
    BY <1>4, <1>5
  <1>7. n \in Int /\ balance[a] + n >= 0
    BY DEF MoneyInv, BalancesOK
  <1> QED BY <1>4, <1>5, <1>6, <1>7, PayConserves

LEMMA EscrowRejectMoney ==
  ASSUME IInv, MoneyInv, UNCHANGED contract,
         NEW k \in DOMAIN escrow, NEW who \in Accounts, EscrowReject(k, who)
  PROVE  MoneyInv'
  <1>1. escrow[k].from \in Accounts /\ Worth(escrow[k]) \in Nat
    BY EscrowTypes DEF Worth
  <1>2. IncreaseBalance(To(escrow[k].from, Worth(escrow[k]))) /\ RemoveEscrow(k)
    BY DEF EscrowReject, Worth
  <1> QED BY <1>1, <1>2, EscrowPaidOut

LEMMA EscrowDisputeMoney ==
  ASSUME IInv, MoneyInv, UNCHANGED contract, NEW k \in DOMAIN escrow, EscrowDispute(k)
  PROVE  MoneyInv'
  <1> DEFINE e == [escrow[k] EXCEPT !.disputed = TRUE]
  <1>1. escrow[k] \in EscrowObject /\ Worth(escrow[k]) \in Nat
    BY EscrowTypes DEF Worth
  <1>2. Worth(e) = Worth(escrow[k])
    BY <1>1 DEF Worth, EscrowObject
  <1>3. SetEscrow(k, e) /\ UNCHANGED balanceVars
    BY DEF EscrowDispute
  <1> HIDE DEF e
  <1>4. EscrowMoney' = EscrowMoney - Worth(escrow[k]) + Worth(e) /\ IsFiniteSet(DOMAIN escrow')
    BY <1>1, <1>2, <1>3, StoreEscrowMoney
  <1>5. EscrowMoney \in Int
    BY WorthTypes
  <1>6. EscrowMoney' = EscrowMoney
    BY <1>1, <1>2, <1>4, <1>5
  <1>7. SwapMoney' = SwapMoney /\ IsFiniteSet(DOMAIN contract')
    BY SwapMoneyStays
  <1> QED BY <1>3, <1>4, <1>6, <1>7, NothingPaid

\* The fee has been paid when an escrow is released.
LEMMA EscrowReleaseMoney ==
  ASSUME IInv, MoneyInv, UNCHANGED contract, NEW k \in DOMAIN escrow,
         NEW who \in Accounts, NEW receiver \in Accounts, NEW amount \in Amounts \cup {0},
         EscrowRelease(k, who, receiver, amount)
  PROVE  MoneyInv'
  <1> DEFINE left == escrow[k].scorum_balance - amount
             e == [escrow[k] EXCEPT !.scorum_balance = left]
  <1>1. /\ escrow[k] \in EscrowObject /\ escrow[k].scorum_balance \in Nat
        /\ escrow[k].pending_fee = 0 /\ amount \in Nat
    BY EscrowTypes, BalancesAssumption DEF EscrowRelease
  <1>2. left \in Int /\ left >= 0 /\ IncreaseBalance(To(receiver, amount))
    BY <1>1 DEF EscrowRelease
  <1>3. CASE left = 0
    <2>1. RemoveEscrow(k)
      BY <1>3 DEF EscrowRelease
    <2>2. amount = Worth(escrow[k])
      BY <1>1, <1>3 DEF Worth
    <2> QED BY <1>1, <1>2, <2>1, <2>2, EscrowPaidOut
  <1>4. CASE left # 0
    <2>1. SetEscrow(k, e)
      BY <1>4 DEF EscrowRelease
    <2>2. e.scorum_balance = left /\ e.pending_fee = 0
      BY <1>1 DEF EscrowObject
    <2> HIDE DEF e
    <2>3. /\ Worth(e) = Worth(escrow[k]) - amount /\ Worth(e) \in Nat /\ Worth(escrow[k]) \in Nat
      BY <1>1, <1>2, <2>2 DEF Worth
    <2>4. /\ EscrowMoney' = EscrowMoney - Worth(escrow[k]) + Worth(e)
          /\ IsFiniteSet(DOMAIN escrow') /\ EscrowMoney' \in Int
      BY <2>1, <2>3, StoreEscrowMoney
    <2>5. SwapMoney' = SwapMoney /\ SwapMoney' \in Int /\ IsFiniteSet(DOMAIN contract')
      BY SwapMoneyStays
    <2>6. EscrowMoney \in Int
      BY WorthTypes
    <2>7. EscrowMoney' + SwapMoney' + amount = EscrowMoney + SwapMoney
      BY <1>1, <2>3, <2>4, <2>5, <2>6
    <2>8. amount \in Int /\ balance[receiver] + amount >= 0
      BY <1>1 DEF MoneyInv, BalancesOK
    <2> QED BY <1>2, <2>4, <2>5, <2>7, <2>8, PayConserves
  <1> QED BY <1>3, <1>4

LEMMA CreateContractMoney ==
  ASSUME IInv, MoneyInv, UNCHANGED escrow,
         NEW type \in {"initiator", "participant"}, NEW r \in SwapRoles,
         NEW amount \in Amounts, NEW secret \in Secrets,
         CreateContract(type, r[1], r[2], amount, secret)
  PROVE  MoneyInv'
  <1> DEFINE h == <<r[1], r[2], secret>>
             c == [type |-> type, owner |-> r[1], to |-> r[2], amount |-> amount,
                   deadline |-> head_block_time + RefundLock(type), secret |-> FALSE]
  <1>1. r[1] \in Accounts /\ amount \in Nat
    BY BalancesAssumption, AtomicSwapAssumption
  <1>2. /\ contract' = [x \in DOMAIN contract \cup {h} |-> IF x = h THEN c ELSE contract[x]]
        /\ h \notin DOMAIN contract /\ c.amount = amount
    BY DEF CreateContract
  <1> HIDE DEF h, c
  <1>3. IsFiniteSet(DOMAIN contract') /\ SwapMoney' = SwapMoney + amount /\ SwapMoney' \in Int
    BY <1>1, <1>2, StoreSwapMoney
  <1>4. EscrowMoney' = EscrowMoney /\ EscrowMoney' \in Int /\ IsFiniteSet(DOMAIN escrow')
    BY EscrowMoneyStays
  <1>5. /\ IncreaseBalance(To(r[1], -amount)) /\ balance[r[1]] >= amount
        /\ balance[r[1]] \in Nat
    BY <1>1 DEF CreateContract, DecreaseBalance, MoneyInv, BalancesOK
  <1>6. -amount \in Int /\ balance[r[1]] + (-amount) >= 0
    BY <1>1, <1>5
  <1>7. EscrowMoney \in Int /\ SwapMoney \in Int
    BY WorthTypes
  <1>8. EscrowMoney' + SwapMoney' + (-amount) = EscrowMoney + SwapMoney
    BY <1>1, <1>3, <1>4, <1>7
  <1> QED BY <1>1, <1>3, <1>4, <1>5, <1>6, <1>8, PayConserves

\* A contract that ends and pays its amount to one account.
LEMMA ContractPaidOut ==
  ASSUME IInv, MoneyInv, UNCHANGED escrow, NEW h \in DOMAIN contract, RemoveContract(h),
         NEW a \in Accounts, IncreaseBalance(To(a, contract[h].amount))
  PROVE  MoneyInv'
  <1> DEFINE n == contract[h].amount
  <1>1. SwapWorth[h] = n /\ SwapWorth[h] \in Nat
    BY WorthTypes
  <1>2. SumFunctionOnSet(SwapWorth, {h}) = n
    BY <1>1, SumOfOne
  <1>3. {h} \in SUBSET DOMAIN contract /\ contract' = Restrict(contract, DOMAIN contract \ {h})
    BY DEF RemoveContract
  <1>4. IsFiniteSet(DOMAIN contract') /\ SwapMoney' \in Int /\ SwapMoney = SwapMoney' + n
    BY <1>2, <1>3, DropSwapMoney
  <1>5. EscrowMoney' = EscrowMoney /\ EscrowMoney' \in Int /\ IsFiniteSet(DOMAIN escrow')
    BY EscrowMoneyStays
  <1>6. n \in Int /\ balance[a] + n >= 0
    BY <1>1 DEF MoneyInv, BalancesOK
  <1>7. EscrowMoney' + SwapMoney' + n = EscrowMoney + SwapMoney
    BY <1>4, <1>5, <1>6
  <1> QED BY <1>4, <1>5, <1>6, <1>7, PayConserves

LEMMA ContractTypes ==
  ASSUME IInv, NEW h \in DOMAIN contract
  PROVE  /\ contract[h] \in ContractObject /\ contract[h].amount \in Nat
         /\ contract[h].owner \in Accounts /\ contract[h].to \in Accounts
         /\ contract[h].owner = h[1] /\ contract[h].to = h[2]
         /\ contract[h].secret <=> contract[h].amount = 0
  BY DEF IInv, GoodContracts, GoodContract, ContractObject

LEMMA RedeemContractMoney ==
  ASSUME IInv, MoneyInv, UNCHANGED escrow, NEW h \in DOMAIN contract, RedeemContract(h)
  PROVE  MoneyInv'
  <1> DEFINE n == contract[h].amount
             c == [contract[h] EXCEPT !.secret = TRUE, !.amount = 0]
  <1>1. contract[h] \in ContractObject /\ n \in Nat /\ contract[h].to \in Accounts
    BY ContractTypes
  <1>2. IncreaseBalance(To(contract[h].to, n))
    BY DEF RedeemContract
  <1>3. CASE contract[h].type = "initiator"
    BY <1>1, <1>2, <1>3, ContractPaidOut DEF RedeemContract
  <1>4. CASE contract[h].type # "initiator"
    <2>1. contract' = [contract EXCEPT ![h] = c]
      BY <1>4 DEF RedeemContract
    <2>2. contract' = [x \in DOMAIN contract \cup {h} |-> IF x = h THEN c ELSE contract[x]]
      <3>1. DOMAIN contract \cup {h} = DOMAIN contract
        OBVIOUS
      <3> QED BY <2>1, <3>1
    <2>3. c.amount = 0
      BY <1>1 DEF ContractObject
    <2> HIDE DEF c
    <2>4. /\ IsFiniteSet(DOMAIN contract') /\ SwapMoney' = SwapMoney - contract[h].amount + c.amount
          /\ SwapMoney' \in Int
      <3>1. c.amount \in Nat
        BY <2>3
      <3> QED BY <2>2, <3>1, StoreSwapMoney
    <2>5. EscrowMoney' = EscrowMoney /\ EscrowMoney' \in Int /\ IsFiniteSet(DOMAIN escrow')
      BY EscrowMoneyStays
    <2>6. SwapMoney \in Int /\ n \in Int /\ balance[contract[h].to] + n >= 0
      BY <1>1, WorthTypes DEF MoneyInv, BalancesOK
    <2>7. EscrowMoney' + SwapMoney' + n = EscrowMoney + SwapMoney
      BY <2>3, <2>4, <2>5, <2>6
    <2> QED BY <1>1, <1>2, <2>4, <2>5, <2>6, <2>7, PayConserves
  <1> QED BY <1>3, <1>4

LEMMA RefundContractMoney ==
  ASSUME IInv, MoneyInv, UNCHANGED escrow, NEW h \in DOMAIN contract, RefundContract(h)
  PROVE  MoneyInv'
  BY ContractTypes, ContractPaidOut DEF RefundContract

\* What a block returns to the senders of escrows is what the escrows were worth.
LEMMA EscrowRefundsSum ==
  ASSUME IInv, MoneyInv, NEW time
  PROVE  /\ EscrowRefunds(time) \in [Accounts -> Nat]
         /\ SumFunction(EscrowRefunds(time)) = SumFunctionOnSet(EscrowWorth, Unratified(time))
         /\ \A k \in Unratified(time) : Worth(escrow[k]) <= EscrowRefunds(time)[escrow[k].from]
  <1> DEFINE U == Unratified(time)
             sender == [k \in U |-> escrow[k].from]
             of(a) == {k \in U : sender[k] = a}
             part(a) == [k \in {x \in U : escrow[x].from = a} |->
                           escrow[k].scorum_balance + escrow[k].pending_fee]
  <1>1. U \subseteq DOMAIN escrow /\ IsFiniteSet(U)
    BY FS_Subset DEF Unratified, MoneyInv
  <1>2. \A k \in U : EscrowWorth[k] = Worth(escrow[k]) /\ EscrowWorth[k] \in Nat
    BY <1>1, WorthTypes
  <1>3. ASSUME NEW a \in Accounts
        PROVE  /\ EscrowRefunds(time)[a] = SumFunctionOnSet(EscrowWorth, of(a))
               /\ EscrowRefunds(time)[a] \in Nat
               /\ \A k \in of(a) : EscrowWorth[k] <= EscrowRefunds(time)[a]
    <2>1. {x \in U : escrow[x].from = a} = of(a) /\ DOMAIN part(a) = of(a)
      OBVIOUS
    <2>2. \A k \in of(a) : part(a)[k] = EscrowWorth[k] /\ EscrowWorth[k] \in Nat
      BY <1>2 DEF Worth
    <2>3. IsFiniteSet(of(a))
      BY <1>1, FS_Subset
    <2>4. EscrowRefunds(time)[a] = SumFunction(part(a))
      BY DEF EscrowRefunds
    <2> HIDE DEF part, of
    <2>5. SumFunctionOnSet(part(a), of(a)) = SumFunctionOnSet(EscrowWorth, of(a))
      BY <2>2, <2>3, SumAgree
    <2>6. /\ SumFunctionOnSet(EscrowWorth, of(a)) \in Nat
          /\ \A k \in of(a) : EscrowWorth[k] <= SumFunctionOnSet(EscrowWorth, of(a))
      BY <2>2, <2>3, SumNatural
    <2> QED BY <2>1, <2>4, <2>5, <2>6 DEF SumFunction
  <1>4. DOMAIN EscrowRefunds(time) = Accounts
    BY DEF EscrowRefunds
  <1>5. EscrowRefunds(time) = [a \in Accounts |-> SumFunctionOnSet(EscrowWorth, of(a))]
    BY <1>3 DEF EscrowRefunds
  <1>6. IsFiniteSet(Accounts) /\ \A k \in U : sender[k] \in Accounts
    BY <1>1, EscrowTypes, BalancesAssumption
  <1>7. \A k \in U : EscrowWorth[k] \in Int
    BY <1>2
  <1>8. SumFunctionOnSet(EscrowRefunds(time), Accounts) = SumFunctionOnSet(EscrowWorth, U)
    <2> HIDE DEF U, sender
    <2>1. SumFunctionOnSet([a \in Accounts |-> SumFunctionOnSet(EscrowWorth, {k \in U : sender[k] = a})], Accounts)
            = SumFunctionOnSet(EscrowWorth, U)
      BY <1>1, <1>6, <1>7, SumGrouped
    <2> QED BY <1>5, <2>1
  <1>9. EscrowRefunds(time) \in [Accounts -> Nat]
    <2> HIDE DEF of
    <2> QED BY <1>3, <1>5
  <1>10. ASSUME NEW k \in U PROVE Worth(escrow[k]) <= EscrowRefunds(time)[escrow[k].from]
    <2>1. escrow[k].from \in Accounts /\ k \in of(escrow[k].from)
      BY <1>1, EscrowTypes
    <2> QED BY <1>2, <1>3, <2>1
  <1> QED BY <1>4, <1>8, <1>9, <1>10 DEF SumFunction

\* What a block returns to the owners of contracts is what was in them: one whose
\* secret was shown is empty.
LEMMA SwapRefundsSum ==
  ASSUME IInv, MoneyInv, NEW time
  PROVE  /\ SwapRefunds(time) \in [Accounts -> Nat]
         /\ SumFunction(SwapRefunds(time)) = SumFunctionOnSet(SwapWorth, Overdue(time))
  <1> DEFINE U == Overdue(time)
             owner == [h \in U |-> contract[h].owner]
             all(a) == {h \in U : owner[h] = a}
             paid(a) == {h \in U : contract[h].owner = a /\ ~contract[h].secret}
             part(a) == [h \in paid(a) |-> contract[h].amount]
  <1>1. U \subseteq DOMAIN contract /\ IsFiniteSet(U)
    BY FS_Subset DEF Overdue, MoneyInv
  <1>2. \A h \in U : SwapWorth[h] = contract[h].amount /\ SwapWorth[h] \in Nat
    BY <1>1, WorthTypes
  <1>3. ASSUME NEW a \in Accounts
        PROVE  /\ SwapRefunds(time)[a] = SumFunctionOnSet(SwapWorth, all(a))
               /\ SwapRefunds(time)[a] \in Nat
    <2>1. paid(a) \subseteq all(a) /\ DOMAIN part(a) = paid(a)
      OBVIOUS
    <2>2. \A h \in paid(a) : part(a)[h] = SwapWorth[h] /\ SwapWorth[h] \in Nat
      BY <1>2
    <2>3. IsFiniteSet(all(a)) /\ IsFiniteSet(paid(a)) /\ IsFiniteSet(all(a) \ paid(a))
      BY <1>1, FS_Subset
    <2>4. SwapRefunds(time)[a] = SumFunction(part(a))
      BY DEF SwapRefunds
    <2>5. \A h \in all(a) \ paid(a) : SwapWorth[h] = 0
      <3>1. ASSUME NEW h \in all(a) \ paid(a) PROVE SwapWorth[h] = 0
        <4>1. h \in U /\ contract[h].owner = a /\ contract[h].secret
          OBVIOUS
        <4> QED BY <1>1, <1>2, <4>1, ContractTypes
      <3> QED BY <3>1
    <2>6. \A h \in all(a) : SwapWorth[h] \in Int
      BY <1>2
    <2> HIDE DEF part, all, paid
    <2>7. SumFunctionOnSet(part(a), paid(a)) = SumFunctionOnSet(SwapWorth, paid(a))
      BY <2>2, <2>3, SumAgree
    <2>8. SumFunctionOnSet(SwapWorth, paid(a)) \in Nat
      BY <2>2, <2>3, SumNatural
    <2>9. SumFunctionOnSet(SwapWorth, all(a) \ paid(a)) = 0
      BY <2>3, <2>5, SumZero
    <2>10. SumFunctionOnSet(SwapWorth, all(a)) =
             SumFunctionOnSet(SwapWorth, all(a) \ paid(a)) + SumFunctionOnSet(SwapWorth, paid(a))
      BY <2>1, <2>3, <2>6, SumSplit
    <2> QED BY <2>1, <2>4, <2>7, <2>8, <2>9, <2>10 DEF SumFunction
  <1>4. DOMAIN SwapRefunds(time) = Accounts
    BY DEF SwapRefunds
  <1>5. SwapRefunds(time) = [a \in Accounts |-> SumFunctionOnSet(SwapWorth, all(a))]
    BY <1>3 DEF SwapRefunds
  <1>6. IsFiniteSet(Accounts) /\ \A h \in U : owner[h] \in Accounts
    BY <1>1, ContractTypes, BalancesAssumption
  <1>7. \A h \in U : SwapWorth[h] \in Int
    BY <1>2
  <1>8. SumFunctionOnSet(SwapRefunds(time), Accounts) = SumFunctionOnSet(SwapWorth, U)
    <2> HIDE DEF U, owner
    <2>1. SumFunctionOnSet([a \in Accounts |-> SumFunctionOnSet(SwapWorth, {h \in U : owner[h] = a})], Accounts)
            = SumFunctionOnSet(SwapWorth, U)
      BY <1>1, <1>6, <1>7, SumGrouped
    <2> QED BY <1>5, <2>1
  <1>9. SwapRefunds(time) \in [Accounts -> Nat]
    <2> HIDE DEF all
    <2> QED BY <1>3, <1>5
  <1> QED BY <1>4, <1>8, <1>9 DEF SumFunction

LEMMA EndOfBlockMoney ==
  ASSUME IInv, MoneyInv, NEW time \in 1 .. MaxTime, EndOfBlock(time)
  PROVE  MoneyInv'
  <1> DEFINE p == SwapRefunds(time)
             q == EscrowRefunds(time)
  <1>1. /\ p \in [Accounts -> Nat] /\ SumFunction(p) = SumFunctionOnSet(SwapWorth, Overdue(time))
    BY SwapRefundsSum
  <1>2. /\ q \in [Accounts -> Nat] /\ SumFunction(q) = SumFunctionOnSet(EscrowWorth, Unratified(time))
    BY EscrowRefundsSum
  <1>3. IncreaseBalance(Both(p, q))
    BY DEF EndOfBlock
  <1>4. /\ IsFiniteSet(DOMAIN escrow') /\ EscrowMoney' \in Int
        /\ EscrowMoney = EscrowMoney' + SumFunctionOnSet(EscrowWorth, Unratified(time))
    <2>1. Unratified(time) \in SUBSET DOMAIN escrow
      BY DEF Unratified
    <2>2. escrow' = Restrict(escrow, DOMAIN escrow \ Unratified(time))
      BY DEF EndOfBlock, ExpireEscrowRatification
    <2> QED BY <2>1, <2>2, DropEscrowMoney
  <1>5. /\ IsFiniteSet(DOMAIN contract') /\ SwapMoney' \in Int
        /\ SwapMoney = SwapMoney' + SumFunctionOnSet(SwapWorth, Overdue(time))
    <2>1. Overdue(time) \in SUBSET DOMAIN contract
      BY DEF Overdue
    <2>2. contract' = Restrict(contract, DOMAIN contract \ Overdue(time))
      BY DEF EndOfBlock, ProcessContractsExpiration
    <2> QED BY <2>1, <2>2, DropSwapMoney
  <1> HIDE DEF p, q
  <1>6. p \in [Accounts -> Int] /\ q \in [Accounts -> Int]
    BY <1>1, <1>2
  <1>7. /\ Both(p, q) \in [Accounts -> Int] /\ SumFunction(p) \in Int /\ SumFunction(q) \in Int
        /\ SumFunction(Both(p, q)) = SumFunction(p) + SumFunction(q)
    BY <1>6, BothSum
  <1>8. \A a \in Accounts : balance[a] + Both(p, q)[a] >= 0
    <2>1. ASSUME NEW a \in Accounts PROVE balance[a] + Both(p, q)[a] >= 0
      <3>1. Both(p, q)[a] = p[a] + q[a] /\ p[a] \in Nat /\ q[a] \in Nat /\ balance[a] \in Nat
        BY <1>1, <1>2 DEF Both, MoneyInv, BalancesOK
      <3> QED BY <3>1
    <2> QED BY <2>1
  <1>9. EscrowMoney' + SwapMoney' + SumFunction(Both(p, q)) = EscrowMoney + SwapMoney
    BY <1>1, <1>2, <1>4, <1>5, <1>7
  <1>10. BalancesOK' /\ MoneyConserved'
    BY <1>3, <1>4, <1>5, <1>7, <1>8, <1>9, PaymentConserves
  <1> QED BY <1>4, <1>5, <1>10 DEF MoneyInv

LEMMA InitMoney == Init => MoneyInv
  <1> SUFFICES ASSUME Init PROVE MoneyInv
    OBVIOUS
  <1>1. /\ balance = InitialBalance /\ circulating_capital = SumFunction(InitialBalance)
        /\ escrow = [k \in {} |-> 0] /\ contract = [h \in {} |-> 0]
    BY DEF Init, BalancesInit, EscrowInit, SwapInit
  <1>2. DOMAIN escrow = {} /\ DOMAIN contract = {}
    BY <1>1
  <1>3. IsFiniteSet({})
    BY FS_EmptySet
  <1>4. /\ IsFiniteSet(Accounts) /\ InitialBalance \in [Accounts -> Nat]
        /\ \A a \in Accounts : InitialBalance[a] \in Nat
    BY BalancesAssumption
  <1>5. SumFunctionOnSet(InitialBalance, Accounts) \in Nat
    BY <1>4, SumNatural
  <1>6. SumFunction(InitialBalance) \in Nat
    BY <1>4, <1>5 DEF SumFunction
  <1>7. EscrowMoney = 0
    <2> DEFINE f == [k \in DOMAIN escrow |-> escrow[k].scorum_balance + escrow[k].pending_fee]
    <2>1. EscrowMoney = SumFunction(f) /\ DOMAIN f = {}
      BY <1>2 DEF EscrowMoney
    <2> HIDE DEF f
    <2> QED BY <2>1, SumEmpty DEF SumFunction
  <1>8. SwapMoney = 0
    <2> DEFINE f == [h \in DOMAIN contract |-> contract[h].amount]
    <2>1. SwapMoney = SumFunction(f) /\ DOMAIN f = {}
      BY <1>2 DEF SwapMoney
    <2> HIDE DEF f
    <2> QED BY <2>1, SumEmpty DEF SumFunction
  <1>9. MoneyConserved
    BY <1>1, <1>6, <1>7, <1>8 DEF MoneyConserved
  <1> QED BY <1>1, <1>2, <1>3, <1>4, <1>6, <1>9 DEF MoneyInv, BalancesOK

LEMMA NextMoney == ASSUME IInv, MoneyInv, [Next]_vars PROVE MoneyInv'
  <1>1. CASE TransferOp
    BY <1>1, TransferMoney
  <1>2. CASE EscrowOp
    <2>0. EscrowNext /\ UNCHANGED contract
      BY <1>2 DEF EscrowOp
    <2>1. ASSUME NEW r \in EscrowRoles, NEW id \in EscrowIds, NEW amount \in Amounts,
                 NEW fee \in Fees,
                 NEW ratification \in 1 .. MaxTime, NEW expiration \in 1 .. MaxTime,
                 EscrowTransfer(r[1], r[2], r[3], id, amount, fee, ratification, expiration)
          PROVE  MoneyInv'
      BY <2>0, <2>1, EscrowTransferMoney
    <2>2. ASSUME NEW k \in DOMAIN escrow, NEW who \in Accounts, EscrowApprove(k, who)
          PROVE  MoneyInv'
      BY <2>0, <2>2, EscrowApproveMoney
    <2>3. ASSUME NEW k \in DOMAIN escrow, NEW who \in Accounts, EscrowReject(k, who)
          PROVE  MoneyInv'
      BY <2>0, <2>3, EscrowRejectMoney
    <2>4. ASSUME NEW k \in DOMAIN escrow, EscrowDispute(k) PROVE MoneyInv'
      BY <2>0, <2>4, EscrowDisputeMoney
    <2>5. ASSUME NEW k \in DOMAIN escrow, NEW who \in Accounts, NEW receiver \in Accounts,
                 NEW amount \in Amounts \cup {0}, EscrowRelease(k, who, receiver, amount)
          PROVE  MoneyInv'
      BY <2>0, <2>5, EscrowReleaseMoney
    <2> QED BY <2>0, <2>1, <2>2, <2>3, <2>4, <2>5 DEF EscrowNext
  <1>3. CASE SwapOp
    <2>0. SwapNext /\ UNCHANGED escrow
      BY <1>3 DEF SwapOp
    <2>1. ASSUME NEW type \in {"initiator", "participant"}, NEW r \in SwapRoles,
                 NEW amount \in Amounts, NEW secret \in Secrets,
                 CreateContract(type, r[1], r[2], amount, secret)
          PROVE  MoneyInv'
      BY <2>0, <2>1, CreateContractMoney
    <2>2. ASSUME NEW h \in DOMAIN contract, RedeemContract(h) PROVE MoneyInv'
      BY <2>0, <2>2, RedeemContractMoney
    <2>3. ASSUME NEW h \in DOMAIN contract, RefundContract(h) PROVE MoneyInv'
      BY <2>0, <2>3, RefundContractMoney
    <2> QED BY <2>0, <2>1, <2>2, <2>3 DEF SwapNext
  <1>4. CASE ApplyBlock
    BY <1>4, EndOfBlockMoney DEF ApplyBlock
  <1>5. CASE UNCHANGED vars
    BY <1>5 DEF vars, MoneyInv, BalancesOK, MoneyConserved, EscrowMoney, SwapMoney
  <1> QED BY <1>1, <1>2, <1>3, <1>4, <1>5 DEF Next

----------------------------------------------------------------------------
(* The limits of contracts. *)

\* Contracts of an owner or for a recipient, by their hashes.
LEMMA ContractsByHash ==
  ASSUME IInv, NEW a
  PROVE  /\ OfOwner(a) = {h \in DOMAIN contract : h[1] = a}
         /\ ForRecipient(a) = {h \in DOMAIN contract : h[2] = a}
  BY ContractTypes DEF OfOwner, ForRecipient

\* A smaller set has no more elements.
LEMMA FewerStill ==
  ASSUME NEW S, IsFiniteSet(S), NEW T, T \subseteq S, NEW n \in Nat, Cardinality(S) <= n
  PROVE  Cardinality(T) <= n
  <1>1. IsFiniteSet(T) /\ Cardinality(T) <= Cardinality(S)
    BY FS_Subset
  <1>2. Cardinality(T) \in Nat /\ Cardinality(S) \in Nat
    BY <1>1, FS_CardinalityType
  <1> QED BY <1>1, <1>2

\* One element more, where there was room.
LEMMA RoomForOne ==
  ASSUME NEW S, IsFiniteSet(S), NEW x, NEW n \in Nat, Cardinality(S) < n
  PROVE  Cardinality(S \cup {x}) <= n
  <1>1. Cardinality(S \cup {x}) = IF x \in S THEN Cardinality(S) ELSE Cardinality(S) + 1
    BY FS_AddElement
  <1>2. Cardinality(S) \in Nat
    BY FS_CardinalityType
  <1> QED BY <1>1, <1>2

\* Only create_contract adds a contract, and it checks both limits.
LEMMA NextLimits ==
  ASSUME IInv, IInv', MoneyInv, WithinLimits, [Next]_vars
  PROVE  WithinLimits'
  <1> DEFINE mine(D, a) == {h \in D : h[1] = a}
             theirs(D, a) == {h \in D : h[2] = a}
  <1>1. /\ LIMIT_PER_OWNER \in Nat /\ LIMIT_PER_RECIPIENT \in Nat
        /\ IsFiniteSet(DOMAIN contract)
    BY AtomicSwapAssumption DEF MoneyInv
  <1>2. ASSUME NEW a
        PROVE  /\ OfOwner(a) = mine(DOMAIN contract, a)
               /\ ForRecipient(a) = theirs(DOMAIN contract, a)
    BY ContractsByHash
  <1>3. ASSUME NEW a
        PROVE  /\ OfOwner(a)' = mine(DOMAIN contract', a)
               /\ ForRecipient(a)' = theirs(DOMAIN contract', a)
    <2>1. ASSUME NEW h \in DOMAIN contract' PROVE contract'[h].owner = h[1] /\ contract'[h].to = h[2]
      BY DEF IInv, GoodContracts, GoodContract
    <2> QED BY <2>1 DEF OfOwner, ForRecipient
  <1>4. ASSUME NEW a PROVE /\ IsFiniteSet(mine(DOMAIN contract, a))
                           /\ IsFiniteSet(theirs(DOMAIN contract, a))
    BY <1>1, FS_Subset
  <1>5. \A a \in Accounts : /\ Cardinality(mine(DOMAIN contract, a)) <= LIMIT_PER_OWNER
                            /\ Cardinality(theirs(DOMAIN contract, a)) <= LIMIT_PER_RECIPIENT
    BY <1>2 DEF WithinLimits
  <1>6. SUFFICES ASSUME NEW a \in Accounts
                 PROVE  /\ Cardinality(mine(DOMAIN contract', a)) <= LIMIT_PER_OWNER
                        /\ Cardinality(theirs(DOMAIN contract', a)) <= LIMIT_PER_RECIPIENT
    BY <1>3 DEF WithinLimits
  <1>7. ASSUME DOMAIN contract' \subseteq DOMAIN contract
        PROVE  /\ Cardinality(mine(DOMAIN contract', a)) <= LIMIT_PER_OWNER
               /\ Cardinality(theirs(DOMAIN contract', a)) <= LIMIT_PER_RECIPIENT
    <2>1. /\ mine(DOMAIN contract', a) \subseteq mine(DOMAIN contract, a)
          /\ theirs(DOMAIN contract', a) \subseteq theirs(DOMAIN contract, a)
      BY <1>7
    <2> HIDE DEF mine, theirs
    <2> QED BY <1>1, <1>4, <1>5, <2>1, FewerStill
  <1>8. ASSUME NEW type \in {"initiator", "participant"}, NEW r \in SwapRoles,
               NEW amount \in Amounts, NEW secret \in Secrets,
               CreateContract(type, r[1], r[2], amount, secret)
        PROVE  /\ Cardinality(mine(DOMAIN contract', a)) <= LIMIT_PER_OWNER
               /\ Cardinality(theirs(DOMAIN contract', a)) <= LIMIT_PER_RECIPIENT
    <2> DEFINE h == <<r[1], r[2], secret>>
    <2>1. DOMAIN contract' = DOMAIN contract \cup {h} /\ h[1] = r[1] /\ h[2] = r[2]
      BY <1>8 DEF CreateContract
    <2>2. /\ Cardinality(mine(DOMAIN contract, r[1])) < LIMIT_PER_OWNER
          /\ Cardinality(theirs(DOMAIN contract, r[2])) < LIMIT_PER_RECIPIENT
      BY <1>2, <1>8 DEF CreateContract
    <2>3. /\ a = r[1] => mine(DOMAIN contract', a) = mine(DOMAIN contract, a) \cup {h}
          /\ a # r[1] => mine(DOMAIN contract', a) = mine(DOMAIN contract, a)
          /\ a = r[2] => theirs(DOMAIN contract', a) = theirs(DOMAIN contract, a) \cup {h}
          /\ a # r[2] => theirs(DOMAIN contract', a) = theirs(DOMAIN contract, a)
      BY <2>1
    <2> HIDE DEF mine, theirs, h
    <2>4. Cardinality(mine(DOMAIN contract', a)) <= LIMIT_PER_OWNER
      BY <1>1, <1>4, <1>5, <2>2, <2>3, RoomForOne
    <2>5. Cardinality(theirs(DOMAIN contract', a)) <= LIMIT_PER_RECIPIENT
      BY <1>1, <1>4, <1>5, <2>2, <2>3, RoomForOne
    <2> QED BY <2>4, <2>5
  <1>9. ASSUME NEW h \in DOMAIN contract, RedeemContract(h) \/ RefundContract(h)
        PROVE  DOMAIN contract' \subseteq DOMAIN contract
    BY <1>9 DEF RedeemContract, RefundContract, RemoveContract, Restrict
  <1>10. CASE SwapOp
    BY <1>7, <1>8, <1>9, <1>10 DEF SwapOp, SwapNext
  <1>11. CASE ApplyBlock
    <2>1. DOMAIN contract' \subseteq DOMAIN contract
      BY <1>11 DEF ApplyBlock, EndOfBlock, ProcessContractsExpiration, Restrict
    <2> QED BY <1>7, <2>1
  <1>12. CASE TransferOp \/ EscrowOp \/ UNCHANGED vars
    <2>1. contract' = contract
      BY <1>12 DEF TransferOp, EscrowOp, vars
    <2> QED BY <1>7, <2>1
  <1> QED BY <1>10, <1>11, <1>12 DEF Next

----------------------------------------------------------------------------
(* The ledger. *)

LedgerInv == IInv /\ MoneyInv /\ WithinLimits

LEMMA AlwaysLedgerInv == Spec => []LedgerInv
  <1>1. Init => LedgerInv
    <2> SUFFICES ASSUME Init PROVE WithinLimits
      BY InitGood, InitMoney DEF LedgerInv
    <2>1. \A a : OfOwner(a) = {} /\ ForRecipient(a) = {}
      BY DEF Init, SwapInit, OfOwner, ForRecipient
    <2> QED BY <2>1, FS_EmptySet, AtomicSwapAssumption DEF WithinLimits
  <1>2. LedgerInv /\ [Next]_vars => LedgerInv'
    BY NextGood, NextMoney, NextLimits DEF LedgerInv
  <1> QED BY <1>1, <1>2, PTL DEF Spec

\* Nobody owes, no operation and no expiration makes or destroys money, however
\* many escrows and contracts end in one block, and no owner and no recipient has
\* more contracts than allowed.
THEOREM LedgerAlwaysSound == Spec => []LedgerSound
  <1>1. LedgerInv => LedgerSound
    BY IInvImplies DEF LedgerInv, LedgerSound, TypeOK, MoneyInv
  <1> QED BY <1>1, AlwaysLedgerInv, PTL

\* An escrow that ends gives back everything unless both parties approved it, and
\* then what was left goes to the sender or the receiver, by an operation only.
THEOREM EscrowsEndInFull == Spec => EscrowEndsInFull
  <1> DEFINE Gain(a) == balance'[a] - balance[a]
             Ends(k) ==
               LET e == escrow[k]
                   gain(a) == balance'[a] - balance[a]
               IN  IF IsApproved(e) THEN /\ head_block_time' = head_block_time
                                        /\ e.scorum_balance \in {gain(e.from), gain(e.to)}
                   ELSE gain(e.from) >= e.scorum_balance + e.pending_fee
             EndsInFull == \A k \in DOMAIN escrow \ DOMAIN escrow' : Ends(k)
  <1>1. LedgerInv /\ [Next]_vars => [EndsInFull]_vars
    <2> SUFFICES ASSUME LedgerInv, Next, NEW k \in DOMAIN escrow \ DOMAIN escrow' PROVE Ends(k)
      OBVIOUS
    <2>0. IInv /\ MoneyInv
      BY DEF LedgerInv
    <2>1. /\ escrow[k].scorum_balance \in Nat /\ escrow[k].pending_fee \in Nat
          /\ escrow[k].from \in Accounts /\ escrow[k].to \in Accounts
      BY <2>0, EscrowTypes
    <2>2. \A a \in Accounts : balance[a] \in Int
      BY <2>0 DEF MoneyInv, BalancesOK
    <2>3. ASSUME NEW a \in Accounts, NEW n \in Int, IncreaseBalance(To(a, n)) PROVE Gain(a) = n
      <3>1. balance'[a] = balance[a] + n
        BY <2>3 DEF IncreaseBalance, To
      <3> QED BY <2>2, <3>1
    <2>4. CASE EscrowOp
      <3>0. EscrowNext /\ head_block_time' = head_block_time
        BY <2>4 DEF EscrowOp
      <3>1. ASSUME NEW r \in EscrowRoles, NEW id \in EscrowIds, NEW amount \in Amounts,
                   NEW fee \in Fees,
                   NEW ratification \in 1 .. MaxTime, NEW expiration \in 1 .. MaxTime,
                   EscrowTransfer(r[1], r[2], r[3], id, amount, fee, ratification, expiration)
            PROVE  FALSE
        BY <3>1 DEF EscrowTransfer, SetEscrow
      <3>2. ASSUME NEW j \in DOMAIN escrow, NEW who \in Accounts, EscrowApprove(j, who)
            PROVE  FALSE
        BY <3>2 DEF EscrowApprove, SetEscrow
      <3>3. ASSUME NEW j \in DOMAIN escrow, NEW who \in Accounts, EscrowReject(j, who)
            PROVE  Ends(k)
        <4>1. j = k
          BY <3>3 DEF EscrowReject, RemoveEscrow, Restrict
        <4>2. ~IsApproved(escrow[k])
          BY <3>3, <4>1 DEF EscrowReject, MayRatify, IsApproved
        <4>3. IncreaseBalance(To(escrow[k].from, escrow[k].scorum_balance + escrow[k].pending_fee))
          BY <3>3, <4>1 DEF EscrowReject
        <4>4. Gain(escrow[k].from) = escrow[k].scorum_balance + escrow[k].pending_fee
          BY <2>1, <2>3, <4>3
        <4> QED BY <2>1, <4>2, <4>4
      <3>4. ASSUME NEW j \in DOMAIN escrow, EscrowDispute(j) PROVE FALSE
        BY <3>4 DEF EscrowDispute, SetEscrow
      <3>5. ASSUME NEW j \in DOMAIN escrow, NEW who \in Accounts, NEW receiver \in Accounts,
                   NEW amount \in Amounts \cup {0}, EscrowRelease(j, who, receiver, amount)
            PROVE  Ends(k)
        <4>1. j = k /\ escrow[j].scorum_balance - amount = 0
          BY <3>5 DEF EscrowRelease, RemoveEscrow, SetEscrow, Restrict
        <4>2. /\ IsApproved(escrow[k]) /\ receiver \in {escrow[k].from, escrow[k].to}
              /\ IncreaseBalance(To(receiver, amount))
          BY <3>5, <4>1 DEF EscrowRelease
        <4>3. amount \in Int /\ amount = escrow[k].scorum_balance
          BY <2>1, <4>1, BalancesAssumption
        <4>4. Gain(receiver) = escrow[k].scorum_balance
          BY <2>3, <4>2, <4>3
        <4> QED BY <3>0, <4>2, <4>4
      <3> QED BY <3>0, <3>1, <3>2, <3>3, <3>4, <3>5 DEF EscrowNext
    <2>5. CASE ApplyBlock
      <3>1. PICK time \in 1 .. MaxTime : EndOfBlock(time)
        BY <2>5 DEF ApplyBlock
      <3>2. k \in Unratified(time)
        BY <3>1 DEF EndOfBlock, ExpireEscrowRatification, Restrict
      <3>3. ~IsApproved(escrow[k])
        BY <3>2 DEF Unratified
      <3> DEFINE p == SwapRefunds(time)
                 q == EscrowRefunds(time)
      <3>4. p \in [Accounts -> Nat] /\ q \in [Accounts -> Nat] /\ Worth(escrow[k]) <= q[escrow[k].from]
        BY <2>0, <3>2, SwapRefundsSum, EscrowRefundsSum
      <3>5. IncreaseBalance(Both(p, q))
        BY <3>1 DEF EndOfBlock
      <3> HIDE DEF p, q
      <3>6. balance'[escrow[k].from] = balance[escrow[k].from] + (p[escrow[k].from] + q[escrow[k].from])
        BY <2>1, <3>5 DEF IncreaseBalance, Both
      <3>7. /\ p[escrow[k].from] \in Nat /\ q[escrow[k].from] \in Nat
            /\ balance[escrow[k].from] \in Int
        BY <2>1, <2>2, <3>4
      <3>8. Gain(escrow[k].from) >= escrow[k].scorum_balance + escrow[k].pending_fee
        BY <2>1, <3>4, <3>6, <3>7 DEF Worth
      <3> QED BY <3>3, <3>8
    <2>6. CASE TransferOp \/ SwapOp
      BY <2>6 DEF TransferOp, SwapOp
    <2> QED BY <2>4, <2>5, <2>6 DEF Next
  <1>2. Spec => [][EndsInFull]_vars
    BY <1>1, AlwaysLedgerInv, PTL DEF Spec
  <1> QED BY <1>2 DEF EscrowEndsInFull
=============================================================================
