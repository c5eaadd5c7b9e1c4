------------------------------- MODULE Escrow -------------------------------
(***************************************************************************)
(* Escrow transfers: from locks an amount and the agent's fee; when both   *)
(* the receiver and the agent have approved, the fee is paid and the       *)
(* amount is released in parts; otherwise everything goes back.            *)
(*                                                                         *)
(* An escrow is known by its sender and the id that the sender gave it.    *)
(***************************************************************************)
EXTENDS Balances

CONSTANTS
  EscrowIds,
  EscrowRoles, \* senders, receivers and agents that escrow_transfer may name
  Fees         \* fees that it may offer

ASSUME EscrowAssumption ==
  /\ EscrowRoles \subseteq Accounts \X Accounts \X Accounts
  /\ Fees \subseteq Nat

VARIABLE escrow  \* escrow_index: from [sender, id] to the escrow_object

EscrowKeys == Accounts \X EscrowIds

EscrowObject ==
  [from : Accounts, to : Accounts, agent : Accounts,
   ratification_deadline : 0 .. MaxTime, escrow_expiration : 0 .. MaxTime,
   scorum_balance : Nat, pending_fee : Nat,
   to_approved : BOOLEAN, agent_approved : BOOLEAN, disputed : BOOLEAN]

IsApproved(e) == e.to_approved /\ e.agent_approved

SetEscrow(k, e) == escrow' = [x \in DOMAIN escrow \cup {k} |-> IF x = k THEN e ELSE escrow[x]]

RemoveEscrow(k) == escrow' = Restrict(escrow, DOMAIN escrow \ {k})

-----------------------------------------------------------------------------
EscrowTransfer(from, to, agent, id, amount, fee, ratification, expiration) ==
  /\ agent \notin {from, to}
  /\ head_block_time < ratification
  /\ ratification < expiration
  /\ balance[from] >= amount + fee
  /\ <<from, id>> \notin DOMAIN escrow
  /\ DecreaseBalance(from, amount + fee)
  /\ SetEscrow(<<from, id>>,
       [from |-> from, to |-> to, agent |-> agent,
        ratification_deadline |-> ratification, escrow_expiration |-> expiration,
        scorum_balance |-> amount, pending_fee |-> fee,
        to_approved |-> FALSE, agent_approved |-> FALSE, disputed |-> FALSE])

\* The checks that escrow_approve makes whether it approves or rejects.
MayRatify(e, who) ==
  /\ e.ratification_deadline >= head_block_time
  /\ who \in {e.to, e.agent}
  /\ who = e.to => ~e.to_approved
  /\ who = e.agent => ~e.agent_approved

EscrowApprove(k, who) ==
  /\ MayRatify(escrow[k], who)
  /\ LET e == [escrow[k] EXCEPT !.to_approved = @ \/ who = escrow[k].to,
                                !.agent_approved = @ \/ who = escrow[k].agent]
     IN  \/ /\ ~IsApproved(e)
            /\ SetEscrow(k, e)
            /\ UNCHANGED balanceVars
         \/ /\ IsApproved(e)
            /\ SetEscrow(k, [e EXCEPT !.pending_fee = 0])
            /\ IncreaseBalance(To(e.agent, e.pending_fee))

\* A mutant: a rejection pays the receiver.
EscrowRejectPaysReceiver(k, who) ==
  LET e == escrow[k]
  IN  /\ MayRatify(e, who)
      /\ IncreaseBalance(To(e.to, e.scorum_balance + e.pending_fee))
      /\ RemoveEscrow(k)

EscrowReject(k, who) ==
  LET e == escrow[k]
  IN  /\ MayRatify(e, who)
      /\ IncreaseBalance(To(e.from, e.scorum_balance + e.pending_fee))
      /\ RemoveEscrow(k)

\* Who asks, the sender or the receiver, makes no difference.
EscrowDispute(k) ==
  LET e == escrow[k]
  IN  /\ head_block_time < e.escrow_expiration
      /\ IsApproved(e)
      /\ ~e.disputed
      /\ SetEscrow(k, [e EXCEPT !.disputed = TRUE])
      /\ UNCHANGED balanceVars

\* A dispute leaves the decision to the agent; before the expiration each
\* party can only give to the other, afterwards also to itself.
MayRelease(e, who, receiver) ==
  \/ e.disputed /\ who = e.agent
  \/ /\ ~e.disputed
     /\ who \in {e.from, e.to}
     /\ e.escrow_expiration > head_block_time =>
          receiver = IF who = e.from THEN e.to ELSE e.from

\* A mutant: an empty escrow is kept.
EscrowReleaseKeepsEmpty(k, who, receiver, amount) ==
  LET e == escrow[k]
      left == e.scorum_balance - amount
  IN  /\ left >= 0
      /\ receiver \in {e.from, e.to}
      /\ IsApproved(e)
      /\ MayRelease(e, who, receiver)
      /\ IncreaseBalance(To(receiver, amount))
      /\ SetEscrow(k, [e EXCEPT !.scorum_balance = left])

EscrowRelease(k, who, receiver, amount) ==
  LET e == escrow[k]
      left == e.scorum_balance - amount
  IN  /\ left >= 0
      /\ receiver \in {e.from, e.to}
      /\ IsApproved(e)
      /\ MayRelease(e, who, receiver)
      /\ IncreaseBalance(To(receiver, amount))
      /\ IF left = 0 THEN RemoveEscrow(k)
         ELSE SetEscrow(k, [e EXCEPT !.scorum_balance = left])

\* A mutant: the deadline itself is left to the next block.
UnratifiedLate(time) ==
  {k \in DOMAIN escrow : /\ ~IsApproved(escrow[k])
                         /\ escrow[k].ratification_deadline < time}

\* expire_escrow_ratification: which escrows a block of that time takes away
\* (the index has the unapproved ones first, in the order of their deadlines)
\* and what their senders get back.
Unratified(time) ==
  {k \in DOMAIN escrow : /\ ~IsApproved(escrow[k])
                         /\ escrow[k].ratification_deadline <= time}

EscrowRefunds(time) ==
  [a \in Accounts |->
     SumFunction([k \in {x \in Unratified(time) : escrow[x].from = a} |->
                    escrow[k].scorum_balance + escrow[k].pending_fee])]

ExpireEscrowRatification(time) ==
  escrow' = Restrict(escrow, DOMAIN escrow \ Unratified(time))

-----------------------------------------------------------------------------
EscrowInit == escrow = [k \in {} |-> 0]

EscrowNext ==
  \/ \E r \in EscrowRoles, id \in EscrowIds, amount \in Amounts, fee \in Fees,
        ratification, expiration \in 1 .. MaxTime :
       EscrowTransfer(r[1], r[2], r[3], id, amount, fee, ratification, expiration)
  \/ \E k \in DOMAIN escrow :
       \/ \E who \in Accounts : EscrowApprove(k, who) \/ EscrowReject(k, who)
       \/ EscrowDispute(k)
       \/ \E who, receiver \in Accounts, amount \in Amounts \cup {0} :
            EscrowRelease(k, who, receiver, amount)

EscrowMoney ==
  SumFunction([k \in DOMAIN escrow |-> escrow[k].scorum_balance + escrow[k].pending_fee])
=============================================================================
