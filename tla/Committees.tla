------------------------------ MODULE Committees ------------------------------
(***************************************************************************)
(* The registration and the development committee, their proposals, and    *)
(* the executor that applies a proposal once its votes reach the quorum.   *)
(*                                                                         *)
(* A vote is one operation of a transaction.  The executor applies the     *)
(* proposal and, for every member this excludes, removes his votes from    *)
(* all proposals and tries all of them again, because a smaller committee  *)
(* needs fewer votes.  When one of them throws, the session of the         *)
(* transaction restores the objects of the chain; removed_members is a     *)
(* field of the executor, which lives as long as the node, and is not.     *)
(*                                                                         *)
(* Persons are numbers in the order of their names, the order in which    *)
(* flat_set hands out the removed members.                                 *)
(***************************************************************************)
EXTENDS Integers, FiniteSets, SequencesExt

CONSTANTS Persons,       \* the accounts of the chain, numbers in name order
          Founders,       \* the members of each committee in the genesis state
          MembersLimit,   \* SCORUM_..._COMMITTEE_MAX_MEMBERS_LIMIT
          ProposedOps,    \* bound: what the n-th proposal may propose
          Lifetimes,      \* the lifetimes proposed, in blocks
          DevPoolScr,     \* SCR of the development pool in the genesis state
          DevPoolSp,      \* SP of the development pool
          PoolLockedUntil,\* lock_withdraw_sp_until_timestamp, in blocks
          LastBlock       \* bound: blocks

Committee == {"registration", "development"}

\* The quorums of a committee; the registration committee has the first three.
QuorumType == {"add_member", "exclude_member", "base", "transfer",
               "advertising_moderator", "betting_moderator",
               "betting_resolve_delay", "budgets_auction_properties"}

\* Properties of the chain that a proposal of the development committee sets.
Setting == {"advertising_moderator", "betting_moderator",
            "betting_resolve_delay", "post_coefficients", "banner_coefficients"}

ASSUME CommitteesAssumption ==
    /\ Persons \subseteq Nat /\ IsFiniteSet(Persons)
    /\ Founders \in [Committee -> (SUBSET Persons) \ {{}}]
    /\ MembersLimit \in Nat \ {0}
    /\ \A c \in Committee : Cardinality(Founders[c]) <= MembersLimit + 1
    /\ Lifetimes \subseteq Nat \ {0}
    /\ DevPoolScr \in Nat /\ DevPoolSp \in Nat
    /\ PoolLockedUntil \in Nat /\ LastBlock \in Nat

(***************************************************************************)
(* What can be proposed.                                                   *)
(***************************************************************************)
Op(committee, kind, subject, account, number) ==
    [committee |-> committee, kind |-> kind, subject |-> subject,
     account |-> account, number |-> number]

add_member(c, a)        == Op(c, "add_member", "base", a, 0)
exclude_member(c, a)    == Op(c, "exclude_member", "base", a, 0)
change_quorum(c, q, n)  == Op(c, "change_quorum", q, 0, n)
transfer(a, n)          == Op("development", "transfer", "base", a, n)
withdraw_vesting(n)     == Op("development", "withdraw_vesting", "base", 0, n)
change_setting(s, n)    == Op("development", "change_setting", s, 0, n)

VARIABLES members,          \* committee -> its members
          quorums,          \* committee -> quorum type -> percent
          proposals,        \* id -> proposal, the live ones
          created,          \* proposals created so far
          removed_members,  \* the set the executor keeps in memory
          devPool,          \* SCR of the development pool
          transferred,         \* SCR transferred out of it
          withdrawing,      \* SP the pool is withdrawing, 0 for none
          settings,         \* setting -> value
          block             \* head block, the clock

committeeVars == <<members, quorums, proposals, created, removed_members,
                   devPool, transferred, withdrawing, settings, block>>

(***************************************************************************)
(* Quorums.                                                                *)
(***************************************************************************)
MinQuorum == 50
MaxQuorum == 100

\* The genesis quorums: 60 percent, and 50 for money, the moderators
\* and the resolve delay.
GenesisQuorums ==
    [q \in QuorumType |->
        IF q \in {"add_member", "exclude_member", "base", "budgets_auction_properties"}
        THEN 60 ELSE 50]

\* The quorum a proposal asks for.  The one that changes the resolve delay asks
\* for the quorum of the betting moderator.
get_required_quorum(op) ==
    quorums[op.committee][
        CASE op.kind \in {"add_member", "exclude_member"}     -> op.kind
          [] op.kind = "change_quorum"                        -> "base"
          [] op.kind \in {"transfer", "withdraw_vesting"}     -> "transfer"
          [] op.subject = "advertising_moderator"             -> "advertising_moderator"
          [] op.subject \in {"betting_moderator", "betting_resolve_delay"}
                                                              -> "betting_moderator"
          [] OTHER                                            -> "budgets_auction_properties"]

\* Whole hundredths of a percent of the members, as fc::safe<size_t> divides.
is_quorum(votes, count, percent) == (votes * 10000) \div count >= percent * 100

(***************************************************************************)
(* The executor.  Its folds carry the part of the state it may change, and *)
(* whether an evaluator threw.                                             *)
(***************************************************************************)
Working ==
    [members |-> members, quorums |-> quorums, proposals |-> proposals,
     removed |-> removed_members, devPool |-> devPool, transferred |-> transferred,
     withdrawing |-> withdrawing, settings |-> settings, ok |-> TRUE]

\* What an evaluator refuses, leaving everything to the session's undo.
RefusesMember(s, op) ==
    \/ /\ op.kind = "add_member"
       /\ \/ op.account \in s.members[op.committee]
          \/ Cardinality(s.members[op.committee]) > MembersLimit
    \/ /\ op.kind = "exclude_member"
       /\ \/ op.account \notin s.members[op.committee]
          \/ Cardinality(s.members[op.committee]) <= 1

RefusesWithdrawal(s, op) ==
    /\ op.kind = "withdraw_vesting"
    /\ \/ block <= PoolLockedUntil
       \/ op.number > DevPoolSp
       \/ op.number = 0 /\ s.withdrawing = 0

Refuses(s, op) ==
    \/ RefusesMember(s, op)
    \/ RefusesWithdrawal(s, op)
    \/ op.kind = "transfer" /\ op.number > s.devPool

\* The evaluators of the proposal operations.
Apply(s, op) ==
    CASE op.kind = "add_member" ->
           [s EXCEPT !.members[op.committee] = @ \cup {op.account}]
      [] op.kind = "exclude_member" ->
           [s EXCEPT !.members[op.committee] = @ \ {op.account},
                     !.removed = @ \cup {op.account}]
      [] op.kind = "change_quorum" ->
           [s EXCEPT !.quorums[op.committee][op.subject] = op.number]
      [] op.kind = "transfer" ->
           [s EXCEPT !.devPool = @ - op.number, !.transferred = @ + op.number]
      [] op.kind = "withdraw_vesting" ->
           [s EXCEPT !.withdrawing = op.number]
      [] op.kind = "change_setting" ->
           [s EXCEPT !.settings[op.subject] = op.number]

execute_proposal(s, id) ==
    LET p == s.proposals[id]
    IN  CASE ~s.ok \/ id \notin DOMAIN s.proposals -> s
          [] ~is_quorum(Cardinality(p.voted), Cardinality(s.members[p.op.committee]),
                        p.quorum) -> s
          [] Refuses(s, p.op) -> [s EXCEPT !.ok = FALSE]
          [] OTHER ->
               [Apply(s, p.op) EXCEPT
                    !.proposals = [i \in DOMAIN @ \ {id} |-> @[i]]]

remove_from_voting_list(s, member) ==
    [s EXCEPT !.proposals = [i \in DOMAIN @ |-> [@[i] EXCEPT !.voted = @ \ {member}]]]

\* The live proposals by the time of their creation, as the loop copies them.
get_proposals(s) == SetToSortSeq(DOMAIN s.proposals, <)

\* A mutant: the votes are removed and nothing is tried again.
NextRemovedMemberOnly(s) ==
    LET member == CHOOSE m \in s.removed : \A n \in s.removed : m <= n
    IN  [remove_from_voting_list(s, member) EXCEPT !.removed = @ \ {member}]

\* One turn of the loop: the first removed member in name order loses his votes
\* and every proposal is tried again.  A throw leaves him in the set.
NextRemovedMember(s) ==
    LET member == CHOOSE m \in s.removed : \A n \in s.removed : m <= n
        tried  == FoldLeft(execute_proposal, remove_from_voting_list(s, member),
                           get_proposals(s))
    IN  IF tried.ok THEN [tried EXCEPT !.removed = @ \ {member}] ELSE tried

\* The loop.  Each turn ends one member's stay in the set, and only the
\* execution of a proposal starts one, so it has at most this many turns.
update_proposals_voting_list_and_execute(s) ==
    LET turns == Cardinality(s.removed) + Cardinality(DOMAIN s.proposals)
        after[n \in 0..turns] ==
            IF n = 0 THEN s
            ELSE IF ~after[n - 1].ok \/ after[n - 1].removed = {} THEN after[n - 1]
                 ELSE NextRemovedMember(after[n - 1])
    IN  after[turns]

Executor(s, id) == update_proposals_voting_list_and_execute(execute_proposal(s, id))

(***************************************************************************)
(* Operations and the block task.                                          *)
(***************************************************************************)
CommitteesInit ==
    /\ members = Founders
    /\ quorums = [c \in Committee |-> GenesisQuorums]
    /\ proposals = <<>>
    /\ created = 0
    /\ removed_members = {}
    /\ devPool = DevPoolScr
    /\ transferred = 0
    /\ withdrawing = 0
    /\ settings = [s \in Setting |-> 0]
    /\ block = 0

proposal_create(creator, op, lifetime) ==
    /\ creator \in members[op.committee]
    /\ created' = created + 1
    /\ proposals' = [i \in DOMAIN proposals \cup {created'} |->
                        IF i = created'
                        THEN [op |-> op, quorum |-> get_required_quorum(op),
                              voted |-> {}, expiration |-> block + lifetime]
                        ELSE proposals[i]]
    /\ UNCHANGED <<members, quorums, removed_members, devPool, transferred,
                   withdrawing, settings, block>>

is_expired(p, time) == time > p.expiration

MayVote(voter, id) ==
    /\ voter \in members[proposals[id].op.committee]
    /\ voter \notin proposals[id].voted
    /\ ~is_expired(proposals[id], block)

\* What the vote and everything it sets off make of the working state.
AfterVote(voter, id) ==
    Executor([Working EXCEPT !.proposals[id].voted = @ \cup {voter}], id)

proposal_vote(voter, id) ==
    /\ MayVote(voter, id)
    /\ LET s == AfterVote(voter, id)
       IN  /\ s.ok
           /\ members' = s.members
           /\ quorums' = s.quorums
           /\ proposals' = s.proposals
           /\ devPool' = s.devPool
           /\ transferred' = s.transferred
           /\ withdrawing' = s.withdrawing
           /\ settings' = s.settings
           /\ removed_members' = s.removed
    /\ UNCHANGED <<created, block>>

\* An evaluator threw: the transaction is refused and its session undone.
RefusedVote(voter, id) ==
    /\ MayVote(voter, id)
    /\ LET s == AfterVote(voter, id)
       IN  ~s.ok /\ removed_members' = s.removed
    /\ UNCHANGED <<members, quorums, proposals, created, devPool, transferred,
                   withdrawing, settings, block>>

\* A node that restarts starts with a new executor.
RestartExecutor ==
    /\ removed_members # {}
    /\ removed_members' = {}
    /\ UNCHANGED <<members, quorums, proposals, created, devPool, transferred,
                   withdrawing, settings, block>>

clear_expired_proposals ==
    /\ block < LastBlock
    /\ block' = block + 1
    /\ proposals' = [i \in {j \in DOMAIN proposals :
                               ~is_expired(proposals[j], block + 1)} |-> proposals[i]]
    /\ UNCHANGED <<members, quorums, created, removed_members, devPool, transferred,
                   withdrawing, settings>>

CommitteesNext ==
    \/ /\ created < Len(ProposedOps)
       /\ \E creator \in Persons, op \in ProposedOps[created + 1], l \in Lifetimes :
             proposal_create(creator, op, l)
    \/ \E voter \in Persons : \E id \in DOMAIN proposals : proposal_vote(voter, id)
    \/ \E voter \in Persons : \E id \in DOMAIN proposals : RefusedVote(voter, id)
    \/ RestartExecutor
    \/ clear_expired_proposals

(***************************************************************************)
(* Properties.                                                             *)
(***************************************************************************)
Proposal ==
    [op : UNION Range(ProposedOps), quorum : MinQuorum..MaxQuorum, voted : SUBSET Persons,
     expiration : Nat]

\* Types, and the sizes a committee can have: excluding never takes the last
\* member, and the limit is compared before a member is added, so that it can be
\* passed by one.
CommitteesTypeOK ==
    /\ members \in [Committee -> SUBSET Persons]
    /\ \A c \in Committee : Cardinality(members[c]) \in 1..MembersLimit + 1
    /\ quorums \in [Committee -> [QuorumType -> MinQuorum..MaxQuorum]]
    /\ created \in 0..Len(ProposedOps)
    /\ DOMAIN proposals \subseteq 1..created
    /\ \A id \in DOMAIN proposals : proposals[id] \in Proposal
    /\ removed_members \subseteq Persons
    /\ devPool \in 0..DevPoolScr /\ transferred = DevPoolScr - devPool
    /\ withdrawing \in 0..DevPoolSp

\* A live proposal holds the votes of members of its own committee only: who is
\* excluded, by his own proposal or in the wake of another one, loses his votes
\* in all of them before the next operation.
VotesOfMembersOnly ==
    \A id \in DOMAIN proposals :
        proposals[id].voted \subseteq members[proposals[id].op.committee]

\* No proposal is carried out after it expired.  Only the vote that starts an
\* execution checks the time; the proposals tried again in its wake rely on the
\* block task that removed the expired ones.
ExpiredNeverCarriedOut ==
    [][\A id \in DOMAIN proposals \ DOMAIN proposals' :
          block' = block => block <= proposals[id].expiration]_committeeVars

\* A proposal that has its quorum is not left waiting for one more vote.
QuorumIsCarriedOut ==
    \A id \in DOMAIN proposals :
        ~is_quorum(Cardinality(proposals[id].voted),
                   Cardinality(members[proposals[id].op.committee]),
                   proposals[id].quorum)

\* Between two operations the proposals agree with the committees: proposal_executor
\* has withdrawn the votes of whom it excluded and carried out what has its quorum,
\* in as many turns as it takes, none of them for a proposal that had expired.
ProposalsSound ==
    /\ [](CommitteesTypeOK /\ VotesOfMembersOnly /\ QuorumIsCarriedOut)
    /\ ExpiredNeverCarriedOut
=============================================================================
