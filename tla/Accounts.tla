----------------------------- MODULE Accounts -----------------------------
(***************************************************************************)
(* The authorities of accounts over time (chain/services/account.cpp and   *)
(* the evaluators that use it): creation, update, recovery of a stolen     *)
(* account with the help of a recovery partner, and the plugin that looks  *)
(* up accounts by key.                                                     *)
(*                                                                         *)
(* Who signs is checked before (Authorities): here every operation may be  *)
(* signed, as when a thief has the keys.  Transactions see the time of the *)
(* last block; the tasks of a block run at its own time.  Balances and     *)
(* delegations of creation are in Vesting.                                 *)
(***************************************************************************)
EXTENDS Naturals, FiniteSets

CONSTANTS Names,           \* the account names
          GenesisNames,      \* those created by genesis
          OwnerAuths,        \* the authorities accounts may have
          NoAuth,            \* an authority an operation does not give
          OpenAuth,          \* an authority with threshold zero
          KeysIn,            \* the keys of an authority
          AccountsIn,        \* the accounts it names
          Creations,         \* the authorities accounts are created with,
          Updates,           \* the changes of them that are asked for,
          Recoveries,        \* and the owner authorities requested by partners
          OwnerUpdateLimit,  \* SCORUM_OWNER_UPDATE_LIMIT
          RecoveryPeriod,    \* SCORUM_OWNER_AUTH_RECOVERY_PERIOD
          RequestPeriod,     \* SCORUM_ACCOUNT_RECOVERY_REQUEST_EXPIRATION_PERIOD
          LastAccountTime,   \* bounds: the time of the last block,
          MaxAccountOps      \* and the operations

ASSUME AccountsAssumption ==
    /\ GenesisNames \subseteq Names /\ GenesisNames # {}
    /\ KeysIn \in [OwnerAuths -> SUBSET UNION {KeysIn[a] : a \in OwnerAuths}]
    /\ AccountsIn \in [OwnerAuths -> SUBSET Names]
    /\ NoAuth \notin OwnerAuths /\ OpenAuth \notin OwnerAuths
    /\ Creations \subseteq [owner : OwnerAuths, active : OwnerAuths, posting : OwnerAuths]
    /\ LET given == OwnerAuths \cup {NoAuth}
       IN  Updates \subseteq [owner : given, active : given, posting : given]
    /\ Recoveries \subseteq OwnerAuths
    /\ OwnerUpdateLimit \in Nat /\ RecoveryPeriod \in Nat /\ RequestPeriod \in Nat \ {0}

VARIABLES accounts,     \* for each account that exists its authorities and its partner
          owner_history,  \* owner_authority_history_object
          requests,       \* account_recovery_request_object
          changes,        \* change_recovery_account_request_object
          lookup,         \* key_lookup_object: pairs of a key and an account
          cached_keys,    \* of the plugin, which no undo restores
          started,        \* the plugin has started: before, old blocks are replayed
          account_time,   \* the time of the last block
          account_ops,    \* how many operations there were
          replaced        \* history: the owner authorities that were replaced, and who
                          \* was the partner then; who asked last for which partner

recoveryVars == <<accounts, owner_history, requests, changes, lookup, cached_keys, started,
                 account_time, account_ops, replaced>>

Existing == DOMAIN accounts
Nobody == "nobody"   \* an empty name
MinTime == 0           \* fc::time_point_sec::min()

AllKeys(a) == KeysIn[a.owner] \cup KeysIn[a.active] \cup KeysIn[a.posting]

NewAccount(creator, o) ==
    [owner |-> o.owner, active |-> o.active, posting |-> o.posting, recovery_account |-> creator,
     last_owner_update |-> MinTime, last_account_recovery |-> MinTime]

Elapsed(since, limit) == since = MinTime \/ account_time - since > limit

check_account_existence(o) ==
    \A a \in {o.owner, o.active, o.posting} \ {NoAuth} : AccountsIn[a] \subseteq Existing

Counted == account_ops < MaxAccountOps /\ account_ops' = account_ops + 1

(***************************************************************************)
(* The lookup plugin, told before and after each operation.                *)
(***************************************************************************)
\* The lookup after update_key_lookup: keys that were cached are taken to be there
\* already, and those of them that are gone are removed.
update_key_lookup(pairs, cached, n, keys) ==
    (pairs \cup ((keys \ cached) \X {n})) \ ((cached \ keys) \X {n})

\* What pre_operation leaves in the cache for an operation on n.
pre_operation(n) == IF n \in Existing THEN AllKeys(accounts[n]) ELSE {}

\* post_operation once the account is as after the operation.
post_operation(n, after) ==
    /\ lookup' = update_key_lookup(lookup, pre_operation(n), n, AllKeys(after))
    /\ cached_keys' = {}

\* A creation clears the cache, which another operation that failed may have left.
pre_creation == {}

\* At start-up the accounts of genesis are looked at, for which there was no operation.
plugin_startup ==
    /\ started' = TRUE
    /\ lookup' = lookup \cup UNION {AllKeys(accounts[n]) \X {n} : n \in GenesisNames}
    /\ cached_keys' = {}
    /\ UNCHANGED <<accounts, owner_history, requests, changes, account_time, account_ops, replaced>>

(***************************************************************************)
(* Operations.                                                             *)
(***************************************************************************)
\* The evaluators of account_create, account_create_with_delegation and
\* account_create_by_committee.
account_create(creator, n, o) ==
    /\ Counted
    /\ n \notin Existing /\ creator \in Existing
    /\ check_account_existence(o)
    /\ LET new == NewAccount(creator, o)
       IN  /\ accounts' = [m \in Existing \cup {n} |-> IF m = n THEN new ELSE accounts[m]]
           /\ lookup' = update_key_lookup(lookup, pre_creation, n, AllKeys(new))
           /\ cached_keys' = {}
    /\ UNCHANGED <<owner_history, requests, changes, started, account_time, replaced>>

\* The history entry, and the ghost entry with the partner of the moment; steady says
\* that no change of partner was on its way.
Replaced(n) ==
    [who |-> n, owner |-> accounts[n].owner, at |-> account_time,
     partner |-> accounts[n].recovery_account,
     steady |-> \A c \in changes : c.who # n]

update_owner_authority(n, after) ==
    /\ owner_history' = owner_history \cup
          {[who |-> n, owner |-> accounts[n].owner, last_valid_time |-> account_time]}
    /\ replaced' = [replaced EXCEPT !.owners = @ \cup {Replaced(n)}]
    /\ accounts' = [accounts EXCEPT ![n] = after]

account_update(n, o) ==
    LET a == accounts[n]
        given == [a EXCEPT !.active = IF o.active = NoAuth THEN @ ELSE o.active,
                           !.posting = IF o.posting = NoAuth THEN @ ELSE o.posting]
        after == IF o.owner = NoAuth THEN given
                 ELSE [given EXCEPT !.owner = o.owner, !.last_owner_update = account_time]
    IN  /\ Counted
        /\ n \in Existing
        /\ o.owner # NoAuth => Elapsed(a.last_owner_update, OwnerUpdateLimit)
        /\ check_account_existence(o)
        /\ IF o.owner # NoAuth THEN update_owner_authority(n, after)
           ELSE accounts' = [accounts EXCEPT ![n] = after] /\ UNCHANGED <<owner_history, replaced>>
        /\ post_operation(n, after)
        /\ UNCHANGED <<requests, changes, started, account_time>>

\* An update or a recovery of n that is refused leaves the keys of n cached; a recovery
\* with an authority nobody requested always is.
operation_fails(n) ==
    /\ Counted
    /\ started
    /\ n \in Existing
    /\ cached_keys' = pre_operation(n)
    /\ UNCHANGED <<accounts, owner_history, requests, changes, lookup, started, account_time, replaced>>

\* create_account_recovery, asked for by the partner; where there is none the top
\* witness is, who may be anybody.  An open authority takes a request back.
request_account_recovery(partner, n, owner) ==
    LET old == {r \in requests : r.who = n}
    IN  /\ Counted
        /\ n \in Existing /\ partner \in Existing
        /\ accounts[n].recovery_account \in {partner, Nobody}
        /\ owner = OpenAuth => old # {}
        /\ owner # OpenAuth => AccountsIn[owner] \subseteq Existing
        /\ requests' = (requests \ old) \cup
              (IF owner = OpenAuth THEN {}
               ELSE {[who |-> n, owner |-> owner, expires |-> account_time + RequestPeriod]})
        /\ UNCHANGED <<accounts, owner_history, changes, lookup, cached_keys, started,
                       account_time, replaced>>

recover_account(n, owner, recent) ==
    LET after == [accounts[n] EXCEPT !.owner = owner, !.last_owner_update = account_time,
                                     !.last_account_recovery = account_time]
    IN  /\ Counted
        /\ n \in Existing
        /\ owner # recent
        /\ Elapsed(accounts[n].last_account_recovery, OwnerUpdateLimit)
        /\ \E r \in requests : r.who = n /\ r.owner = owner
        /\ \E h \in owner_history : h.who = n /\ h.owner = recent
        /\ requests' = {r \in requests : r.who # n}
        /\ update_owner_authority(n, after)
        /\ post_operation(n, after)
        /\ UNCHANGED <<changes, started, account_time>>

\* A mutant: a request that is changed keeps its date.
NewChangesKeepDate(n, partner) ==
    LET old == {c \in changes : c.who = n}
    IN  (changes \ old) \cup
          IF old = {} THEN {[who |-> n, partner |-> partner, effective_on |-> account_time + RecoveryPeriod]}
          ELSE {[c EXCEPT !.partner = partner] : c \in {d \in old : accounts[n].recovery_account # partner}}

\* A change back to the present partner takes a request back.
NewChanges(n, partner) ==
    LET old == {c \in changes : c.who = n}
    IN  (changes \ old) \cup
          IF old # {} /\ accounts[n].recovery_account = partner THEN {}
          ELSE {[who |-> n, partner |-> partner, effective_on |-> account_time + RecoveryPeriod]}

change_recovery_account(n, partner) ==
    /\ Counted
    /\ n \in Existing /\ partner \in Existing
    /\ changes' = NewChanges(n, partner)
    /\ replaced' = [replaced EXCEPT !.asked = {q \in @ : q.who # n} \cup
                       {[who |-> n, partner |-> partner, at |-> account_time]}]
    /\ UNCHANGED <<accounts, owner_history, requests, lookup, cached_keys, started, account_time>>

(***************************************************************************)
(* account_recovery_processing, at the time of the new block.              *)
(***************************************************************************)
account_recovery_processing ==
    LET now == account_time + 1
        due == {c \in changes : c.effective_on <= now}
        Partner(n) == (CHOOSE c \in due : c.who = n).partner
    IN  /\ account_time < LastAccountTime
        /\ account_time' = now
        /\ requests' = {r \in requests : r.expires > now}
        /\ owner_history' = {h \in owner_history : h.last_valid_time + RecoveryPeriod >= now}
        /\ changes' = changes \ due
        /\ accounts' = [n \in Existing |->
              IF \E c \in due : c.who = n
              THEN [accounts[n] EXCEPT !.recovery_account = Partner(n)] ELSE accounts[n]]
        /\ UNCHANGED <<lookup, cached_keys, started, account_ops, replaced>>

AccountsInit ==
    /\ \E o \in Creations : accounts = [n \in GenesisNames |-> NewAccount(Nobody, o)]
    /\ owner_history = {} /\ requests = {} /\ changes = {}
    /\ lookup = {} /\ cached_keys = {} /\ started = FALSE
    /\ account_time = 1 /\ account_ops = 0
    /\ replaced = [owners |-> {}, asked |-> {}]

AccountsNext ==
    \/ account_recovery_processing
    \/ plugin_startup
    \/ \E n, m \in Names : change_recovery_account(n, m)
    \/ \E n, m \in Names, o \in Creations : account_create(m, n, o)
    \/ \E n \in Names, o \in Updates : account_update(n, o)
    \/ \E n \in Names : operation_fails(n)
    \/ \E n, m \in Names, owner \in Recoveries \cup {OpenAuth} : request_account_recovery(m, n, owner)
    \/ \E n \in Names, owner \in Recoveries, recent \in OwnerAuths : recover_account(n, owner, recent)

AccountsSpec == AccountsInit /\ [][AccountsNext]_recoveryVars

(***************************************************************************)
(* Properties.                                                             *)
(***************************************************************************)
AccountsTypeOK ==
    /\ Existing \subseteq Names
    /\ \A n \in Existing : /\ {accounts[n].owner, accounts[n].active, accounts[n].posting} \subseteq OwnerAuths
                         /\ accounts[n].recovery_account \in Existing \cup {Nobody}
    /\ \A c \in changes, d \in changes : c.who = d.who => c = d
    /\ \A c \in requests, d \in requests : c.who = d.who => c = d

\* An owner authority that was replaced less than the period ago can still be used for
\* recovery, and nobody who took over the account since has changed the partner who
\* has to ask for it, unless the change was on its way already.
RecoveryStaysOpen ==
    \A r \in replaced.owners :
        account_time < r.at + RecoveryPeriod =>
            /\ \E h \in owner_history : h.who = r.who /\ h.owner = r.owner
            /\ r.steady => accounts[r.who].recovery_account = r.partner

\* No authority older than that is accepted, and no request outlives its time.
NothingStale ==
    /\ \A h \in owner_history : h.last_valid_time + RecoveryPeriod >= account_time
    /\ \A r \in requests : r.expires > account_time

\* The plugin finds an account by exactly the keys of its authorities, once it has
\* started; refused operations in between do not matter.
KeysFound ==
    LET exact == {n \in Existing : started \/ n \notin GenesisNames}
    IN  \A n \in exact : {p[1] : p \in {q \in lookup : q[2] = n}} = AllKeys(accounts[n])

\* The partner changes to whom the account asked for last, and not before the period
\* has passed since it did.
PartnerChangesLate ==
    [][\A n \in Existing :
          accounts'[n].recovery_account # accounts[n].recovery_account =>
              [who |-> n, partner |-> accounts'[n].recovery_account,
               at |-> (CHOOSE q \in replaced.asked : q.who = n).at] \in replaced.asked
              /\ \A q \in replaced.asked : q.who = n => account_time' >= q.at + RecoveryPeriod]_recoveryVars

\* Who lost an account to somebody with its keys gets it back through the partner it
\* had before, and the index of keys is that of the accounts.
AccountsSound ==
    [](AccountsTypeOK /\ RecoveryStaysOpen /\ NothingStale /\ KeysFound) /\ PartnerChangesLate
=============================================================================
