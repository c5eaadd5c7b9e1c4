---------------------------- MODULE LedgerProofs ----------------------------
(***************************************************************************)
(* Three parts of the ledger, each for any constants.                      *)
(*                                                                         *)
(* Recovery of accounts and the index of keys: who lost the keys of an     *)
(* account can get it back through the partner of that time as long as the *)
(* period lasts, the partner changes only a period after the account asked *)
(* for it, and the index of keys is that of the accounts.  The invariant   *)
(* ties each change of partner to the last request for it and its date     *)
(* (ChangesAsked), dates every change behind the replacement of an         *)
(* authority that found none on its way (SteadyLasts), and follows the     *)
(* index of keys also for the accounts of genesis before the plugin has    *)
(* started, when it may lack keys but has no foreign ones (KeysRight).     *)
(*                                                                         *)
(* Scorumpower: it is conserved, both ends of a delegation agree, and a    *)
(* withdrawal that has begun can be paid.  The invariant adds that the     *)
(* percents of a holder's routes leave nothing negative (RoutesRight),     *)
(* that nobody who withdraws can lose a bonus (BonusRight) and that an     *)
(* account that is not created yet has nothing (Unborn).  The instalments  *)
(* of a block are a fold over the withdrawals due; what holds of the       *)
(* balances before one holds after it (Held, PaidHeld).                    *)
(*                                                                         *)
(* The registration pool: bonuses follow the schedule, a member is limited *)
(* in any window of blocks, and the pool never exceeds its supply.  The    *)
(* invariant finds the window of a member from its record: what it gave    *)
(* since the window began is what the record counts, and the blocks before *)
(* are those of a window that was limited too (WindowRight); an account    *)
(* has at most one bonus (OneBonus), so that together they cannot give     *)
(* back more than the accounts hold (PoolHeld).  The loop over the         *)
(* schedule is followed item by item (SearchKnows).                        *)
(***************************************************************************)
EXTENDS Accounts, Vesting, Registration, SumTheorems

-----------------------------------------------------------------------------
(***************************************************************************)
(* Accounts: recovery and keys.                                            *)
(***************************************************************************)
Keys == UNION {KeysIn[a] : a \in OwnerAuths}

Account ==
    [owner : OwnerAuths, active : OwnerAuths, posting : OwnerAuths,
     recovery_account : Names \cup {Nobody}, last_owner_update : Nat, last_account_recovery : Nat]

Replacement ==
    [who : Names, owner : OwnerAuths, at : Nat, partner : Names \cup {Nobody}, steady : BOOLEAN]

AccountsTypes ==
    /\ Existing \subseteq Names /\ GenesisNames \subseteq Existing
    /\ accounts \in [Existing -> Account]
    /\ account_time \in Nat
    /\ owner_history \subseteq [who : Names, owner : OwnerAuths, last_valid_time : Nat]
    /\ requests \subseteq [who : Names, owner : OwnerAuths, expires : Nat]
    /\ changes \subseteq [who : Names, partner : Names, effective_on : Nat]
    /\ lookup \subseteq Keys \X Names
    /\ replaced \in [owners : SUBSET Replacement, asked : SUBSET [who : Names, partner : Names, at : Nat]]

PartnersExist ==
    /\ \A n \in Existing : accounts[n].recovery_account \in Existing \cup {Nobody}
    /\ \A c \in changes : c.who \in Existing /\ c.partner \in Existing

OneEach ==
    /\ \A c, d \in changes : c.who = d.who => c = d
    /\ \A c, d \in requests : c.who = d.who => c = d

\* A change on its way is what the account asked for last, a period later.
ChangesAsked ==
    /\ \A p, q \in replaced.asked : p.who = q.who => p = q
    /\ \A c \in changes : \E q \in replaced.asked :
          q.who = c.who /\ q.partner = c.partner /\ c.effective_on = q.at + RecoveryPeriod

\* The entry of a replaced authority stays, and the partner with it, since every change
\* on its way is younger.
SteadyLasts ==
    /\ \A r \in replaced.owners :
          /\ r.who \in Existing /\ r.at <= account_time
          /\ account_time < r.at + RecoveryPeriod =>
                [who |-> r.who, owner |-> r.owner, last_valid_time |-> r.at] \in owner_history
          /\ r.steady /\ account_time < r.at + RecoveryPeriod =>
                /\ accounts[r.who].recovery_account = r.partner
                /\ \A c \in changes : c.who = r.who => c.effective_on >= r.at + RecoveryPeriod

LookupOf(n) == {k \in Keys : <<k, n>> \in lookup}

KeysRight ==
    /\ \A n \in Existing : /\ LookupOf(n) \subseteq AllKeys(accounts[n])
                           /\ started \/ n \notin GenesisNames => LookupOf(n) = AllKeys(accounts[n])
    /\ \A n \in Names \ Existing : LookupOf(n) = {}

AccountsInv ==
    /\ AccountsTypes /\ PartnersExist /\ OneEach /\ ChangesAsked /\ SteadyLasts
    /\ NothingStale /\ KeysRight

----------------------------------------------------------------------------
(* The shape of what operations do to the accounts. *)

LEMMA KeysOfAccount == ASSUME NEW a \in Account PROVE AllKeys(a) \subseteq Keys
  BY AccountsAssumption DEF AllKeys, Keys, Account

LEMMA NewAccountType ==
  ASSUME NEW creator \in Names \cup {Nobody}, NEW o \in Creations
  PROVE  NewAccount(creator, o) \in Account /\ NewAccount(creator, o).recovery_account = creator
  BY AccountsAssumption DEF NewAccount, Account, MinTime

LEMMA UpdatedAccount ==
  ASSUME AccountsTypes, NEW n \in Names, NEW o \in Updates, account_update(n, o)
  PROVE  \E after \in Account :
            /\ n \in Existing
            /\ after.recovery_account = accounts[n].recovery_account
            /\ accounts' = [accounts EXCEPT ![n] = after]
            /\ post_operation(n, after)
            /\ \/ update_owner_authority(n, after)
               \/ UNCHANGED <<owner_history, replaced>>
            /\ UNCHANGED <<requests, changes, started, account_time>>
  <1> DEFINE a == accounts[n]
             given == [a EXCEPT !.active = IF o.active = NoAuth THEN @ ELSE o.active,
                                !.posting = IF o.posting = NoAuth THEN @ ELSE o.posting]
             after == IF o.owner = NoAuth THEN given
                      ELSE [given EXCEPT !.owner = o.owner, !.last_owner_update = account_time]
  <1>1. n \in Existing /\ a \in Account
    BY DEF account_update, AccountsTypes
  <1>2. o \in [owner : OwnerAuths \cup {NoAuth}, active : OwnerAuths \cup {NoAuth},
               posting : OwnerAuths \cup {NoAuth}]
    BY AccountsAssumption
  <1>3. given \in Account /\ given.recovery_account = a.recovery_account
    BY <1>1, <1>2 DEF Account
  <1>4. after \in Account /\ after.recovery_account = a.recovery_account
    BY <1>2, <1>3 DEF Account, AccountsTypes
  <1>5. /\ accounts' = [accounts EXCEPT ![n] = after]
        /\ post_operation(n, after)
        /\ update_owner_authority(n, after) \/ UNCHANGED <<owner_history, replaced>>
        /\ UNCHANGED <<requests, changes, started, account_time>>
    BY DEF account_update, update_owner_authority
  <1> HIDE DEF after, given
  <1> QED BY <1>1, <1>4, <1>5

LEMMA RecoveredAccount ==
  ASSUME AccountsTypes, NEW n \in Names, NEW owner \in Recoveries, NEW recent, recover_account(n, owner, recent)
  PROVE  \E after \in Account :
            /\ n \in Existing
            /\ after.recovery_account = accounts[n].recovery_account
            /\ accounts' = [accounts EXCEPT ![n] = after]
            /\ post_operation(n, after)
            /\ update_owner_authority(n, after)
  <1> DEFINE after == [accounts[n] EXCEPT !.owner = owner, !.last_owner_update = account_time,
                                          !.last_account_recovery = account_time]
  <1>1. n \in Existing /\ accounts[n] \in Account /\ owner \in OwnerAuths
    BY AccountsAssumption DEF recover_account, AccountsTypes
  <1>2. after \in Account /\ after.recovery_account = accounts[n].recovery_account
    BY <1>1 DEF Account, AccountsTypes
  <1>3. /\ accounts' = [accounts EXCEPT ![n] = after]
        /\ post_operation(n, after)
        /\ update_owner_authority(n, after)
    BY DEF recover_account, update_owner_authority
  <1> HIDE DEF after
  <1> QED BY <1>1, <1>2, <1>3

----------------------------------------------------------------------------
(* The index of keys. *)

\* What update_key_lookup leaves for the account and for others.
LEMMA LookupUpdated ==
  ASSUME NEW pairs \in SUBSET (Keys \X Names), NEW cached \in SUBSET Keys, NEW n \in Names,
         NEW keys \in SUBSET Keys
  PROVE  LET after == update_key_lookup(pairs, cached, n, keys)
         IN  /\ after \subseteq Keys \X Names
             /\ \A k \in Keys : <<k, n>> \in after <=>
                   (<<k, n>> \in pairs \/ k \in keys \ cached) /\ k \notin cached \ keys
             /\ \A k \in Keys, m \in Names : m # n => (<<k, m>> \in after <=> <<k, m>> \in pairs)
  BY DEF update_key_lookup

----------------------------------------------------------------------------
(* The steps. *)

LEMMA InitInv == AccountsInit => AccountsInv
  <1> SUFFICES ASSUME AccountsInit PROVE AccountsInv
    OBVIOUS
  <1>1. PICK o \in Creations : accounts = [n \in GenesisNames |-> NewAccount(Nobody, o)]
    BY DEF AccountsInit
  <1>2. Existing = GenesisNames /\ \A n \in Existing : accounts[n] = NewAccount(Nobody, o)
    BY <1>1 DEF Existing
  <1>3. NewAccount(Nobody, o) \in Account /\ NewAccount(Nobody, o).recovery_account = Nobody
    BY NewAccountType
  <1>4. AccountsTypes
    BY <1>1, <1>2, <1>3, AccountsAssumption DEF AccountsInit, AccountsTypes
  <1>5. PartnersExist /\ OneEach /\ ChangesAsked /\ SteadyLasts /\ NothingStale
    BY <1>2, <1>3 DEF AccountsInit, PartnersExist, OneEach, ChangesAsked, SteadyLasts, NothingStale
  <1>6. KeysRight
    BY <1>2 DEF AccountsInit, KeysRight, LookupOf
  <1> QED BY <1>4, <1>5, <1>6 DEF AccountsInv

\* An account is given other authorities, by an update or by a recovery.
LEMMA GivenInv ==
  ASSUME AccountsInv, NEW n \in Existing, NEW after \in Account,
         after.recovery_account = accounts[n].recovery_account,
         accounts' = [accounts EXCEPT ![n] = after],
         post_operation(n, after),
         update_owner_authority(n, after) \/ UNCHANGED <<owner_history, replaced>>,
         requests' \subseteq requests, UNCHANGED <<changes, started, account_time>>
  PROVE  AccountsInv'
  <1>t. AccountsTypes /\ PartnersExist /\ OneEach /\ ChangesAsked /\ SteadyLasts /\ NothingStale /\ KeysRight
    BY DEF AccountsInv
  <1>1. /\ Existing' = Existing /\ n \in Names
        /\ \A m \in Existing : accounts'[m] = IF m = n THEN after ELSE accounts[m]
        /\ \A m \in Existing : accounts'[m].recovery_account = accounts[m].recovery_account
    BY <1>t DEF AccountsTypes, Existing
  <1>2. accounts[n] \in Account /\ pre_operation(n) = AllKeys(accounts[n])
    BY <1>t DEF AccountsTypes, pre_operation
  <1>3. AllKeys(accounts[n]) \in SUBSET Keys /\ AllKeys(after) \in SUBSET Keys
    BY <1>2, KeysOfAccount
  <1>4. /\ lookup' \subseteq Keys \X Names
        /\ \A k \in Keys : <<k, n>> \in lookup' <=>
              /\ <<k, n>> \in lookup \/ k \in AllKeys(after) \ AllKeys(accounts[n])
              /\ k \notin AllKeys(accounts[n]) \ AllKeys(after)
        /\ \A k \in Keys, m \in Names : m # n => (<<k, m>> \in lookup' <=> <<k, m>> \in lookup)
    <2>1. lookup \in SUBSET (Keys \X Names)
      BY <1>t DEF AccountsTypes
    <2>2. lookup' = update_key_lookup(lookup, AllKeys(accounts[n]), n, AllKeys(after))
      BY <1>2 DEF post_operation
    <2> HIDE DEF AllKeys
    <2> QED BY <2>1, <2>2, <1>1, <1>3, LookupUpdated
  <1>5. accounts' \in [Existing' -> Account]
    BY <1>1, <1>t DEF AccountsTypes, Existing
  <1>6. KeysRight'
    <2>1. \A m \in Names : m # n => LookupOf(m)' = LookupOf(m)
      BY <1>4 DEF LookupOf
    <2>2. LookupOf(n) \subseteq AllKeys(accounts[n]) /\ LookupOf(n)' \subseteq AllKeys(after)
      BY <1>4, <1>t DEF LookupOf, KeysRight
    <2>3. LookupOf(n) = AllKeys(accounts[n]) => LookupOf(n)' = AllKeys(after)
      BY <1>3, <1>4 DEF LookupOf
    <2>4. AllKeys(accounts[n])' = AllKeys(after) /\ \A m \in Existing : m # n => AllKeys(accounts[m])' = AllKeys(accounts[m])
      BY <1>1 DEF AllKeys
    <2>5. Existing \subseteq Names
      BY <1>t DEF AccountsTypes
    <2> HIDE DEF AllKeys
    <2> QED BY <2>1, <2>2, <2>3, <2>4, <2>5, <1>1, <1>t DEF KeysRight
  <1>7. CASE UNCHANGED <<owner_history, replaced>>
    <2>1. AccountsTypes'
      BY <1>1, <1>4, <1>5, <1>7, <1>t DEF AccountsTypes
    <2>2. PartnersExist' /\ OneEach' /\ ChangesAsked' /\ NothingStale'
      BY <1>1, <1>7, <1>t DEF PartnersExist, OneEach, ChangesAsked, NothingStale
    <2>3. SteadyLasts'
      BY <1>1, <1>7, <1>t DEF SteadyLasts
    <2> QED BY <2>1, <2>2, <2>3, <1>6 DEF AccountsInv
  <1>8. CASE update_owner_authority(n, after)
    <2> DEFINE h == [who |-> n, owner |-> accounts[n].owner, last_valid_time |-> account_time]
               x == Replaced(n)
    <2>1. /\ owner_history' = owner_history \cup {h}
          /\ h \in [who : Names, owner : OwnerAuths, last_valid_time : Nat]
      BY <1>8, <1>1, <1>2, <1>t DEF update_owner_authority, Account, AccountsTypes
    <2>6. replaced' = [replaced EXCEPT !.owners = @ \cup {x}]
      BY <1>8 DEF update_owner_authority
    <2>x. /\ x.who = n /\ x.owner = accounts[n].owner /\ x.at = account_time
          /\ x.partner = accounts[n].recovery_account
          /\ x.steady <=> \A c \in changes : c.who # n
          /\ x \in Replacement
      BY <1>1, <1>2, <1>t DEF Replaced, Replacement, Account, AccountsTypes
    <2> HIDE DEF x
    <2>y. /\ replaced'.asked = replaced.asked /\ replaced'.owners = replaced.owners \cup {x}
          /\ replaced' \in [owners : SUBSET Replacement, asked : SUBSET [who : Names, partner : Names, at : Nat]]
      BY <2>6, <2>x, <1>t DEF AccountsTypes
    <2>2. AccountsTypes'
      BY <1>1, <1>4, <1>5, <2>1, <2>y, <1>t DEF AccountsTypes
    <2>3. PartnersExist' /\ OneEach'
      BY <1>1, <1>t DEF PartnersExist, OneEach
    <2>4. NothingStale'
      BY <2>1, <1>t, AccountsAssumption DEF NothingStale, AccountsTypes
    <2>5. ChangesAsked'
      BY <2>y, <1>t DEF ChangesAsked
    <2>7. SteadyLasts'
      <3> SUFFICES ASSUME NEW r \in replaced'.owners
                   PROVE  /\ r.who \in Existing' /\ r.at <= account_time'
                          /\ account_time' < r.at + RecoveryPeriod =>
                                [who |-> r.who, owner |-> r.owner, last_valid_time |-> r.at] \in owner_history'
                          /\ r.steady /\ account_time' < r.at + RecoveryPeriod =>
                                /\ accounts'[r.who].recovery_account = r.partner
                                /\ \A c \in changes' : c.who = r.who => c.effective_on >= r.at + RecoveryPeriod
        BY DEF SteadyLasts
      <3>1. CASE r \in replaced.owners
        BY <3>1, <2>1, <1>1, <1>t DEF SteadyLasts
      <3>2. CASE r = x
        BY <3>2, <2>x, <2>1, <1>1, <1>t DEF AccountsTypes
      <3> QED BY <3>1, <3>2, <2>y
    <2> QED BY <2>2, <2>3, <2>4, <2>5, <2>7, <1>6 DEF AccountsInv
  <1> QED BY <1>7, <1>8

LEMMA CreateInv ==
  ASSUME AccountsInv, NEW n \in Names, NEW creator \in Names, NEW o \in Creations,
         account_create(creator, n, o)
  PROVE  AccountsInv'
  <1>t. AccountsTypes /\ PartnersExist /\ OneEach /\ ChangesAsked /\ SteadyLasts /\ NothingStale /\ KeysRight
    BY DEF AccountsInv
  <1> DEFINE new == NewAccount(creator, o)
  <1>n. new \in Account /\ new.recovery_account = creator
    BY NewAccountType
  <1> HIDE DEF new
  <1>1. /\ n \notin Existing /\ creator \in Existing
        /\ accounts' = [m \in Existing \cup {n} |-> IF m = n THEN new ELSE accounts[m]]
        /\ lookup' = update_key_lookup(lookup, {}, n, AllKeys(new))
        /\ UNCHANGED <<owner_history, requests, changes, started, account_time, replaced>>
    BY DEF account_create, new, pre_creation
  <1>2. /\ Existing' = Existing \cup {n} /\ accounts'[n] = new
        /\ \A m \in Existing : accounts'[m] = accounts[m]
    BY <1>1 DEF Existing
  <1>3. AllKeys(new) \in SUBSET Keys
    BY <1>n, KeysOfAccount
  <1>4. /\ lookup' \subseteq Keys \X Names
        /\ \A k \in Keys : <<k, n>> \in lookup' <=> <<k, n>> \in lookup \/ k \in AllKeys(new)
        /\ \A k \in Keys, m \in Names : m # n => (<<k, m>> \in lookup' <=> <<k, m>> \in lookup)
    <2>1. lookup \in SUBSET (Keys \X Names) /\ {} \in SUBSET Keys
      BY <1>t DEF AccountsTypes
    <2> QED BY <2>1, <1>1, <1>3, LookupUpdated
  <1>5. AccountsTypes'
    BY <1>n, <1>1, <1>2, <1>4, <1>t DEF AccountsTypes
  <1>6. PartnersExist' /\ OneEach' /\ ChangesAsked' /\ NothingStale'
    BY <1>n, <1>1, <1>2, <1>t DEF PartnersExist, OneEach, ChangesAsked, NothingStale
  <1>7. SteadyLasts'
    BY <1>1, <1>2, <1>t DEF SteadyLasts
  <1>8. KeysRight'
    <2>1. \A m \in Names : m # n => LookupOf(m)' = LookupOf(m)
      BY <1>4 DEF LookupOf
    <2>2. LookupOf(n)' = AllKeys(new)
      BY <1>1, <1>3, <1>4, <1>t DEF LookupOf, KeysRight
    <2>3. AllKeys(accounts[n])' = AllKeys(new) /\ \A m \in Existing : AllKeys(accounts[m])' = AllKeys(accounts[m])
      BY <1>2 DEF AllKeys
    <2>4. Existing \subseteq Names /\ n \notin Existing
      BY <1>1, <1>t DEF AccountsTypes
    <2> QED BY <2>1, <2>2, <2>3, <2>4, <1>1, <1>2, <1>t DEF KeysRight
  <1> QED BY <1>5, <1>6, <1>7, <1>8 DEF AccountsInv

LEMMA StartupInv == AccountsInv /\ plugin_startup => AccountsInv'
  <1> SUFFICES ASSUME AccountsInv, plugin_startup PROVE AccountsInv'
    OBVIOUS
  <1>t. AccountsTypes /\ PartnersExist /\ OneEach /\ ChangesAsked /\ SteadyLasts /\ NothingStale /\ KeysRight
    BY DEF AccountsInv
  <1>1. /\ lookup' = lookup \cup UNION {AllKeys(accounts[n]) \X {n} : n \in GenesisNames}
        /\ started' = TRUE
        /\ UNCHANGED <<accounts, owner_history, requests, changes, account_time, replaced>>
    BY DEF plugin_startup
  <1>2. Existing' = Existing
    BY <1>1 DEF Existing
  <1>3. \A n \in Existing : AllKeys(accounts[n]) \subseteq Keys
    BY <1>t, KeysOfAccount DEF AccountsTypes
  <1>4. /\ lookup' \subseteq Keys \X Names
        /\ \A n \in Names : LookupOf(n)' = IF n \in GenesisNames THEN LookupOf(n) \cup AllKeys(accounts[n]) ELSE LookupOf(n)
    <2>1. GenesisNames \subseteq Existing /\ Existing \subseteq Names /\ lookup \subseteq Keys \X Names
      BY <1>t DEF AccountsTypes
    <2> QED BY <1>1, <1>3, <2>1 DEF LookupOf
  <1>5. AccountsTypes'
    BY <1>1, <1>2, <1>4, <1>t DEF AccountsTypes
  <1>6. PartnersExist' /\ OneEach' /\ ChangesAsked' /\ NothingStale' /\ SteadyLasts'
    BY <1>1, <1>2, <1>t DEF PartnersExist, OneEach, ChangesAsked, NothingStale, SteadyLasts
  <1>7. KeysRight'
    <2>1. \A n \in Existing : AllKeys(accounts[n])' = AllKeys(accounts[n])
      BY <1>1 DEF AllKeys
    <2>2. GenesisNames \subseteq Existing /\ Existing \subseteq Names
      BY <1>t DEF AccountsTypes
    <2> QED BY <2>1, <2>2, <1>1, <1>2, <1>4, <1>t DEF KeysRight
  <1> QED BY <1>5, <1>6, <1>7 DEF AccountsInv

LEMMA FailsInv == ASSUME AccountsInv, NEW n, operation_fails(n) PROVE AccountsInv'
  BY DEF operation_fails, AccountsInv, AccountsTypes, PartnersExist, OneEach, ChangesAsked,
         SteadyLasts, NothingStale, KeysRight, LookupOf, AllKeys, Existing

LEMMA RequestInv ==
  ASSUME AccountsInv, NEW n \in Names, NEW partner \in Names, NEW owner \in Recoveries \cup {OpenAuth},
         request_account_recovery(partner, n, owner)
  PROVE  AccountsInv'
  <1>t. AccountsTypes /\ PartnersExist /\ OneEach /\ ChangesAsked /\ SteadyLasts /\ NothingStale /\ KeysRight
    BY DEF AccountsInv
  <1>1. UNCHANGED <<accounts, owner_history, changes, lookup, started, account_time, replaced>>
    BY DEF request_account_recovery
  <1>2. /\ Existing' = Existing /\ PartnersExist' /\ ChangesAsked' /\ SteadyLasts' /\ KeysRight'
    BY <1>1, <1>t DEF PartnersExist, ChangesAsked, SteadyLasts, KeysRight, LookupOf, AllKeys, Existing
  <1>3. account_time + RequestPeriod \in Nat /\ account_time + RequestPeriod > account_time
    BY <1>t, AccountsAssumption DEF AccountsTypes
  <1>4. \A r \in requests' : \/ r \in requests /\ r.who # n
                             \/ owner \in OwnerAuths /\ r = [who |-> n, owner |-> owner, expires |-> account_time + RequestPeriod]
    BY AccountsAssumption DEF request_account_recovery
  <1>5. requests' \subseteq [who : Names, owner : OwnerAuths, expires : Nat]
    BY <1>3, <1>4, <1>t DEF AccountsTypes
  <1>6. AccountsTypes'
    BY <1>1, <1>2, <1>5, <1>t DEF AccountsTypes
  <1>7. OneEach'
    BY <1>1, <1>4, <1>t DEF OneEach
  <1>8. NothingStale'
    BY <1>1, <1>3, <1>4, <1>t DEF NothingStale
  <1> QED BY <1>2, <1>6, <1>7, <1>8 DEF AccountsInv

LEMMA ChangeInv ==
  ASSUME AccountsInv, NEW n \in Names, NEW partner \in Names, change_recovery_account(n, partner)
  PROVE  AccountsInv'
  <1>t. AccountsTypes /\ PartnersExist /\ OneEach /\ ChangesAsked /\ SteadyLasts /\ NothingStale /\ KeysRight
    BY DEF AccountsInv
  <1> DEFINE q0 == [who |-> n, partner |-> partner, at |-> account_time]
             c0 == [who |-> n, partner |-> partner, effective_on |-> account_time + RecoveryPeriod]
  <1>1. /\ UNCHANGED <<accounts, owner_history, requests, lookup, started, account_time>>
        /\ n \in Existing /\ partner \in Existing
    BY DEF change_recovery_account
  <1>2. /\ Existing' = Existing /\ NothingStale' /\ KeysRight'
    BY <1>1, <1>t DEF NothingStale, KeysRight, LookupOf, AllKeys, Existing
  <1>3. \A c \in changes' : (c \in changes /\ c.who # n) \/ c = c0
    BY DEF change_recovery_account, NewChanges
  <1>4. /\ c0 \in [who : Names, partner : Names, effective_on : Nat]
        /\ q0 \in [who : Names, partner : Names, at : Nat]
        /\ account_time \in Nat /\ RecoveryPeriod \in Nat
    BY <1>t, AccountsAssumption DEF AccountsTypes
  <1>5. /\ replaced' = [replaced EXCEPT !.asked = {q \in @ : q.who # n} \cup {q0}]
    BY DEF change_recovery_account
  <1>6. /\ replaced'.owners = replaced.owners
        /\ replaced'.asked = {q \in replaced.asked : q.who # n} \cup {q0}
        /\ replaced' \in [owners : SUBSET Replacement, asked : SUBSET [who : Names, partner : Names, at : Nat]]
    BY <1>4, <1>5, <1>t DEF AccountsTypes
  <1>7. AccountsTypes'
    BY <1>1, <1>2, <1>3, <1>4, <1>6, <1>t DEF AccountsTypes
  <1>8. PartnersExist' /\ OneEach'
    BY <1>1, <1>2, <1>3, <1>t DEF PartnersExist, OneEach
  <1>9. ChangesAsked'
    <2>1. \A p, q \in replaced'.asked : p.who = q.who => p = q
      BY <1>6, <1>t DEF ChangesAsked
    <2>2. ASSUME NEW c \in changes'
          PROVE  \E q \in replaced'.asked :
                    q.who = c.who /\ q.partner = c.partner /\ c.effective_on = q.at + RecoveryPeriod
      <3>1. CASE c \in changes /\ c.who # n
        BY <3>1, <1>6, <1>t DEF ChangesAsked
      <3>2. CASE c = c0
        <4>1. q0 \in replaced'.asked
          BY <1>6
        <4>2. q0.who = c.who /\ q0.partner = c.partner /\ c.effective_on = q0.at + RecoveryPeriod
          BY <3>2
        <4> HIDE DEF q0
        <4> QED BY <4>1, <4>2
      <3> QED BY <3>1, <3>2, <1>3
    <2> QED BY <2>1, <2>2 DEF ChangesAsked
  <1>10. SteadyLasts'
    <2> SUFFICES ASSUME NEW r \in replaced.owners, r.steady, account_time < r.at + RecoveryPeriod,
                        NEW c \in changes', c.who = r.who
                 PROVE  c.effective_on >= r.at + RecoveryPeriod
      BY <1>1, <1>2, <1>6, <1>t DEF SteadyLasts
    <2>1. CASE c \in changes
      BY <2>1, <1>t DEF SteadyLasts
    <2>2. CASE c = c0
      <3>1. r.at \in Nat /\ r.at <= account_time
        BY <1>t DEF SteadyLasts, AccountsTypes, Replacement
      <3> QED BY <2>2, <3>1, <1>4
    <2> QED BY <2>1, <2>2, <1>3
  <1> QED BY <1>2, <1>7, <1>8, <1>9, <1>10 DEF AccountsInv

----------------------------------------------------------------------------
(* The tasks of a block. *)

\* What account_recovery_processing does, and which requests are behind it.
LEMMA DuePartners ==
  ASSUME AccountsInv, account_recovery_processing
  PROVE  /\ account_time' = account_time + 1
         /\ Existing' = Existing
         /\ requests' = {r \in requests : r.expires > account_time'}
         /\ owner_history' = {h \in owner_history : h.last_valid_time + RecoveryPeriod >= account_time'}
         /\ changes' = {c \in changes : ~ (c.effective_on <= account_time')}
         /\ UNCHANGED <<lookup, started, replaced>>
         /\ \A n \in Existing :
               \/ accounts'[n] = accounts[n] /\ \A c \in changes : c.who = n => ~ (c.effective_on <= account_time')
               \/ \E c \in changes : /\ c.who = n /\ c.effective_on <= account_time'
                                     /\ accounts'[n] = [accounts[n] EXCEPT !.recovery_account = c.partner]
  <1> DEFINE today == account_time + 1
             due == {c \in changes : c.effective_on <= today}
             Partner(n) == (CHOOSE c \in due : c.who = n).partner
  <1>1. /\ account_time' = today
        /\ requests' = {r \in requests : r.expires > today}
        /\ owner_history' = {h \in owner_history : h.last_valid_time + RecoveryPeriod >= today}
        /\ changes' = changes \ due
        /\ accounts' = [n \in Existing |->
              IF \E c \in due : c.who = n
              THEN [accounts[n] EXCEPT !.recovery_account = Partner(n)] ELSE accounts[n]]
        /\ UNCHANGED <<lookup, started, replaced>>
    BY DEF account_recovery_processing
  <1>2. Existing' = Existing
    BY <1>1 DEF Existing
  <1>3. ASSUME NEW n \in Existing
        PROVE  \/ accounts'[n] = accounts[n] /\ \A c \in changes : c.who = n => ~ (c.effective_on <= account_time')
               \/ \E c \in changes : /\ c.who = n /\ c.effective_on <= account_time'
                                     /\ accounts'[n] = [accounts[n] EXCEPT !.recovery_account = c.partner]
    <2>1. CASE \E c \in due : c.who = n
      <3> DEFINE c == CHOOSE c \in due : c.who = n
      <3>1. c \in due /\ c.who = n
        BY <2>1
      <3>2. accounts'[n] = [accounts[n] EXCEPT !.recovery_account = c.partner]
        BY <1>1, <2>1
      <3> HIDE DEF c
      <3> QED BY <3>1, <3>2, <1>1
    <2>2. CASE ~ \E c \in due : c.who = n
      BY <1>1, <2>2
    <2> QED BY <2>1, <2>2
  <1> QED BY <1>1, <1>2, <1>3

LEMMA ProcessingInv ==
  ASSUME AccountsInv, account_recovery_processing
  PROVE  AccountsInv'
  <1>t. AccountsTypes /\ PartnersExist /\ OneEach /\ ChangesAsked /\ SteadyLasts /\ NothingStale /\ KeysRight
    BY DEF AccountsInv
  <1>1. /\ account_time' = account_time + 1 /\ account_time \in Nat /\ RecoveryPeriod \in Nat
        /\ Existing' = Existing /\ Existing \subseteq Names
        /\ UNCHANGED <<lookup, started, replaced>>
    BY DuePartners, <1>t, AccountsAssumption DEF AccountsTypes
  <1>2. /\ requests' \subseteq requests /\ owner_history' \subseteq owner_history /\ changes' \subseteq changes
        /\ \A r \in requests' : r.expires > account_time'
        /\ \A h \in owner_history' : h.last_valid_time + RecoveryPeriod >= account_time'
        /\ \A h \in owner_history : h.last_valid_time + RecoveryPeriod >= account_time' => h \in owner_history'
    BY DuePartners
  <1>3. \A n \in Existing :
           \/ accounts'[n] = accounts[n]
           \/ \E c \in changes : /\ c.who = n /\ c.effective_on <= account_time'
                                 /\ accounts'[n] = [accounts[n] EXCEPT !.recovery_account = c.partner]
    BY DuePartners
  <1>4. ASSUME NEW n \in Existing
        PROVE  /\ accounts'[n] \in Account
               /\ accounts'[n].recovery_account \in Existing \cup {Nobody}
               /\ AllKeys(accounts'[n]) = AllKeys(accounts[n])
    <2>1. accounts[n] \in Account /\ accounts[n].recovery_account \in Existing \cup {Nobody}
      BY <1>t DEF AccountsTypes, PartnersExist
    <2>2. CASE accounts'[n] = accounts[n]
      BY <2>1, <2>2
    <2>3. ASSUME NEW c \in changes, accounts'[n] = [accounts[n] EXCEPT !.recovery_account = c.partner]
          PROVE  /\ accounts'[n] \in Account
                 /\ accounts'[n].recovery_account \in Existing \cup {Nobody}
                 /\ AllKeys(accounts'[n]) = AllKeys(accounts[n])
      <3>1. c.partner \in Existing /\ c.partner \in Names
        BY <1>t DEF PartnersExist, AccountsTypes
      <3> QED BY <2>1, <2>3, <3>1 DEF Account, AllKeys
    <2> QED BY <2>2, <2>3, <1>3
  <1>5. accounts' \in [Existing' -> Account]
    BY <1>1, <1>4 DEF Existing, account_recovery_processing
  <1>6. AccountsTypes'
    BY <1>1, <1>2, <1>5, <1>t DEF AccountsTypes
  <1>7. PartnersExist' /\ OneEach' /\ ChangesAsked' /\ NothingStale'
    BY <1>1, <1>2, <1>4, <1>t DEF PartnersExist, OneEach, ChangesAsked, NothingStale
  <1>8. SteadyLasts'
    <2> SUFFICES ASSUME NEW r \in replaced.owners
                 PROVE  /\ r.who \in Existing /\ r.at <= account_time'
                        /\ account_time' < r.at + RecoveryPeriod =>
                              [who |-> r.who, owner |-> r.owner, last_valid_time |-> r.at] \in owner_history'
                        /\ r.steady /\ account_time' < r.at + RecoveryPeriod =>
                              /\ accounts'[r.who].recovery_account = r.partner
                              /\ \A c \in changes' : c.who = r.who => c.effective_on >= r.at + RecoveryPeriod
      BY <1>1 DEF SteadyLasts
    <2>1. r.who \in Existing /\ r.at \in Nat /\ r.at <= account_time
      BY <1>t DEF SteadyLasts, AccountsTypes, Replacement
    <2>2. ASSUME account_time' < r.at + RecoveryPeriod
          PROVE  [who |-> r.who, owner |-> r.owner, last_valid_time |-> r.at] \in owner_history'
      <3>1. [who |-> r.who, owner |-> r.owner, last_valid_time |-> r.at] \in owner_history
        BY <1>1, <2>1, <2>2, <1>t DEF SteadyLasts
      <3> QED BY <3>1, <1>1, <1>2, <2>1, <2>2
    <2>3. ASSUME r.steady, account_time' < r.at + RecoveryPeriod
          PROVE  /\ accounts'[r.who].recovery_account = r.partner
                 /\ \A c \in changes' : c.who = r.who => c.effective_on >= r.at + RecoveryPeriod
      <3>1. /\ accounts[r.who].recovery_account = r.partner
            /\ \A c \in changes : c.who = r.who => c.effective_on >= r.at + RecoveryPeriod
        <4>1. account_time < r.at + RecoveryPeriod
          BY <1>1, <2>1, <2>3
        <4> QED BY <4>1, <2>3, <1>t DEF SteadyLasts
      <3>2. \A c \in changes : c.effective_on \in Nat
        BY <1>t DEF AccountsTypes
      <3>3. \A c \in changes : c.who = r.who => ~ (c.effective_on <= account_time')
        BY <3>1, <3>2, <1>1, <2>1, <2>3
      <3>4. accounts'[r.who] = accounts[r.who]
        BY <3>3, <1>3, <2>1
      <3> QED BY <3>1, <3>4, <1>2
    <2> QED BY <2>1, <2>2, <2>3, <1>1
  <1>9. KeysRight'
    <2>1. \A n \in Existing : AllKeys(accounts[n])' = AllKeys(accounts[n])
      BY <1>4 DEF AllKeys
    <2>2. \A n \in Names : LookupOf(n)' = LookupOf(n)
      BY <1>1 DEF LookupOf
    <2> QED BY <2>1, <2>2, <1>1, <1>t DEF KeysRight
  <1> QED BY <1>6, <1>7, <1>8, <1>9 DEF AccountsInv

----------------------------------------------------------------------------
(* All steps, and what the invariant says. *)

LEMMA NextInv == AccountsInv /\ [AccountsNext]_recoveryVars => AccountsInv'
  <1> SUFFICES ASSUME AccountsInv, [AccountsNext]_recoveryVars PROVE AccountsInv'
    OBVIOUS
  <1>t. AccountsTypes
    BY DEF AccountsInv
  <1>1. CASE account_recovery_processing
    BY <1>1, ProcessingInv
  <1>2. CASE plugin_startup
    BY <1>2, StartupInv
  <1>3. ASSUME NEW n \in Names, NEW m \in Names, change_recovery_account(n, m)
        PROVE  AccountsInv'
    BY <1>3, ChangeInv
  <1>4. ASSUME NEW n \in Names, NEW m \in Names, NEW o \in Creations, account_create(m, n, o)
        PROVE  AccountsInv'
    BY <1>4, CreateInv
  <1>5. ASSUME NEW n \in Names, NEW o \in Updates, account_update(n, o)
        PROVE  AccountsInv'
    BY <1>5, <1>t, UpdatedAccount, GivenInv
  <1>6. ASSUME NEW n \in Names, operation_fails(n)
        PROVE  AccountsInv'
    BY <1>6, FailsInv
  <1>7. ASSUME NEW n \in Names, NEW m \in Names, NEW owner \in Recoveries \cup {OpenAuth},
               request_account_recovery(m, n, owner)
        PROVE  AccountsInv'
    BY <1>7, RequestInv
  <1>8. ASSUME NEW n \in Names, NEW owner \in Recoveries, NEW recent \in OwnerAuths,
               recover_account(n, owner, recent)
        PROVE  AccountsInv'
    <2>1. requests' \subseteq requests /\ UNCHANGED <<changes, started, account_time>>
      BY <1>8 DEF recover_account
    <2> QED BY <1>8, <1>t, <2>1, RecoveredAccount, GivenInv
  <1>9. CASE UNCHANGED recoveryVars
    BY <1>9 DEF recoveryVars, AccountsInv, AccountsTypes, PartnersExist, OneEach, ChangesAsked,
                SteadyLasts, NothingStale, KeysRight, LookupOf, AllKeys, Existing
  <1> QED BY <1>1, <1>2, <1>3, <1>4, <1>5, <1>6, <1>7, <1>8, <1>9 DEF AccountsNext

LEMMA InvSound == AccountsInv => AccountsTypeOK /\ RecoveryStaysOpen /\ NothingStale /\ KeysFound
  <1> SUFFICES ASSUME AccountsInv PROVE AccountsTypeOK /\ RecoveryStaysOpen /\ NothingStale /\ KeysFound
    OBVIOUS
  <1>t. AccountsTypes /\ PartnersExist /\ OneEach /\ ChangesAsked /\ SteadyLasts /\ NothingStale /\ KeysRight
    BY DEF AccountsInv
  <1>1. AccountsTypeOK
    BY <1>t DEF AccountsTypeOK, AccountsTypes, Account, PartnersExist, OneEach
  <1>2. RecoveryStaysOpen
    <2> SUFFICES ASSUME NEW r \in replaced.owners, account_time < r.at + RecoveryPeriod
                 PROVE  /\ \E h \in owner_history : h.who = r.who /\ h.owner = r.owner
                        /\ r.steady => accounts[r.who].recovery_account = r.partner
      BY DEF RecoveryStaysOpen
    <2> DEFINE h == [who |-> r.who, owner |-> r.owner, last_valid_time |-> r.at]
    <2>1. h \in owner_history /\ h.who = r.who /\ h.owner = r.owner
      BY <1>t DEF SteadyLasts
    <2> HIDE DEF h
    <2> QED BY <2>1, <1>t DEF SteadyLasts
  <1>3. KeysFound
    <2> SUFFICES ASSUME NEW n \in Existing, started \/ n \notin GenesisNames
                 PROVE  {p[1] : p \in {q \in lookup : q[2] = n}} = AllKeys(accounts[n])
      BY DEF KeysFound
    <2>1. LookupOf(n) = AllKeys(accounts[n])
      BY <1>t DEF KeysRight
    <2>2. lookup \subseteq Keys \X Names
      BY <1>t DEF AccountsTypes
    <2>3. {p[1] : p \in {q \in lookup : q[2] = n}} = LookupOf(n)
      BY <2>2 DEF LookupOf
    <2> QED BY <2>1, <2>3
  <1> QED BY <1>1, <1>2, <1>3, <1>t

PartnerLate ==
    \A n \in Existing :
          accounts'[n].recovery_account # accounts[n].recovery_account =>
              [who |-> n, partner |-> accounts'[n].recovery_account,
               at |-> (CHOOSE q \in replaced.asked : q.who = n).at] \in replaced.asked
              /\ \A q \in replaced.asked : q.who = n => account_time' >= q.at + RecoveryPeriod

LEMMA StepLate == AccountsInv /\ [AccountsNext]_recoveryVars => [PartnerLate]_recoveryVars
  <1> SUFFICES ASSUME AccountsInv, AccountsNext PROVE PartnerLate
    OBVIOUS
  <1>t. AccountsTypes /\ ChangesAsked
    BY DEF AccountsInv
  <1>1. CASE account_recovery_processing
    <2> SUFFICES ASSUME NEW n \in Existing, accounts'[n].recovery_account # accounts[n].recovery_account
                 PROVE  /\ [who |-> n, partner |-> accounts'[n].recovery_account,
                            at |-> (CHOOSE q \in replaced.asked : q.who = n).at] \in replaced.asked
                        /\ \A q \in replaced.asked : q.who = n => account_time' >= q.at + RecoveryPeriod
      BY DEF PartnerLate
    <2>1. PICK c \in changes : /\ c.who = n /\ c.effective_on <= account_time'
                               /\ accounts'[n] = [accounts[n] EXCEPT !.recovery_account = c.partner]
      BY <1>1, DuePartners
    <2>2. PICK q \in replaced.asked : q.who = n /\ q.partner = c.partner /\ c.effective_on = q.at + RecoveryPeriod
      BY <2>1, <1>t DEF ChangesAsked
    <2>3. \A p \in replaced.asked : p.who = n => p = q
      BY <2>2, <1>t DEF ChangesAsked
    <2>4. (CHOOSE p \in replaced.asked : p.who = n) = q
      BY <2>2, <2>3
    <2>5. accounts'[n].recovery_account = c.partner
      BY <2>1, <1>t DEF AccountsTypes, Account
    <2>6. q = [who |-> n, partner |-> c.partner, at |-> q.at]
      BY <2>2, <1>t DEF AccountsTypes
    <2>7. account_time' >= q.at + RecoveryPeriod
      <3>1. account_time' = account_time + 1 /\ account_time \in Nat /\ q.at \in Nat /\ RecoveryPeriod \in Nat
        BY <1>1, <1>t, DuePartners, AccountsAssumption DEF AccountsTypes
      <3> QED BY <2>1, <2>2, <3>1
    <2> QED BY <2>2, <2>3, <2>4, <2>5, <2>6, <2>7
  <1>2. ASSUME \A n \in Existing : accounts'[n].recovery_account = accounts[n].recovery_account
        PROVE  PartnerLate
    BY <1>2 DEF PartnerLate
  <1>3. CASE \/ plugin_startup
             \/ \E n, m \in Names : change_recovery_account(n, m)
             \/ \E n \in Names : operation_fails(n)
             \/ \E n, m \in Names, owner \in Recoveries \cup {OpenAuth} : request_account_recovery(m, n, owner)
    <2>1. UNCHANGED accounts
      BY <1>3 DEF plugin_startup, change_recovery_account, operation_fails, request_account_recovery
    <2> QED BY <2>1, <1>2
  <1>4. ASSUME NEW n \in Names, NEW m \in Names, NEW o \in Creations, account_create(m, n, o)
        PROVE  PartnerLate
    <2>1. \A x \in Existing : accounts'[x] = accounts[x]
      BY <1>4 DEF account_create
    <2> QED BY <2>1, <1>2
  <1>5. ASSUME NEW n \in Existing, NEW after \in Account,
               after.recovery_account = accounts[n].recovery_account,
               accounts' = [accounts EXCEPT ![n] = after]
        PROVE  PartnerLate
    <2>1. \A x \in Existing : accounts'[x].recovery_account = accounts[x].recovery_account
      BY <1>5, <1>t DEF AccountsTypes
    <2> QED BY <2>1, <1>2
  <1>6. ASSUME NEW n \in Names, NEW o \in Updates, account_update(n, o)
        PROVE  PartnerLate
    BY <1>5, <1>6, <1>t, UpdatedAccount
  <1>7. ASSUME NEW n \in Names, NEW owner \in Recoveries, NEW recent \in OwnerAuths,
               recover_account(n, owner, recent)
        PROVE  PartnerLate
    BY <1>5, <1>7, <1>t, RecoveredAccount
  <1> QED BY <1>1, <1>3, <1>4, <1>6, <1>7 DEF AccountsNext

\* Recovery stays open for the period, with the partner of the time, nothing outlives its
\* time, the keys found are those of the accounts, and a partner changes only a period
\* after it was last asked for, whatever operations a thief gets signed in between.
THEOREM AccountsAlwaysSound == AccountsSpec => AccountsSound
  <1>1. AccountsInit => AccountsInv
    BY InitInv
  <1>2. AccountsInv /\ [AccountsNext]_recoveryVars => AccountsInv'
    BY NextInv
  <1>3. AccountsInv => AccountsTypeOK /\ RecoveryStaysOpen /\ NothingStale /\ KeysFound
    BY InvSound
  <1>4. AccountsInv /\ [AccountsNext]_recoveryVars => [PartnerLate]_recoveryVars
    BY StepLate
  <1> QED BY <1>1, <1>2, <1>3, <1>4, PTL DEF AccountsSpec, AccountsSound, PartnerChangesLate, PartnerLate

-----------------------------------------------------------------------------
(***************************************************************************)
(* Scorumpower.                                                            *)
(***************************************************************************)
Withdrawal == [rate : Nat, next : Nat, to_withdraw : Nat, withdrawn : Nat]
Route == [percent : 0 .. Whole, auto_vest : BOOLEAN]

PowerTypes ==
    /\ VestingTypeOK /\ Founding \subseteq existing
    /\ delegations \in [Pairs -> Nat]
    /\ min_time \in [Pairs -> 0 .. (LastInstalment + CreateTime)]
    /\ limbo \in [Owners -> [Times -> Nat]]
    /\ withdrawals \in [PowerHolders -> Withdrawal]
    /\ routes \in [PowerHolders \X PowerHolders -> Route]
    /\ bonus \in [Owners -> Nat] /\ granted \in [Owners -> Nat]

Rest(w) == w.to_withdraw - w.withdrawn

\* There is none, or it goes in whole instalments and is not complete.
GoodWithdrawal(w) ==
    /\ w \in Withdrawal
    /\ w.rate = 0 => w = NoWithdrawal
    /\ w.rate # 0 => w.withdrawn % w.rate = 0 /\ w.withdrawn < w.to_withdraw

WithdrawalsRight == \A h \in PowerHolders : GoodWithdrawal(withdrawals[h])

PercentsOf(h) == [d \in PowerHolders |-> routes[<<h, d>>].percent]

\* No more goes along the routes than there is, and only to who exists.
RoutesRight ==
    \A h \in PowerHolders :
        /\ SumFunctionOnSet(PercentsOf(h), PowerHolders \ {0}) <= Whole
        /\ \A to \in PowerHolders : routes[<<h, to>>].percent > 0 => Exists(to)

\* Who begins a withdrawal keeps the bonus, so the pool takes none from him.
BonusRight == \A a \in Owners : bonus[a] # 0 => withdrawals[a].rate = 0

\* Accounts that are not there yet have nothing.
Unborn ==
    \A b \in Owners \ existing : sp[b] = 0 /\ received[b] = 0 /\ withdrawals[b].rate = 0

PowerInv ==
    /\ PowerTypes /\ PowerConserved /\ DelegationsMatch /\ DelegatedStays
    /\ WithdrawalsRight /\ RoutesRight /\ BonusRight /\ Unborn

-----------------------------------------------------------------------------
LEMMA HoldersFacts ==
    /\ IsFiniteSet(Owners) /\ IsFiniteSet(PowerHolders) /\ IsFiniteSet(Pairs)
    /\ Owners \subseteq PowerHolders /\ DevPool \in PowerHolders /\ DevPool \notin Owners
    /\ PowerHolders \subseteq Int /\ 0 \in Owners /\ 0 \in PowerHolders
    /\ Founding \subseteq Owners /\ FirstBonuses \subseteq Founding
    /\ Whole \in Nat /\ Whole >= 1
  <1>1. IsFiniteSet(Owners) /\ Owners \subseteq Nat /\ 0 \in Owners /\ Founding \subseteq Owners
        /\ FirstBonuses \subseteq Founding /\ Whole \in Nat /\ Whole >= 1
    BY VestingAssumption
  <1>2. IsFiniteSet(PowerHolders)
    BY <1>1, FS_AddElement DEF PowerHolders
  <1>3. IsFiniteSet(Pairs)
    BY <1>1, FS_Product DEF Pairs
  <1> QED BY <1>1, <1>2, <1>3 DEF PowerHolders, DevPool

LEMMA FiniteTimes == IsFiniteSet(Times) /\ Times \subseteq Nat
  <1>1. LastInstalment + LimboTime + BonusTime + CreateTime \in Int
    BY VestingAssumption
  <1> QED BY <1>1, FS_Interval DEF Times

LEMMA RestPositive == ASSUME NEW w, GoodWithdrawal(w) PROVE Rest(w) \in Nat /\ (w.rate = 0 => Rest(w) = 0)
  BY DEF GoodWithdrawal, Rest, Withdrawal, NoWithdrawal

LEMMA NoWithdrawalGood == GoodWithdrawal(NoWithdrawal) /\ Rest(NoWithdrawal) = 0 /\ NoWithdrawal.rate = 0
  BY DEF GoodWithdrawal, NoWithdrawal, Rest, Withdrawal

\* An instalment is within the power and within what is left, and leaves whole
\* instalments when it is not the last.
LEMMA InstalmentFacts ==
  ASSUME NEW w, GoodWithdrawal(w), NEW power \in Nat
  PROVE  LET amount == Instalment(w, power)
         IN  /\ amount \in Nat /\ amount <= power /\ amount <= Rest(w)
             /\ w.rate = 0 => amount = 0
             /\ amount # 0 /\ ~Finished(w, amount, power) =>
                   (w.withdrawn + amount) % w.rate = 0 /\ w.withdrawn + amount < w.to_withdraw
  <1> DEFINE rate == w.rate
             amount == Instalment(w, power)
             due == IF w.to_withdraw - w.withdrawn < rate THEN w.to_withdraw % rate ELSE rate
  <1>1. rate \in Nat /\ w.to_withdraw \in Nat /\ w.withdrawn \in Nat
    BY DEF GoodWithdrawal, Withdrawal
  <1>2. amount = IF power < due THEN power ELSE due
    BY DEF Instalment
  <1>3. CASE rate = 0
    <2>1. w.to_withdraw = 0 /\ w.withdrawn = 0
      BY <1>3 DEF GoodWithdrawal, NoWithdrawal
    <2>2. due = 0
      BY <1>3, <2>1
    <2>3. amount = 0
      BY <1>2, <2>2
    <2> QED BY <1>3, <2>1, <2>3 DEF Rest
  <1>4. CASE rate # 0
    <2>1. w.withdrawn % rate = 0 /\ w.withdrawn < w.to_withdraw
      BY <1>4 DEF GoodWithdrawal
    <2>2. PICK m \in Nat : w.withdrawn = m * rate
      <3>1. /\ w.withdrawn \div rate \in Nat
            /\ w.withdrawn = (w.withdrawn \div rate) * rate + (w.withdrawn % rate)
        <4>1. rate >= 1
          BY <1>1, <1>4
        <4> QED BY <1>1, <4>1, Divided
      <3>2. w.withdrawn = (w.withdrawn \div rate) * rate
        BY <1>1, <2>1, <3>1
      <3> QED BY <3>1, <3>2
    <2>3. CASE w.to_withdraw - w.withdrawn < rate
      <3>1. w.to_withdraw % rate = w.to_withdraw - w.withdrawn
        <4> DEFINE r == w.to_withdraw - w.withdrawn
        <4>1. r \in 0 .. rate - 1 /\ w.to_withdraw = m * rate + r /\ rate >= 1
          BY <1>1, <1>4, <2>1, <2>2, <2>3
        <4> QED BY <1>1, <4>1, DivMod
      <3>2. due = w.to_withdraw - w.withdrawn
        BY <2>3, <3>1
      <3>3. amount \in Nat /\ amount <= power /\ amount <= w.to_withdraw - w.withdrawn
        BY <1>1, <1>2, <2>1, <3>2
      <3>4. amount # power => amount = w.to_withdraw - w.withdrawn
        BY <1>2, <3>2
      <3>5. Finished(w, amount, power)
        BY <1>1, <3>3, <3>4 DEF Finished
      <3> QED BY <1>4, <3>3, <3>5 DEF Rest
    <2>4. CASE ~(w.to_withdraw - w.withdrawn < rate)
      <3>1. due = rate
        BY <2>4
      <3>2. amount \in Nat /\ amount <= power /\ amount <= w.to_withdraw - w.withdrawn
        BY <1>1, <1>2, <2>4, <3>1
      <3>3. ASSUME amount # 0, ~Finished(w, amount, power)
            PROVE  (w.withdrawn + amount) % rate = 0 /\ w.withdrawn + amount < w.to_withdraw
        <4>1. amount = rate /\ w.withdrawn + amount < w.to_withdraw
          BY <1>1, <1>2, <3>1, <3>2, <3>3 DEF Finished
        <4>2. w.withdrawn + amount = (m + 1) * rate + 0 /\ m + 1 \in Nat /\ 0 \in 0 .. rate - 1 /\ rate >= 1
          BY <1>1, <1>4, <2>2, <4>1
        <4>3. (w.withdrawn + amount) % rate = 0
          BY <1>1, <4>2, DivMod
        <4> QED BY <4>1, <4>3
      <3> QED BY <1>4, <3>2, <3>3 DEF Rest
    <2> QED BY <2>3, <2>4
  <1> QED BY <1>3, <1>4

-----------------------------------------------------------------------------
LEMMA DelegationsKept ==
  ASSUME DelegationsMatch, UNCHANGED <<delegated, received, delegations, limbo, reg_delegated>>
  PROVE  DelegationsMatch'
  BY DEF DelegationsMatch

LEMMA RoutesKept ==
  ASSUME RoutesRight, UNCHANGED routes, existing \subseteq existing' PROVE RoutesRight'
  BY DEF RoutesRight, PercentsOf, Exists

LEMMA ActivityKeeps ==
  ASSUME PowerTypes, BonusRight, NEW h, bonus' = process_user_activity(h)
  PROVE  /\ bonus' \in [Owners -> Nat]
         /\ (\A a \in Owners \ {h} : withdrawals'[a] = withdrawals[a]) => BonusRight'
  BY DEF PowerTypes, BonusRight, process_user_activity

LEMMA RestIs == \A a \in Owners : WithdrawRest(a) = Rest(withdrawals[a])
  BY DEF WithdrawRest, Rest

LEMMA WithdrawInv ==
  ASSUME PowerInv, NEW h \in PowerHolders, NEW amount \in PowerAmounts, withdraw_scorumpower(h, amount)
  PROVE  PowerInv'
  <1> DEFINE w == IF amount = 0 THEN NoWithdrawal
                  ELSE [rate |-> IF amount < WithdrawIntervals THEN 1 ELSE amount \div WithdrawIntervals,
                        next |-> now + 1, to_withdraw |-> amount, withdrawn |-> 0]
  <1>1. /\ amount \in Nat /\ WithdrawIntervals \in Nat \ {0} /\ now \in Nat
        /\ withdrawals' = [withdrawals EXCEPT ![h] = w]
        /\ PowerTypes /\ Exists(h) /\ Withdrawable(h) >= amount
    BY VestingAssumption DEF withdraw_scorumpower, PowerInv, PowerTypes, VestingTypeOK, MayWithdraw
  <1>2. GoodWithdrawal(w) /\ Rest(w) = amount
    <2>1. CASE amount = 0
      BY <2>1, NoWithdrawalGood
    <2>2. CASE amount # 0
      <3> DEFINE rate == IF amount < WithdrawIntervals THEN 1 ELSE amount \div WithdrawIntervals
      <3>1. rate \in Nat /\ rate >= 1
        <4>1. CASE amount < WithdrawIntervals
          BY <4>1
        <4>2. CASE ~(amount < WithdrawIntervals)
          <5> DEFINE q == amount \div WithdrawIntervals
                     r == amount % WithdrawIntervals
          <5>1. q \in Nat /\ r \in 0 .. WithdrawIntervals - 1 /\ amount = WithdrawIntervals * q + r
            BY <1>1
          <5>2. q # 0
            BY <1>1, <4>2, <5>1
          <5> QED BY <4>2, <5>1, <5>2
        <4> QED BY <4>1, <4>2
      <3>2. w = [rate |-> rate, next |-> now + 1, to_withdraw |-> amount, withdrawn |-> 0]
        BY <2>2
      <3> HIDE DEF rate, w
      <3>3. 0 % rate = 0
        BY <3>1
      <3> QED BY <1>1, <2>2, <3>1, <3>2, <3>3 DEF GoodWithdrawal, Rest, Withdrawal
    <2> QED BY <2>1, <2>2
  <1> HIDE DEF w
  <1>3. withdrawals'[h] = w /\ \A x \in PowerHolders \ {h} : withdrawals'[x] = withdrawals[x]
    BY <1>1 DEF PowerTypes
  <1>4. bonus' \in [Owners -> Nat] /\ BonusRight'
    BY <1>1, <1>3, ActivityKeeps, HoldersFacts DEF withdraw_scorumpower, PowerInv
  <1>5. PowerTypes'
    <2>1. withdrawals' \in [PowerHolders -> Withdrawal]
      BY <1>1, <1>2 DEF PowerTypes, GoodWithdrawal
    <2> QED BY <1>1, <1>4, <2>1 DEF PowerTypes, VestingTypeOK, withdraw_scorumpower, accountVars
  <1>6. PowerConserved' /\ DelegationsMatch' /\ RoutesRight'
    BY DelegationsKept, RoutesKept DEF PowerInv, PowerConserved, withdraw_scorumpower, accountVars
  <1>7. DelegatedStays'
    <2> SUFFICES ASSUME NEW a \in Owners PROVE sp[a] - delegated[a] >= Rest(withdrawals'[a])
      BY DEF DelegatedStays, WithdrawRest, Rest, withdraw_scorumpower, accountVars
    <2>1. CASE a = h
      BY <2>1, <1>1, <1>2, <1>3, HoldersFacts DEF Withdrawable
    <2>2. CASE a # h
      BY <2>2, <1>3, HoldersFacts, RestIs DEF PowerInv, DelegatedStays
    <2> QED BY <2>1, <2>2
  <1>8. WithdrawalsRight'
    BY <1>2, <1>3 DEF PowerInv, WithdrawalsRight
  <1>9. Unborn'
    BY <1>1, <1>3, HoldersFacts DEF PowerInv, Unborn, Exists, withdraw_scorumpower, accountVars
  <1> QED BY <1>4, <1>5, <1>6, <1>7, <1>8, <1>9 DEF PowerInv

\* The percents of the routes of a holder after a change are what total_percent sums.
LEMMA TotalPercent ==
  ASSUME PowerTypes, NEW h \in PowerHolders, NEW to \in PowerHolders, NEW percent \in 0 .. Whole,
         NEW f, \A d \in PowerHolders : f[d] = IF d = to THEN percent ELSE routes[<<h, d>>].percent
  PROVE  SumFunctionOnSet(f, PowerHolders \ {0}) = total_percent(h, to, percent)
  <1> DEFINE D == (Destinations(h) \cup {to}) \ {0}
             S == PowerHolders \ {0}
             g == [d \in PowerHolders |-> IF d = to THEN percent ELSE routes[<<h, d>>].percent]
  <1>0. \A d \in PowerHolders : routes[<<h, d>>].percent \in 0 .. Whole
    BY DEF PowerTypes, Route
  <1>1. IsFiniteSet(S) /\ D \in SUBSET S /\ IsFiniteSet(D) /\ IsFiniteSet(S \ D)
    <2>1. IsFiniteSet(S) /\ D \in SUBSET S
      BY HoldersFacts, FS_Subset DEF Destinations
    <2> QED BY <2>1, FS_Subset
  <1>2. \A d \in S : f[d] \in Int /\ g[d] = f[d]
    BY <1>0, HoldersFacts
  <1>3. \A d \in S \ D : f[d] = 0
    BY <1>0, HoldersFacts DEF Destinations
  <1>4. total_percent(h, to, percent) = SumFunctionOnSet(g, D)
    BY DEF total_percent
  <1> HIDE DEF g, D, S
  <1>5. SumFunctionOnSet(f, S) = SumFunctionOnSet(f, S \ D) + SumFunctionOnSet(f, D)
    BY <1>1, <1>2, SumSplit
  <1>6. SumFunctionOnSet(f, S \ D) = 0
    BY <1>1, <1>3, SumZero
  <1>7. SumFunctionOnSet(f, D) = SumFunctionOnSet(g, D) /\ SumFunctionOnSet(f, D) \in Int
    BY <1>1, <1>2, SumAgree, SumInteger
  <1> QED BY <1>4, <1>5, <1>6, <1>7 DEF S

LEMMA RouteInv ==
  ASSUME PowerInv, NEW h \in PowerHolders, NEW to \in PowerHolders, NEW percent \in Percents,
         NEW auto_vest \in BOOLEAN, set_withdraw_scorumpower_route(h, to, percent, auto_vest)
  PROVE  PowerInv'
  <1> DEFINE r == IF percent = 0 THEN NoRoute ELSE [percent |-> percent, auto_vest |-> auto_vest]
  <1>1. /\ PowerTypes /\ Exists(to) /\ routes' = [routes EXCEPT ![<<h, to>>] = r]
        /\ total_percent(h, to, percent) <= Whole /\ percent \in 0 .. Whole
    BY VestingAssumption DEF PowerInv, set_withdraw_scorumpower_route
  <1>2. r \in Route /\ r.percent = percent
    BY <1>1, HoldersFacts DEF Route, NoRoute
  <1> HIDE DEF r
  <1>3. /\ routes' \in [PowerHolders \X PowerHolders -> Route]
        /\ \A x, y \in PowerHolders : routes'[<<x, y>>] = IF x = h /\ y = to THEN r ELSE routes[<<x, y>>]
    BY <1>1, <1>2 DEF PowerTypes
  <1>4. bonus' \in [Owners -> Nat] /\ BonusRight'
    BY <1>1, ActivityKeeps DEF set_withdraw_scorumpower_route, PowerInv
  <1>5. PowerTypes'
    BY <1>1, <1>3, <1>4 DEF PowerTypes, VestingTypeOK, set_withdraw_scorumpower_route, accountVars
  <1>6. PowerConserved' /\ DelegationsMatch' /\ DelegatedStays' /\ WithdrawalsRight' /\ Unborn'
    BY DelegationsKept DEF PowerInv, PowerConserved, DelegatedStays, WithdrawRest, WithdrawalsRight, Unborn,
       set_withdraw_scorumpower_route, accountVars
  <1>7. RoutesRight'
    <2> SUFFICES ASSUME NEW x \in PowerHolders
                 PROVE  /\ SumFunctionOnSet(PercentsOf(x)', PowerHolders \ {0}) <= Whole
                        /\ \A y \in PowerHolders : routes'[<<x, y>>].percent > 0 => Exists(y)'
      BY DEF RoutesRight
    <2>1. \A y \in PowerHolders : routes'[<<x, y>>].percent > 0 => Exists(y)'
      BY <1>1, <1>3 DEF PowerInv, RoutesRight, Exists, set_withdraw_scorumpower_route, accountVars
    <2>2. CASE x # h
      <3>1. PercentsOf(x)' = PercentsOf(x)
        BY <2>2, <1>3 DEF PercentsOf
      <3> QED BY <2>1, <3>1 DEF PowerInv, RoutesRight
    <2>3. CASE x = h
      <3> DEFINE f == PercentsOf(x)'
      <3>1. \A d \in PowerHolders : f[d] = IF d = to THEN percent ELSE routes[<<h, d>>].percent
        BY <2>3, <1>2, <1>3 DEF PercentsOf
      <3> HIDE DEF f
      <3>2. SumFunctionOnSet(f, PowerHolders \ {0}) = total_percent(h, to, percent)
        BY <1>1, <3>1, TotalPercent
      <3> QED BY <1>1, <2>1, <3>2 DEF f
    <2> QED BY <2>2, <2>3
  <1> QED BY <1>4, <1>5, <1>6, <1>7 DEF PowerInv

-----------------------------------------------------------------------------
\* An amount moves from one table to another, or becomes power.
LEMMA TransferInv ==
  ASSUME PowerInv, NEW a \in Owners, NEW b \in Owners, NEW amount \in PowerAmounts,
         transfer_to_scorumpower(a, b, amount)
  PROVE  PowerInv'
  <1>1. /\ PowerTypes /\ amount \in Nat /\ scr[a] >= amount /\ {a, b} \subseteq existing
        /\ scr' = [scr EXCEPT ![a] = @ - amount] /\ sp' = [sp EXCEPT ![b] = @ + amount]
        /\ a \in PowerHolders /\ b \in PowerHolders
        /\ UNCHANGED <<reg_pool, reg_delegated, existing, withdrawals, delegated>>
    BY VestingAssumption, HoldersFacts DEF PowerInv, transfer_to_scorumpower, accountVars
  <1>2. scr \in [PowerHolders -> Nat] /\ sp \in [PowerHolders -> Nat] /\ reg_pool \in Nat
        /\ reg_delegated \in [Owners -> Nat] /\ delegated \in [Owners -> Nat]
        /\ scr[a] - amount \in Nat /\ sp[b] + amount \in Nat /\ scr[a] \in Nat /\ sp[b] \in Nat
    BY <1>1 DEF PowerTypes, VestingTypeOK
  <1>3. /\ scr' \in [PowerHolders -> Nat] /\ SumFunction(scr') = SumFunction(scr) - amount
        /\ SumFunction(scr) \in Nat
    <2>1. scr' \in [PowerHolders -> Nat] /\ scr'[a] = scr[a] - amount
          /\ (\A x \in PowerHolders \ {a} : scr'[x] = scr[x])
          /\ a \in PowerHolders /\ scr \in [PowerHolders -> Nat] /\ IsFiniteSet(PowerHolders)
      BY <1>1, <1>2, HoldersFacts
    <2>2. /\ SumFunction(scr) \in Nat
          /\ SumFunction(scr') = SumFunction(scr) - scr[a] + scr'[a]
      BY <2>1, EntryChanges
    <2> QED BY <1>1, <1>2, <2>1, <2>2
  <1>4. /\ sp' \in [PowerHolders -> Nat] /\ SumFunction(sp') = SumFunction(sp) + amount
        /\ SumFunction(sp) \in Nat
    <2>1. sp' \in [PowerHolders -> Nat] /\ sp'[b] = sp[b] + amount
          /\ (\A x \in PowerHolders \ {b} : sp'[x] = sp[x])
          /\ b \in PowerHolders /\ sp \in [PowerHolders -> Nat] /\ IsFiniteSet(PowerHolders)
      BY <1>1, <1>2, HoldersFacts
    <2>2. /\ SumFunction(sp) \in Nat
          /\ SumFunction(sp') = SumFunction(sp) - sp[b] + sp'[b]
      BY <2>1, EntryChanges
    <2> QED BY <1>1, <1>2, <2>1, <2>2
  <1>5. SumFunction(reg_delegated) \in Nat
    BY <1>2, SumType, HoldersFacts
  <1>6. PowerConserved'
    BY <1>1, <1>2, <1>3, <1>4, <1>5 DEF PowerInv, PowerConserved
  <1>7. bonus' \in [Owners -> Nat] /\ BonusRight'
    BY <1>1, ActivityKeeps DEF transfer_to_scorumpower, PowerInv
  <1>8. PowerTypes'
    BY <1>1, <1>3, <1>4, <1>7 DEF PowerTypes, VestingTypeOK, transfer_to_scorumpower, accountVars
  <1>9. DelegationsMatch' /\ WithdrawalsRight' /\ RoutesRight'
    BY DelegationsKept, RoutesKept DEF PowerInv, WithdrawalsRight, transfer_to_scorumpower, accountVars
  <1>10. DelegatedStays'
    <2> SUFFICES ASSUME NEW x \in Owners PROVE sp'[x] - delegated[x] >= WithdrawRest(x)
      BY <1>1 DEF DelegatedStays, WithdrawRest
    <2>1. sp[x] - delegated[x] >= WithdrawRest(x) /\ WithdrawRest(x) \in Int
      BY <1>1, HoldersFacts DEF PowerInv, DelegatedStays, WithdrawRest, PowerTypes, Withdrawal
    <2>2. sp'[x] >= sp[x] /\ sp'[x] \in Nat /\ sp[x] \in Nat /\ delegated[x] \in Nat
      BY <1>1, <1>2, HoldersFacts
    <2> QED BY <2>1, <2>2
  <1>11. Unborn'
    BY <1>1, <1>2, HoldersFacts DEF PowerInv, Unborn, transfer_to_scorumpower, accountVars
  <1> QED BY <1>6, <1>7, <1>8, <1>9, <1>10, <1>11 DEF PowerInv

-----------------------------------------------------------------------------
(***************************************************************************)
(* Delegations.                                                            *)
(***************************************************************************)
Given(f, a) == SumFunctionOnSet(f, {a} \X Owners)
Got(f, b) == SumFunctionOnSet(f, Owners \X {b})

\* One delegation changes: the sums of its two ends, and no other.
LEMMA DelegationChanges ==
  ASSUME NEW f \in [Pairs -> Nat], NEW a \in Owners, NEW b \in Owners, NEW v \in Nat,
         NEW g \in [Pairs -> Nat], g[<<a, b>>] = v, \A p \in Pairs : p # <<a, b>> => g[p] = f[p]
  PROVE  /\ \A x \in Owners : /\ Given(f, x) \in Nat /\ Got(f, x) \in Nat
                              /\ Given(g, x) \in Nat /\ Got(g, x) \in Nat
         /\ f[<<a, b>>] \in Nat /\ f[<<a, b>>] <= Given(f, a) /\ f[<<a, b>>] <= Got(f, b)
         /\ \A x \in Owners : Given(g, x) = Given(f, x) + IF x = a THEN v - f[<<a, b>>] ELSE 0
         /\ \A x \in Owners : Got(g, x) = Got(f, x) + IF x = b THEN v - f[<<a, b>>] ELSE 0
  <1>0. <<a, b>> \in Pairs /\ f[<<a, b>>] \in Nat
    BY DEF Pairs
  <1>1. /\ g \in [Pairs -> Nat] /\ g[<<a, b>>] = v
        /\ \A p \in Pairs : p # <<a, b>> => g[p] = f[p]
    BY <1>0
  <1>2. \A x \in Owners : /\ {x} \X Owners \subseteq Pairs /\ Owners \X {x} \subseteq Pairs
                         /\ IsFiniteSet({x} \X Owners) /\ IsFiniteSet(Owners \X {x})
    <2> SUFFICES ASSUME NEW x \in Owners
                 PROVE  /\ {x} \X Owners \subseteq Pairs /\ Owners \X {x} \subseteq Pairs
                        /\ IsFiniteSet({x} \X Owners) /\ IsFiniteSet(Owners \X {x})
      OBVIOUS
    <2>1. {x} \X Owners \subseteq Pairs /\ Owners \X {x} \subseteq Pairs
      BY DEF Pairs
    <2> QED BY <2>1, FS_Subset, HoldersFacts
  <1>4. ASSUME NEW x \in Owners
        PROVE  /\ Given(f, x) \in Nat /\ Given(g, x) \in Nat
               /\ x = a => f[<<a, b>>] <= Given(f, a)
               /\ Given(g, x) = Given(f, x) + IF x = a THEN v - f[<<a, b>>] ELSE 0
    <2> DEFINE S == {x} \X Owners
               k == <<a, b>>
    <2>1. k \in S <=> x = a
      OBVIOUS
    <2>2. S \in SUBSET Pairs /\ IsFiniteSet(S) /\ Given(f, x) = SumFunctionOnSet(f, S)
          /\ Given(g, x) = SumFunctionOnSet(g, S) /\ k \in Pairs /\ g \in [Pairs -> Nat]
          /\ f[k] \in Nat /\ g[k] = v /\ \A p \in Pairs \ {k} : g[p] = f[p]
      BY <1>0, <1>1, <1>2 DEF Given
    <2> HIDE DEF S, k
    <2>3. /\ SumFunctionOnSet(f, S) \in Nat /\ SumFunctionOnSet(g, S) \in Nat
          /\ k \in S => /\ f[k] <= SumFunctionOnSet(f, S)
                        /\ SumFunctionOnSet(g, S) = SumFunctionOnSet(f, S) + (g[k] - f[k])
          /\ k \notin S => SumFunctionOnSet(g, S) = SumFunctionOnSet(f, S)
      BY <2>2, PartChanges
    <2>4. f[<<a, b>>] = f[k]
      BY DEF k
    <2> QED BY <2>1, <2>2, <2>3, <2>4
  <1>5. ASSUME NEW x \in Owners
        PROVE  /\ Got(f, x) \in Nat /\ Got(g, x) \in Nat
               /\ x = b => f[<<a, b>>] <= Got(f, b)
               /\ Got(g, x) = Got(f, x) + IF x = b THEN v - f[<<a, b>>] ELSE 0
    <2> DEFINE S == Owners \X {x}
               k == <<a, b>>
    <2>1. k \in S <=> x = b
      OBVIOUS
    <2>2. S \in SUBSET Pairs /\ IsFiniteSet(S) /\ Got(f, x) = SumFunctionOnSet(f, S)
          /\ Got(g, x) = SumFunctionOnSet(g, S) /\ k \in Pairs /\ g \in [Pairs -> Nat]
          /\ f[k] \in Nat /\ g[k] = v /\ \A p \in Pairs \ {k} : g[p] = f[p]
      BY <1>0, <1>1, <1>2 DEF Got
    <2> HIDE DEF S, k
    <2>3. /\ SumFunctionOnSet(f, S) \in Nat /\ SumFunctionOnSet(g, S) \in Nat
          /\ k \in S => /\ f[k] <= SumFunctionOnSet(f, S)
                        /\ SumFunctionOnSet(g, S) = SumFunctionOnSet(f, S) + (g[k] - f[k])
          /\ k \notin S => SumFunctionOnSet(g, S) = SumFunctionOnSet(f, S)
      BY <2>2, PartChanges
    <2>4. f[<<a, b>>] = f[k]
      BY DEF k
    <2> QED BY <2>1, <2>2, <2>3, <2>4
  <1> QED BY <1>0, <1>1, <1>4, <1>5

LEMMA MatchIs ==
  DelegationsMatch <=>
    \A a \in Owners : /\ delegated[a] = Given(delegations, a) + SumFunction(limbo[a])
                     /\ received[a] = Got(delegations, a) + reg_delegated[a]
  BY DEF DelegationsMatch, Given, Got

LEMMA LimboSum ==
  ASSUME NEW f \in [Owners -> [Times -> Nat]]
  PROVE  \A a \in Owners : SumFunction(f[a]) \in Nat
  BY SumType, FiniteTimes

\* What a change of the delegation from a to b does to the sums of x.
EndsChange(x, a, b, change) ==
    /\ Given(delegations, x) \in Nat /\ Got(delegations, x) \in Nat
    /\ Given(delegations', x) \in Nat /\ Got(delegations', x) \in Nat
    /\ Given(delegations', x) = Given(delegations, x) + IF x = a THEN change ELSE 0
    /\ Got(delegations', x) = Got(delegations, x) + IF x = b THEN change ELSE 0

LEMMA NewDelegation ==
  ASSUME PowerTypes, NEW a \in Owners, NEW b \in Owners, NEW amount \in Nat,
         delegations' = [delegations EXCEPT ![<<a, b>>] = amount]
  PROVE  /\ delegations' \in [Pairs -> Nat] /\ delegations[<<a, b>>] \in Nat
         /\ delegations[<<a, b>>] <= Given(delegations, a) /\ delegations[<<a, b>>] <= Got(delegations, b)
         /\ \A x \in Owners : EndsChange(x, a, b, amount - delegations[<<a, b>>])
  <1>1. <<a, b>> \in Pairs /\ delegations \in [Pairs -> Nat]
    BY DEF Pairs, PowerTypes
  <1>2. /\ delegations' \in [Pairs -> Nat] /\ delegations'[<<a, b>>] = amount
        /\ \A p \in Pairs : p # <<a, b>> => delegations'[p] = delegations[p]
    BY <1>1
  <1> DEFINE f == delegations
             g == delegations'
  <1>3. /\ f \in [Pairs -> Nat] /\ g \in [Pairs -> Nat] /\ g[<<a, b>>] = amount
        /\ \A p \in Pairs : p # <<a, b>> => g[p] = f[p]
    BY <1>1, <1>2
  <1> HIDE DEF f, g
  <1>4. /\ f[<<a, b>>] \in Nat /\ f[<<a, b>>] <= Given(f, a) /\ f[<<a, b>>] <= Got(f, b)
        /\ \A x \in Owners : /\ Given(f, x) \in Nat /\ Got(f, x) \in Nat
                             /\ Given(g, x) \in Nat /\ Got(g, x) \in Nat
        /\ \A x \in Owners : Given(g, x) = Given(f, x) + IF x = a THEN amount - f[<<a, b>>] ELSE 0
        /\ \A x \in Owners : Got(g, x) = Got(f, x) + IF x = b THEN amount - f[<<a, b>>] ELSE 0
    BY <1>3, DelegationChanges
  <1> QED BY <1>2, <1>4 DEF f, g, EndsChange

\* What the invariant says of the tables of one account.
LEMMA AccountTypes ==
  ASSUME PowerInv, NEW a \in Owners
  PROVE  /\ sp[a] \in Nat /\ delegated[a] \in Nat /\ received[a] \in Nat /\ reg_delegated[a] \in Nat
         /\ WithdrawRest(a) \in Nat /\ sp[a] - delegated[a] >= WithdrawRest(a)
         /\ SumFunction(limbo[a]) \in Nat /\ limbo[a] \in [Times -> Nat]
         /\ scr[a] \in Nat /\ GoodWithdrawal(withdrawals[a])
         /\ delegated[a] = Given(delegations, a) + SumFunction(limbo[a])
         /\ received[a] = Got(delegations, a) + reg_delegated[a]
  <1>1. /\ sp[a] \in Nat /\ delegated[a] \in Nat /\ received[a] \in Nat /\ reg_delegated[a] \in Nat
        /\ limbo[a] \in [Times -> Nat] /\ scr[a] \in Nat /\ GoodWithdrawal(withdrawals[a])
        /\ limbo \in [Owners -> [Times -> Nat]]
    BY HoldersFacts DEF PowerInv, PowerTypes, VestingTypeOK, WithdrawalsRight
  <1>2. WithdrawRest(a) \in Nat /\ sp[a] - delegated[a] >= WithdrawRest(a)
    BY <1>1, RestPositive, RestIs DEF PowerInv, DelegatedStays
  <1>3. SumFunction(limbo[a]) \in Nat
    BY <1>1, LimboSum
  <1> QED BY <1>1, <1>2, <1>3, MatchIs DEF PowerInv

LEMMA IncreaseInv ==
  ASSUME PowerInv, NEW a \in Owners, NEW b \in Owners, NEW amount \in PowerAmounts,
         delegate_scorumpower(a, b, amount), amount >= delegations[<<a, b>>],
         IncreaseDelegation(a, b, amount)
  PROVE  PowerTypes' /\ DelegationsMatch' /\ DelegatedStays'
  <1> DEFINE delta == amount - delegations[<<a, b>>]
  <1>1. /\ PowerTypes /\ amount \in Nat /\ a # b
        /\ delegations' = [delegations EXCEPT ![<<a, b>>] = amount]
        /\ delegated' = [delegated EXCEPT ![a] = @ + delta]
        /\ received' = [received EXCEPT ![b] = @ + delta]
        /\ min_time' = [min_time EXCEPT ![<<a, b>>] = IF delegations[<<a, b>>] = 0 THEN now ELSE @]
        /\ UNCHANGED <<limbo, now, existing, scr, sp, withdrawals, routes, reg_pool, reg_delegated, granted>>
        /\ sp[a] - delegated[a] - WithdrawRest(a) >= delta
    BY VestingAssumption DEF PowerInv, delegate_scorumpower, IncreaseDelegation, Available
  <1>2. delegations[<<a, b>>] \in Nat /\ delta \in Nat /\ delegations' \in [Pairs -> Nat]
    <2>1. delegations[<<a, b>>] \in Nat /\ delegations' \in [Pairs -> Nat]
      BY <1>1, NewDelegation
    <2> QED BY <1>1, <2>1
  <1>3. \A x \in Owners : /\ Given(delegations', x) = Given(delegations, x) + IF x = a THEN delta ELSE 0
                          /\ Got(delegations', x) = Got(delegations, x) + IF x = b THEN delta ELSE 0
                          /\ Given(delegations, x) \in Nat /\ Got(delegations, x) \in Nat
    <2>1. PowerTypes /\ amount \in Nat /\ delegations' = [delegations EXCEPT ![<<a, b>>] = amount]
      BY <1>1
    <2>2. \A x \in Owners : EndsChange(x, a, b, delta)
      BY <2>1, NewDelegation
    <2> HIDE DEF delta
    <2> QED BY <2>2 DEF EndsChange
  <1> HIDE DEF delta
  <1>4. /\ delegated' \in [Owners -> Nat] /\ received' \in [Owners -> Nat]
        /\ \A x \in Owners : /\ delegated'[x] = delegated[x] + IF x = a THEN delta ELSE 0
                             /\ received'[x] = received[x] + IF x = b THEN delta ELSE 0
    BY <1>1, <1>2 DEF PowerTypes, VestingTypeOK
  <1>5. min_time' \in [Pairs -> 0 .. (LastInstalment + CreateTime)]
    <2>1. now \in 0 .. (LastInstalment + CreateTime)
      BY <1>1, VestingAssumption DEF PowerTypes, VestingTypeOK
    <2> QED BY <1>1, <2>1 DEF PowerTypes
  <1>6. bonus' \in [Owners -> Nat]
    BY <1>1, ActivityKeeps DEF delegate_scorumpower, PowerInv
  <1>7. PowerTypes'
    BY <1>1, <1>2, <1>4, <1>5, <1>6 DEF PowerTypes, VestingTypeOK
  <1>8. DelegationsMatch'
    <2> SUFFICES ASSUME NEW x \in Owners
                 PROVE  /\ delegated'[x] = Given(delegations', x) + SumFunction(limbo[x])
                        /\ received'[x] = Got(delegations', x) + reg_delegated[x]
      BY <1>1 DEF DelegationsMatch, Given, Got
    <2> QED BY <1>2, <1>3, <1>4, AccountTypes
  <1>9. DelegatedStays'
    <2> SUFFICES ASSUME NEW x \in Owners PROVE sp[x] - delegated'[x] >= WithdrawRest(x)
      BY <1>1 DEF DelegatedStays, WithdrawRest
    <2> QED BY <1>1, <1>2, <1>4, AccountTypes
  <1> QED BY <1>7, <1>8, <1>9

LEMMA DecreaseInv ==
  ASSUME PowerInv, NEW a \in Owners, NEW b \in Owners, NEW amount \in PowerAmounts,
         delegate_scorumpower(a, b, amount), amount < delegations[<<a, b>>],
         DecreaseDelegation(a, b, amount)
  PROVE  PowerTypes' /\ DelegationsMatch' /\ DelegatedStays'
  <1> DEFINE delta == delegations[<<a, b>>] - amount
             back == IF now + LimboTime > min_time[<<a, b>>] THEN now + LimboTime ELSE min_time[<<a, b>>]
  <1>1. /\ PowerTypes /\ amount \in Nat /\ a # b
        /\ delegations' = [delegations EXCEPT ![<<a, b>>] = amount]
        /\ limbo' = [limbo EXCEPT ![a][back] = @ + delta]
        /\ received' = [received EXCEPT ![b] = @ - delta]
        /\ min_time' = [min_time EXCEPT ![<<a, b>>] = IF amount = 0 THEN 0 ELSE @]
        /\ UNCHANGED <<delegated, now, existing, scr, sp, withdrawals, routes, reg_pool, reg_delegated>>
    BY VestingAssumption DEF PowerInv, delegate_scorumpower, DecreaseDelegation, LimboAfter
  <1>2. delegations[<<a, b>>] \in Nat /\ delta \in Nat /\ delegations' \in [Pairs -> Nat]
    <2>1. delegations[<<a, b>>] \in Nat /\ delegations' \in [Pairs -> Nat]
      BY <1>1, NewDelegation
    <2> QED BY <1>1, <2>1
  <1>3. \A x \in Owners : /\ Given(delegations', x) = Given(delegations, x) - IF x = a THEN delta ELSE 0
                          /\ Got(delegations', x) = Got(delegations, x) - IF x = b THEN delta ELSE 0
                          /\ Given(delegations, x) \in Nat /\ Got(delegations, x) \in Nat
                          /\ Given(delegations', x) \in Nat /\ Got(delegations', x) \in Nat
    <2> DEFINE change == amount - delegations[<<a, b>>]
    <2>1. \A x \in Owners : /\ Given(delegations', x) = Given(delegations, x) + IF x = a THEN change ELSE 0
                            /\ Got(delegations', x) = Got(delegations, x) + IF x = b THEN change ELSE 0
                            /\ Given(delegations, x) \in Nat /\ Got(delegations, x) \in Nat
                            /\ Given(delegations', x) \in Nat /\ Got(delegations', x) \in Nat
      <3>1. PowerTypes /\ amount \in Nat /\ delegations' = [delegations EXCEPT ![<<a, b>>] = amount]
        BY <1>1
      <3>2. \A x \in Owners : EndsChange(x, a, b, change)
        BY <3>1, NewDelegation
      <3> HIDE DEF change
      <3> QED BY <3>2 DEF EndsChange
    <2>2. change = -delta
      BY <1>1, <1>2
    <2> HIDE DEF change
    <2> QED BY <2>1, <2>2, <1>2
  <1>4. back \in Times
    <2>1. now \in Nat /\ now <= LastInstalment /\ LimboTime \in Nat /\ CreateTime \in Nat /\ BonusTime \in Nat
          /\ LastInstalment \in Nat
      BY <1>1, VestingAssumption DEF PowerTypes, VestingTypeOK
    <2>2. min_time[<<a, b>>] \in 0 .. (LastInstalment + CreateTime)
      BY <1>1 DEF PowerTypes, Pairs
    <2> QED BY <2>1, <2>2 DEF Times
  <1> HIDE DEF delta, back
  <1>5. /\ limbo' \in [Owners -> [Times -> Nat]]
        /\ \A x \in Owners : SumFunction(limbo'[x]) = SumFunction(limbo[x]) + IF x = a THEN delta ELSE 0
    <2>1. /\ limbo \in [Owners -> [Times -> Nat]] /\ limbo[a] \in [Times -> Nat]
          /\ limbo[a][back] \in Nat /\ SumFunction(limbo[a]) \in Nat
      BY <1>1, <1>4, AccountTypes DEF PowerTypes
    <2>2. /\ limbo'[a] = [limbo[a] EXCEPT ![back] = limbo[a][back] + delta]
          /\ \A x \in Owners \ {a} : limbo'[x] = limbo[x]
          /\ DOMAIN limbo' = Owners /\ limbo' = [x \in Owners |-> limbo'[x]]
      BY <1>1, <2>1
    <2>3. /\ limbo'[a] \in [Times -> Nat] /\ limbo'[a][back] = limbo[a][back] + delta
          /\ \A t \in Times \ {back} : limbo'[a][t] = limbo[a][t]
      BY <1>2, <1>4, <2>1, <2>2
    <2> DEFINE f == limbo[a]
               g == limbo'[a]
    <2>4. /\ f \in [Times -> Nat] /\ g \in [Times -> Nat] /\ back \in Times
          /\ g[back] = f[back] + delta /\ (\A t \in Times \ {back} : g[t] = f[t]) /\ IsFiniteSet(Times)
      BY <1>4, <2>1, <2>3, FiniteTimes
    <2> HIDE DEF f, g
    <2>5. SumFunction(f) \in Nat /\ f[back] \in Nat /\ SumFunction(g) = SumFunction(f) - f[back] + g[back]
      BY <2>4, EntryChanges
    <2>6. SumFunction(limbo'[a]) = SumFunction(limbo[a]) + delta
      <3>1. SumFunction(g) = SumFunction(f) + delta
        BY <1>2, <2>4, <2>5
      <3> QED BY <3>1 DEF f, g
    <2>7. \A x \in Owners : limbo'[x] \in [Times -> Nat] /\ SumFunction(limbo[x]) \in Nat
      BY <2>1, <2>2, <2>3, AccountTypes
    <2>8. limbo' \in [Owners -> [Times -> Nat]]
      BY <2>2, <2>7
    <2> QED BY <2>2, <2>6, <2>7, <2>8
  <1>6. /\ received' \in [Owners -> Nat]
        /\ \A x \in Owners : received'[x] = received[x] - IF x = b THEN delta ELSE 0
    <2>1. received[b] - delta \in Nat
      BY <1>2, <1>3, AccountTypes
    <2> QED BY <1>1, <1>2, <2>1 DEF PowerTypes, VestingTypeOK
  <1>7. min_time' \in [Pairs -> 0 .. (LastInstalment + CreateTime)]
    <2>1. 0 \in 0 .. (LastInstalment + CreateTime)
      BY <1>1, VestingAssumption
    <2> QED BY <1>1, <2>1 DEF PowerTypes
  <1>8. bonus' \in [Owners -> Nat] /\ granted' = granted
    BY <1>1, ActivityKeeps DEF delegate_scorumpower, PowerInv
  <1>9. PowerTypes'
    BY <1>1, <1>2, <1>5, <1>6, <1>7, <1>8 DEF PowerTypes, VestingTypeOK
  <1>10. DelegationsMatch'
    <2> SUFFICES ASSUME NEW x \in Owners
                 PROVE  /\ delegated[x] = Given(delegations', x) + SumFunction(limbo'[x])
                        /\ received'[x] = Got(delegations', x) + reg_delegated[x]
      BY <1>1 DEF DelegationsMatch, Given, Got
    <2> QED BY <1>2, <1>3, <1>5, <1>6, AccountTypes
  <1>11. DelegatedStays'
    BY <1>1 DEF DelegatedStays, WithdrawRest, PowerInv
  <1> QED BY <1>9, <1>10, <1>11

LEMMA DelegateInv ==
  ASSUME PowerInv, NEW a \in Owners, NEW b \in Owners, NEW amount \in PowerAmounts,
         delegate_scorumpower(a, b, amount)
  PROVE  PowerInv'
  <1>1. PowerTypes' /\ DelegationsMatch' /\ DelegatedStays'
    BY IncreaseInv, DecreaseInv DEF delegate_scorumpower
  <1>2. PowerTypes /\ UNCHANGED <<existing, scr, sp, withdrawals, routes, reg_pool, reg_delegated>>
    BY DEF PowerInv, delegate_scorumpower
  <1>3. BonusRight'
    BY <1>2, ActivityKeeps DEF delegate_scorumpower, PowerInv
  <1>4. PowerConserved' /\ WithdrawalsRight' /\ RoutesRight'
    BY <1>2, RoutesKept DEF PowerInv, PowerConserved, WithdrawalsRight
  <1>5. Unborn'
    <2> SUFFICES ASSUME NEW x \in Owners \ existing PROVE received'[x] = received[x]
      BY <1>2 DEF PowerInv, Unborn
    <2>1. x # b
      BY DEF delegate_scorumpower
    <2>2. received' = [received EXCEPT ![b] = @ + (amount - delegations[<<a, b>>])]
          \/ received' = [received EXCEPT ![b] = @ - (delegations[<<a, b>>] - amount)]
      BY DEF delegate_scorumpower, IncreaseDelegation, DecreaseDelegation
    <2> QED BY <1>2, <2>1, <2>2 DEF PowerTypes, VestingTypeOK
  <1> QED BY <1>1, <1>3, <1>4, <1>5 DEF PowerInv

-----------------------------------------------------------------------------
LEMMA SumTypes ==
  ASSUME PowerTypes
  PROVE  SumFunction(scr) \in Nat /\ SumFunction(sp) \in Nat /\ SumFunction(reg_delegated) \in Nat
  <1>1. /\ scr \in [PowerHolders -> Nat] /\ sp \in [PowerHolders -> Nat] /\ reg_delegated \in [Owners -> Nat]
        /\ IsFiniteSet(PowerHolders) /\ IsFiniteSet(Owners)
    BY HoldersFacts DEF PowerTypes, VestingTypeOK
  <1> QED BY <1>1, SumType

LEMMA CreateWithDelegationInv ==
  ASSUME PowerInv, NEW a \in Owners, NEW b \in Owners, NEW fee \in PowerAmounts, NEW amount \in PowerAmounts,
         account_create_with_delegation(a, b, fee, amount)
  PROVE  PowerInv'
  <1>1. /\ PowerTypes /\ amount \in Nat /\ fee \in Nat /\ a \in existing /\ b \notin existing /\ a # b
        /\ scr[a] >= fee /\ sp[a] - delegated[a] - WithdrawRest(a) >= amount
        /\ existing' = existing \cup {b}
        /\ UNCHANGED <<now, limbo, withdrawals, routes, reg_pool, reg_delegated>>
        /\ a \in PowerHolders /\ b \in PowerHolders
    BY VestingAssumption, HoldersFacts DEF PowerInv, account_create_with_delegation, Available
  <1>2. /\ delegations' = [delegations EXCEPT ![<<a, b>>] = amount]
        /\ delegated' = [delegated EXCEPT ![a] = @ + amount]
        /\ received' = [received EXCEPT ![b] = amount]
        /\ min_time' = [min_time EXCEPT ![<<a, b>>] = IF amount = 0 THEN 0 ELSE now + CreateTime]
    BY DEF account_create_with_delegation
  <1>3. received[b] = 0 /\ sp[b] = 0 /\ withdrawals[b].rate = 0
    BY <1>1 DEF PowerInv, Unborn
  <1>4. delegations' \in [Pairs -> Nat] /\ delegations[<<a, b>>] = 0 /\ \A x \in Owners : EndsChange(x, a, b, amount)
    <2>1. PowerTypes /\ amount \in Nat /\ delegations' = [delegations EXCEPT ![<<a, b>>] = amount]
      BY <1>1, <1>2
    <2>2. /\ delegations' \in [Pairs -> Nat] /\ delegations[<<a, b>>] \in Nat
          /\ delegations[<<a, b>>] <= Got(delegations, b)
          /\ \A x \in Owners : EndsChange(x, a, b, amount - delegations[<<a, b>>])
      BY <2>1, NewDelegation
    <2>3. Got(delegations, b) = 0
      <3>1. EndsChange(b, a, b, amount - delegations[<<a, b>>])
        BY <2>2
      <3>2. Got(delegations, b) \in Nat
        BY <3>1 DEF EndsChange
      <3> QED BY <1>3, <3>2, AccountTypes
    <2>4. delegations[<<a, b>>] = 0 /\ amount - delegations[<<a, b>>] = amount
      BY <2>1, <2>2, <2>3
    <2> QED BY <2>2, <2>4
  <1>5. \A x \in Owners : /\ Given(delegations', x) = Given(delegations, x) + IF x = a THEN amount ELSE 0
                          /\ Got(delegations', x) = Got(delegations, x) + IF x = b THEN amount ELSE 0
                          /\ Given(delegations, x) \in Nat /\ Got(delegations, x) \in Nat
    BY <1>4 DEF EndsChange
  <1>6. /\ delegated' \in [Owners -> Nat] /\ received' \in [Owners -> Nat]
        /\ \A x \in Owners : /\ delegated'[x] = delegated[x] + IF x = a THEN amount ELSE 0
                             /\ received'[x] = received[x] + IF x = b THEN amount ELSE 0
    BY <1>1, <1>2, <1>3 DEF PowerTypes, VestingTypeOK
  <1>7. min_time' \in [Pairs -> 0 .. (LastInstalment + CreateTime)]
    <2>1. now + CreateTime \in 0 .. (LastInstalment + CreateTime) /\ 0 \in 0 .. (LastInstalment + CreateTime)
      BY <1>1, VestingAssumption DEF PowerTypes, VestingTypeOK
    <2> QED BY <1>1, <1>2, <2>1 DEF PowerTypes
  <1>8. /\ scr' \in [PowerHolders -> Nat] /\ SumFunction(scr') = SumFunction(scr) - fee
        /\ SumFunction(scr) \in Nat
    <2>1. scr' = [scr EXCEPT ![a] = scr[a] - fee] /\ scr[a] - fee \in Nat /\ scr[a] \in Nat
          /\ scr \in [PowerHolders -> Nat]
      BY <1>1 DEF account_create_with_delegation, PowerTypes, VestingTypeOK
    <2>2. scr' \in [PowerHolders -> Nat] /\ scr'[a] = scr[a] - fee /\ a \in PowerHolders
          /\ (\A x \in PowerHolders \ {a} : scr'[x] = scr[x]) /\ scr \in [PowerHolders -> Nat]
          /\ IsFiniteSet(PowerHolders)
      BY <1>1, <2>1, HoldersFacts
    <2>3. SumFunction(scr) \in Nat /\ SumFunction(scr') = SumFunction(scr) - scr[a] + scr'[a]
      BY <2>2, EntryChanges
    <2> QED BY <1>1, <2>1, <2>2, <2>3
  <1>9. /\ sp' \in [PowerHolders -> Nat] /\ SumFunction(sp') = SumFunction(sp) + fee
        /\ SumFunction(sp) \in Nat /\ \A x \in PowerHolders : sp'[x] = sp[x] + IF x = b THEN fee ELSE 0
    <2>1. sp' = [sp EXCEPT ![b] = fee] /\ sp \in [PowerHolders -> Nat]
      BY <1>1, <1>3 DEF account_create_with_delegation, PowerTypes, VestingTypeOK
    <2>2. sp' \in [PowerHolders -> Nat] /\ sp'[b] = fee /\ b \in PowerHolders
          /\ (\A x \in PowerHolders \ {b} : sp'[x] = sp[x]) /\ sp \in [PowerHolders -> Nat]
          /\ IsFiniteSet(PowerHolders)
      BY <1>1, <2>1, HoldersFacts
    <2>3. SumFunction(sp) \in Nat /\ SumFunction(sp') = SumFunction(sp) - sp[b] + sp'[b]
      BY <2>2, EntryChanges
    <2>4. \A x \in PowerHolders : sp'[x] = sp[x] + IF x = b THEN fee ELSE 0
      BY <1>1, <1>3, <2>2
    <2> QED BY <1>1, <1>3, <2>2, <2>3, <2>4
  <1>10. SumFunction(reg_delegated) \in Nat /\ reg_pool \in Nat
    BY <1>1, SumTypes DEF PowerTypes, VestingTypeOK
  <1>11. PowerConserved'
    BY <1>1, <1>8, <1>9, <1>10 DEF PowerInv, PowerConserved
  <1>12. bonus' \in [Owners -> Nat] /\ granted' = granted /\ BonusRight'
    BY <1>1, ActivityKeeps DEF account_create_with_delegation, PowerInv
  <1>13. PowerTypes'
    BY <1>1, <1>4, <1>6, <1>7, <1>8, <1>9, <1>12 DEF PowerTypes, VestingTypeOK
  <1>14. DelegationsMatch'
    <2> SUFFICES ASSUME NEW x \in Owners
                 PROVE  /\ delegated'[x] = Given(delegations', x) + SumFunction(limbo[x])
                        /\ received'[x] = Got(delegations', x) + reg_delegated[x]
      BY <1>1 DEF DelegationsMatch, Given, Got
    <2> QED BY <1>1, <1>5, <1>6, AccountTypes
  <1>15. DelegatedStays'
    <2> SUFFICES ASSUME NEW x \in Owners PROVE sp'[x] - delegated'[x] >= WithdrawRest(x)
      BY <1>1 DEF DelegatedStays, WithdrawRest
    <2> QED BY <1>1, <1>6, <1>9, AccountTypes, HoldersFacts
  <1>16. WithdrawalsRight' /\ RoutesRight'
    BY <1>1, RoutesKept DEF PowerInv, WithdrawalsRight
  <1>17. Unborn'
    <2> SUFFICES ASSUME NEW x \in Owners \ existing'
                 PROVE  sp'[x] = 0 /\ received'[x] = 0 /\ withdrawals'[x].rate = 0
      BY DEF Unborn
    <2>1. x # b /\ x \in Owners \ existing
      BY <1>1
    <2>2. sp[x] = 0 /\ received[x] = 0 /\ withdrawals[x].rate = 0
      BY <2>1 DEF PowerInv, Unborn
    <2> QED BY <1>1, <1>6, <1>9, <2>1, <2>2, HoldersFacts
  <1> QED BY <1>11, <1>12, <1>13, <1>14, <1>15, <1>16, <1>17 DEF PowerInv

LEMMA CommitteeInv ==
  ASSUME PowerInv, NEW b \in Owners, account_create_by_committee(b)
  PROVE  PowerInv'
  <1> DEFINE amount == IF reg_pool < Bonus THEN reg_pool ELSE Bonus
  <1>1. /\ PowerTypes /\ b \notin existing /\ existing' = existing \cup {b} /\ b \in PowerHolders
        /\ UNCHANGED <<now, scr, delegated, received, delegations, min_time, limbo, withdrawals, routes,
                       reg_delegated>>
        /\ reg_pool' = reg_pool - amount /\ sp' = [sp EXCEPT ![b] = amount]
        /\ bonus' = [process_user_activity(Member) EXCEPT ![b] = now + BonusTime]
        /\ granted' = [granted EXCEPT ![b] = amount]
    BY HoldersFacts DEF PowerInv, account_create_by_committee
  <1>2. amount \in Nat /\ reg_pool \in Nat /\ reg_pool - amount \in Nat
    BY <1>1, VestingAssumption DEF PowerTypes, VestingTypeOK
  <1> HIDE DEF amount
  <1>3. received[b] = 0 /\ sp[b] = 0 /\ withdrawals[b].rate = 0
    BY <1>1 DEF PowerInv, Unborn
  <1>4. /\ sp' \in [PowerHolders -> Nat] /\ SumFunction(sp') = SumFunction(sp) + amount
        /\ SumFunction(sp) \in Nat /\ \A x \in PowerHolders : sp'[x] = sp[x] + IF x = b THEN amount ELSE 0
    <2>1. sp' = [sp EXCEPT ![b] = amount] /\ sp \in [PowerHolders -> Nat]
      BY <1>1 DEF PowerTypes, VestingTypeOK
    <2>2. sp' \in [PowerHolders -> Nat] /\ sp'[b] = amount /\ b \in PowerHolders
          /\ (\A x \in PowerHolders \ {b} : sp'[x] = sp[x]) /\ sp \in [PowerHolders -> Nat]
          /\ IsFiniteSet(PowerHolders)
      BY <1>1, <1>2, <2>1, HoldersFacts
    <2>3. SumFunction(sp) \in Nat /\ SumFunction(sp') = SumFunction(sp) - sp[b] + sp'[b]
      BY <2>2, EntryChanges
    <2>4. \A x \in PowerHolders : sp'[x] = sp[x] + IF x = b THEN amount ELSE 0
      BY <1>1, <1>3, <2>2
    <2> QED BY <1>1, <1>2, <1>3, <2>2, <2>3, <2>4
  <1>5. SumFunction(reg_delegated) \in Nat /\ SumFunction(scr) \in Nat
    BY <1>1, SumTypes DEF PowerTypes, VestingTypeOK
  <1>6. PowerConserved'
    BY <1>1, <1>2, <1>4, <1>5 DEF PowerInv, PowerConserved
  <1>7. bonus' \in [Owners -> Nat] /\ BonusRight'
    <2>1. now + BonusTime \in Nat
      BY <1>1, VestingAssumption DEF PowerTypes, VestingTypeOK
    <2>2. /\ bonus' \in [Owners -> Nat]
          /\ \A x \in Owners \ {b} : bonus'[x] # 0 => bonus[x] # 0
      BY <1>1, <2>1 DEF PowerTypes, process_user_activity
    <2> QED BY <1>1, <1>3, <2>2 DEF PowerInv, BonusRight
  <1>8. PowerTypes'
    <2>1. granted' \in [Owners -> Nat]
      BY <1>1, <1>2 DEF PowerTypes
    <2> QED BY <1>1, <1>2, <1>4, <1>7, <2>1 DEF PowerTypes, VestingTypeOK
  <1>9. DelegationsMatch' /\ WithdrawalsRight' /\ RoutesRight'
    BY <1>1, DelegationsKept, RoutesKept DEF PowerInv, WithdrawalsRight
  <1>10. DelegatedStays'
    <2> SUFFICES ASSUME NEW x \in Owners PROVE sp'[x] - delegated[x] >= WithdrawRest(x)
      BY <1>1 DEF DelegatedStays, WithdrawRest
    <2>1. sp'[x] = sp[x] + IF x = b THEN amount ELSE 0
      BY <1>4, HoldersFacts
    <2> QED BY <1>2, <2>1, AccountTypes
  <1>11. Unborn'
    <2> SUFFICES ASSUME NEW x \in Owners \ existing'
                 PROVE  sp'[x] = 0 /\ received'[x] = 0 /\ withdrawals'[x].rate = 0
      BY DEF Unborn
    <2>1. x # b /\ x \in Owners \ existing
      BY <1>1
    <2>2. sp[x] = 0 /\ received[x] = 0 /\ withdrawals[x].rate = 0
      BY <2>1 DEF PowerInv, Unborn
    <2> QED BY <1>1, <1>4, <2>1, <2>2, HoldersFacts
  <1> QED BY <1>6, <1>7, <1>8, <1>9, <1>10, <1>11 DEF PowerInv

LEMMA PoolLendsInv ==
  ASSUME PowerInv, NEW b \in Owners, NEW amount \in PowerAmounts, delegate_sp_from_reg_pool(b, amount)
  PROVE  PowerInv'
  <1> DEFINE extra == amount - reg_delegated[b]
  <1>1. /\ PowerTypes /\ b \in existing /\ amount \in Nat /\ reg_pool >= extra
        /\ UNCHANGED <<now, existing, scr, sp, delegated, delegations, min_time, limbo, withdrawals, routes>>
        /\ reg_pool' = reg_pool - extra /\ received' = [received EXCEPT ![b] = @ + extra]
        /\ reg_delegated' = [reg_delegated EXCEPT ![b] = amount]
    BY VestingAssumption DEF PowerInv, delegate_sp_from_reg_pool, PoolAfter
  <1>2. extra \in Int /\ reg_pool \in Nat /\ reg_pool - extra \in Nat /\ reg_delegated[b] \in Nat
    BY <1>1 DEF PowerTypes, VestingTypeOK
  <1>3. /\ reg_delegated' \in [Owners -> Nat] /\ SumFunction(reg_delegated') = SumFunction(reg_delegated) + extra
        /\ SumFunction(reg_delegated) \in Nat
        /\ \A x \in Owners : reg_delegated'[x] = reg_delegated[x] + IF x = b THEN extra ELSE 0
    <2>1. reg_delegated \in [Owners -> Nat] /\ reg_delegated' = [reg_delegated EXCEPT ![b] = amount]
          /\ amount \in Nat /\ IsFiniteSet(Owners)
      BY <1>1, HoldersFacts DEF PowerTypes, VestingTypeOK
    <2>2. reg_delegated' \in [Owners -> Nat] /\ reg_delegated'[b] = amount /\ IsFiniteSet(Owners)
          /\ (\A x \in Owners \ {b} : reg_delegated'[x] = reg_delegated[x]) /\ reg_delegated \in [Owners -> Nat]
      BY <2>1
    <2>3. /\ SumFunction(reg_delegated) \in Nat
          /\ SumFunction(reg_delegated') = SumFunction(reg_delegated) - reg_delegated[b] + reg_delegated'[b]
      BY <2>2, EntryChanges
    <2>4. \A x \in Owners : reg_delegated'[x] = reg_delegated[x] + IF x = b THEN extra ELSE 0
      BY <1>1, <1>2, <2>2
    <2> QED BY <1>1, <1>2, <2>2, <2>3, <2>4
  <1>4. received[b] + extra \in Nat
    <2>1. Got(delegations, b) \in Nat
      <3>1. delegations \in [Pairs -> Nat] /\ Owners \X {b} \subseteq Pairs
        BY <1>1 DEF PowerTypes, Pairs
      <3>2. IsFiniteSet(Owners \X {b}) /\ \A p \in Owners \X {b} : delegations[p] \in Nat
        BY <3>1, HoldersFacts, FS_Subset
      <3> QED BY <3>2, SumNatural DEF Got
    <2> QED BY <1>1, <1>2, <2>1, AccountTypes
  <1>5. /\ received' \in [Owners -> Nat]
        /\ \A x \in Owners : received'[x] = received[x] + IF x = b THEN extra ELSE 0
    BY <1>1, <1>2, <1>4 DEF PowerTypes, VestingTypeOK
  <1> HIDE DEF extra
  <1>6. SumFunction(sp) \in Nat /\ SumFunction(scr) \in Nat
    BY <1>1, SumTypes DEF PowerTypes, VestingTypeOK
  <1>7. PowerConserved'
    BY <1>1, <1>2, <1>3, <1>6 DEF PowerInv, PowerConserved
  <1>8. bonus' \in [Owners -> Nat] /\ granted' = granted /\ BonusRight'
    BY <1>1, ActivityKeeps DEF delegate_sp_from_reg_pool, PowerInv
  <1>9. PowerTypes'
    BY <1>1, <1>2, <1>3, <1>5, <1>8 DEF PowerTypes, VestingTypeOK
  <1>10. DelegationsMatch'
    <2> SUFFICES ASSUME NEW x \in Owners
                 PROVE  /\ delegated[x] = Given(delegations, x) + SumFunction(limbo[x])
                        /\ received'[x] = Got(delegations, x) + reg_delegated'[x]
      BY <1>1 DEF DelegationsMatch, Given, Got
    <2>1. Got(delegations, x) \in Int
      <3>1. delegations \in [Pairs -> Nat] /\ Owners \X {x} \subseteq Pairs
        BY <1>1 DEF PowerTypes, Pairs
      <3>2. IsFiniteSet(Owners \X {x}) /\ \A p \in Owners \X {x} : delegations[p] \in Int
        BY <3>1, HoldersFacts, FS_Subset
      <3> QED BY <3>2, SumInteger DEF Got
    <2> QED BY <1>2, <1>3, <1>5, <2>1, AccountTypes
  <1>11. DelegatedStays' /\ WithdrawalsRight' /\ RoutesRight'
    BY <1>1, RoutesKept DEF PowerInv, DelegatedStays, WithdrawRest, WithdrawalsRight
  <1>12. Unborn'
    BY <1>1, <1>5 DEF PowerInv, Unborn
  <1> QED BY <1>7, <1>8, <1>9, <1>10, <1>11, <1>12 DEF PowerInv

-----------------------------------------------------------------------------
(***************************************************************************)
(* Instalments.                                                            *)
(***************************************************************************)
ShareTo(h, amount) ==
    [to \in PowerHolders |-> IF to \in Destinations(h) THEN Share(amount, routes[<<h, to>>].percent) ELSE 0]

\* A share is a natural number, and times the whole at most the percent of the amount.
LEMMA ShareFacts ==
  ASSUME NEW amount \in Nat, NEW percent \in 0 .. Whole
  PROVE  /\ Share(amount, percent) \in Nat /\ Whole * Share(amount, percent) <= amount * percent
         /\ Share(amount, 0) = 0
  <1>1. Whole \in Nat /\ Whole >= 1 /\ percent \in Nat
    BY HoldersFacts
  <1>2. \A n \in Nat : n \div Whole \in Nat /\ n % Whole \in 0 .. Whole - 1 /\ n = (n \div Whole) * Whole + (n % Whole)
    BY <1>1, Divided
  <1> DEFINE x == amount * percent
             q == x \div Whole
             r == x % Whole
  <1>3. x \in Nat
    BY <1>1
  <1>4. q \in Nat /\ r \in 0 .. Whole - 1 /\ x = q * Whole + r
    BY <1>2, <1>3
  <1>5. Share(amount, percent) = q
    BY DEF Share
  <1> HIDE DEF x, q, r
  <1>6. Whole * q <= x
    BY <1>1, <1>3, <1>4
  <1>7. Share(amount, 0) = 0
    <2>1. amount * 0 = 0 * Whole + 0 /\ 0 \in 0 .. Whole - 1 /\ 0 \in Nat
      BY <1>1
    <2>2. (0 * Whole + 0) \div Whole = 0
      BY <1>1, <2>1, DivMod
    <2> QED BY <2>1, <2>2 DEF Share
  <1> QED BY <1>4, <1>5, <1>6, <1>7 DEF x

\* The shares of an instalment together are no more than the instalment.
LEMMA SharesWithin ==
  ASSUME PowerTypes, RoutesRight, NEW h \in PowerHolders, NEW amount \in Nat,
         NEW share, share = ShareTo(h, amount)
  PROVE  /\ share \in [PowerHolders -> Nat]
         /\ SumFunction(share) \in Nat /\ SumFunction(share) <= amount
         /\ SumFunction(share) = SumFunctionOnSet(share, PowerHolders)
         /\ \A a \in Owners \ existing : share[a] = 0
  <1>0. \A d \in PowerHolders : routes[<<h, d>>] \in Route /\ routes[<<h, d>>].percent \in 0 .. Whole
    BY DEF PowerTypes, Route
  <1>1. share \in [PowerHolders -> Nat]
    BY <1>0, ShareFacts DEF ShareTo
  <1>2. \A a \in Owners \ existing : share[a] = 0
    <2> SUFFICES ASSUME NEW a \in Owners \ existing PROVE a \notin Destinations(h)
      BY HoldersFacts DEF ShareTo
    <2> QED BY HoldersFacts DEF Destinations, RoutesRight, Exists
  <1> DEFINE S == PowerHolders \ {0}
             P == PercentsOf(h)
             f == [d \in PowerHolders |-> amount * P[d]]
             w == [d \in PowerHolders |-> Whole * share[d]]
  <1>3. /\ IsFiniteSet(S) /\ S \subseteq PowerHolders /\ IsFiniteSet(PowerHolders) /\ 0 \in PowerHolders
        /\ Whole \in Nat /\ Whole >= 1 /\ Whole \in Int
    BY HoldersFacts, FS_Subset
  <1>4. \A d \in S : P[d] \in Nat /\ P[d] \in Int /\ f[d] = amount * P[d] /\ share[d] \in Nat /\ share[d] \in Int
                     /\ w[d] = Whole * share[d]
    BY <1>0, <1>1, <1>3 DEF PercentsOf
  <1>5. \A d \in S : f[d] \in Int /\ w[d] \in Int /\ w[d] <= f[d]
    <2> SUFFICES ASSUME NEW d \in S PROVE w[d] <= f[d] /\ f[d] \in Int /\ w[d] \in Int
      OBVIOUS
    <2>1. P[d] = routes[<<h, d>>].percent /\ P[d] \in 0 .. Whole /\ d \in PowerHolders
      BY <1>0, <1>3 DEF PercentsOf
    <2>2. share[d] = Share(amount, P[d]) \/ share[d] = 0
      BY <2>1 DEF ShareTo
    <2>3. Whole * Share(amount, P[d]) <= amount * P[d]
      BY <2>1, ShareFacts
    <2>4. f[d] = amount * P[d] /\ w[d] = Whole * share[d] /\ f[d] \in Nat /\ w[d] \in Int
      BY <1>3, <1>4
    <2>5. CASE share[d] = 0
      <3>1. w[d] = 0
        BY <2>4, <2>5, <1>3
      <3> QED BY <2>4, <3>1
    <2>6. CASE share[d] = Share(amount, P[d])
      BY <2>3, <2>4, <2>6
    <2> QED BY <2>2, <2>5, <2>6
  <1>6. SumFunctionOnSet(P, S) <= Whole
    BY DEF RoutesRight
  <1>7. share[0] = 0 /\ share[0] \in Int
    BY <1>3 DEF ShareTo, Destinations
  <1>8. (\A d \in PowerHolders : share[d] \in Int) /\ SumFunction(share) = SumFunctionOnSet(share, PowerHolders)
        /\ SumFunctionOnSet(share, PowerHolders) \in Nat
    BY <1>1, <1>3, SumType
  <1> HIDE DEF f, w, P
  <1>9. SumFunctionOnSet(share, PowerHolders) = share[0] + SumFunctionOnSet(share, S)
    BY <1>3, <1>8, SumTake
  <1>10. SumFunctionOnSet(w, S) <= SumFunctionOnSet(f, S)
    BY <1>3, <1>5, SumLess
  <1>11. SumFunctionOnSet(w, S) = Whole * SumFunctionOnSet(share, S)
    BY <1>3, <1>4, SumTimes
  <1>12. SumFunctionOnSet(f, S) = amount * SumFunctionOnSet(P, S)
    BY <1>3, <1>4, SumTimes
  <1>13. SumFunctionOnSet(P, S) \in Nat /\ SumFunctionOnSet(share, S) \in Nat
    BY <1>3, <1>4, SumNatural
  <1> DEFINE p == SumFunctionOnSet(P, S)
             t == SumFunctionOnSet(share, S)
  <1>14. p \in Nat /\ t \in Nat /\ p <= Whole /\ Whole * t <= amount * p
    BY <1>6, <1>10, <1>11, <1>12, <1>13
  <1> HIDE DEF p, t
  <1>15. amount * p <= amount * Whole
    <2>1. amount * Whole = amount * p + amount * (Whole - p) /\ amount * (Whole - p) >= 0
      BY <1>3, <1>14
    <2> QED BY <1>3, <1>14, <2>1
  <1>16. t * Whole <= amount * Whole
    BY <1>3, <1>14, <1>15
  <1>17. t <= amount
    <2>1. t \in Int /\ amount \in Int
      BY <1>14
    <2> QED BY <1>3, <1>16, <2>1, Monotone
  <1> QED BY <1>1, <1>2, <1>7, <1>8, <1>9, <1>14, <1>17 DEF t

\* The balances and withdrawals that instalments change.
Purses == [sp : [PowerHolders -> Nat], scr : [PowerHolders -> Nat], withdrawals : [PowerHolders -> Withdrawal]]

\* What holds of them between two withdrawals, lent being what each account has delegated.
Held(s, total, lent) ==
    /\ SumFunctionOnSet(s.sp, PowerHolders) + SumFunctionOnSet(s.scr, PowerHolders) = total
    /\ \A h \in PowerHolders : /\ GoodWithdrawal(s.withdrawals[h])
                               /\ withdrawals[h].rate = 0 => s.withdrawals[h].rate = 0
    /\ \A a \in Owners : s.sp[a] - lent[a] >= Rest(s.withdrawals[a])
    /\ \A a \in Owners \ existing : s.sp[a] = 0

\* A withdrawal that goes on or ends is right again, and less is left of it.
LEMMA WithdrawalGoesOn ==
  ASSUME NEW w, GoodWithdrawal(w), NEW power \in Nat, NEW amount, amount = Instalment(w, power), amount # 0,
         NEW v, v = IF Finished(w, amount, power) THEN NoWithdrawal
                    ELSE [w EXCEPT !.withdrawn = @ + amount, !.next = @ + 1]
  PROVE  /\ GoodWithdrawal(v) /\ v \in Withdrawal /\ w.rate # 0
         /\ Rest(v) <= Rest(w) - amount
  <1>1. /\ amount \in Nat /\ amount <= power /\ amount <= Rest(w) /\ w.rate # 0
        /\ ~Finished(w, amount, power) => (w.withdrawn + amount) % w.rate = 0 /\ w.withdrawn + amount < w.to_withdraw
    BY InstalmentFacts
  <1>2. w \in Withdrawal /\ w.withdrawn \in Nat /\ w.to_withdraw \in Nat /\ w.next \in Nat /\ w.rate \in Nat
    BY DEF GoodWithdrawal, Withdrawal
  <1>3. CASE Finished(w, amount, power)
    BY <1>1, <1>2, <1>3, NoWithdrawalGood DEF GoodWithdrawal, Rest
  <1>4. CASE ~Finished(w, amount, power)
    <2>1. v = [rate |-> w.rate, next |-> w.next + 1, to_withdraw |-> w.to_withdraw, withdrawn |-> w.withdrawn + amount]
      BY <1>2, <1>4 DEF Withdrawal
    <2>2. v.rate = w.rate /\ v.to_withdraw = w.to_withdraw /\ v.withdrawn = w.withdrawn + amount /\ v \in Withdrawal
      BY <1>1, <1>2, <2>1 DEF Withdrawal
    <2> QED BY <1>1, <1>2, <1>4, <2>2 DEF GoodWithdrawal, Rest
  <1> QED BY <1>3, <1>4

LEMMA WithdrawHeld ==
  ASSUME PowerTypes, RoutesRight, NEW total \in Int, NEW lent \in [Owners -> Nat],
         NEW s \in Purses, Held(s, total, lent), NEW h \in PowerHolders
  PROVE  Withdraw(s, h) \in Purses /\ Held(Withdraw(s, h), total, lent)
  <1> DEFINE w == s.withdrawals[h]
             amount == Instalment(w, s.sp[h])
             share == ShareTo(h, amount)
             rest == amount - SumFunction(share)
             toSp == [to \in PowerHolders |-> IF routes[<<h, to>>].auto_vest THEN share[to] ELSE 0]
             v == IF Finished(w, amount, s.sp[h]) THEN NoWithdrawal
                  ELSE [w EXCEPT !.withdrawn = @ + amount, !.next = @ + 1]
             newSp == [x \in PowerHolders |-> s.sp[x] + toSp[x] - IF x = h THEN amount ELSE 0]
             newScr == [x \in PowerHolders |-> s.scr[x] + share[x] - toSp[x] + IF x = h THEN rest ELSE 0]
  <1>1. /\ s.sp \in [PowerHolders -> Nat] /\ s.scr \in [PowerHolders -> Nat]
        /\ s.withdrawals \in [PowerHolders -> Withdrawal] /\ s = [sp |-> s.sp, scr |-> s.scr, withdrawals |-> s.withdrawals]
    BY DEF Purses
  <1>2. GoodWithdrawal(w) /\ s.sp[h] \in Nat
    BY <1>1 DEF Held
  <1>3. amount \in Nat /\ amount <= s.sp[h] /\ amount <= Rest(w) /\ (w.rate = 0 => amount = 0)
    BY <1>2, InstalmentFacts
  <1>4. CASE amount = 0
    <2> DEFINE n == [s.withdrawals EXCEPT ![h] = NoWithdrawal]
    <2>1. Withdraw(s, h) = [sp |-> s.sp, scr |-> s.scr, withdrawals |-> n]
      <3>1. Withdraw(s, h) = [s EXCEPT !.withdrawals[h] = NoWithdrawal]
        BY <1>4 DEF Withdraw
      <3> QED BY <1>1, <3>1
    <2>2. n \in [PowerHolders -> Withdrawal] /\ n[h] = NoWithdrawal /\ \A x \in PowerHolders \ {h} : n[x] = s.withdrawals[x]
      BY <1>1, NoWithdrawalGood DEF GoodWithdrawal
    <2> HIDE DEF n
    <2>3. Withdraw(s, h) \in Purses
      BY <1>1, <2>1, <2>2 DEF Purses
    <2>4. \A x \in PowerHolders : GoodWithdrawal(n[x]) /\ (withdrawals[x].rate = 0 => n[x].rate = 0)
      BY <2>2, NoWithdrawalGood DEF Held
    <2>5. \A a \in Owners : s.sp[a] - lent[a] >= Rest(n[a])
      <3> SUFFICES ASSUME NEW a \in Owners PROVE s.sp[a] - lent[a] >= Rest(n[a])
        OBVIOUS
      <3>1. s.sp[a] - lent[a] >= Rest(s.withdrawals[a])
        BY DEF Held
      <3>2. CASE a = h
        <4>1. Rest(w) \in Nat /\ Rest(n[a]) = 0 /\ s.sp[a] \in Int /\ lent[a] \in Int
          BY <1>1, <1>2, <2>2, <3>2, RestPositive, NoWithdrawalGood, HoldersFacts
        <4> QED BY <3>1, <3>2, <4>1
      <3>3. CASE a # h
        BY <3>1, <3>3, <2>2, HoldersFacts
      <3> QED BY <3>2, <3>3
    <2> QED BY <2>1, <2>3, <2>4, <2>5 DEF Held
  <1>5. CASE amount # 0
    <2>1. Withdraw(s, h) = [sp |-> newSp, scr |-> newScr, withdrawals |-> [s.withdrawals EXCEPT ![h] = v]]
      BY <1>5 DEF Withdraw, ShareTo
    <2>2. GoodWithdrawal(v) /\ v \in Withdrawal /\ w.rate # 0 /\ Rest(v) <= Rest(w) - amount
      BY <1>2, <1>5, WithdrawalGoesOn
    <2>3. /\ share \in [PowerHolders -> Nat] /\ SumFunction(share) \in Nat /\ SumFunction(share) <= amount
          /\ SumFunction(share) = SumFunctionOnSet(share, PowerHolders) /\ \A a \in Owners \ existing : share[a] = 0
      BY <1>3, SharesWithin
    <2> HIDE DEF w, amount, share, v
    <2>4. rest \in Nat
      BY <1>3, <2>3
    <2>5. /\ toSp \in [PowerHolders -> Nat] /\ \A x \in PowerHolders : toSp[x] <= share[x]
      BY <2>3
    <2> HIDE DEF rest, toSp
    <2>6. newSp \in [PowerHolders -> Nat] /\ newScr \in [PowerHolders -> Nat]
      <3>1. \A x \in PowerHolders : s.sp[x] + toSp[x] - (IF x = h THEN amount ELSE 0) \in Nat
        BY <1>1, <1>3, <2>5
      <3>2. \A x \in PowerHolders : s.scr[x] + share[x] - toSp[x] + (IF x = h THEN rest ELSE 0) \in Nat
        BY <1>1, <2>3, <2>4, <2>5
      <3> QED BY <3>1, <3>2
    <2>7. SumFunctionOnSet(newSp, PowerHolders) + SumFunctionOnSet(newScr, PowerHolders)
            = SumFunctionOnSet(s.sp, PowerHolders) + SumFunctionOnSet(s.scr, PowerHolders)
      <3> DEFINE S == PowerHolders
                 out == [x \in S |-> IF x = h THEN -amount ELSE 0]
                 in == [x \in S |-> IF x = h THEN rest ELSE 0]
                 back == [x \in S |-> -toSp[x]]
                 m1 == [x \in S |-> s.sp[x] + toSp[x]]
                 m2 == [x \in S |-> s.scr[x] + share[x]]
                 m3 == [x \in S |-> m2[x] + back[x]]
      <3>1. IsFiniteSet(S) BY HoldersFacts
      <3>2. \A x \in S : /\ s.sp[x] \in Int /\ toSp[x] \in Int /\ m1[x] = s.sp[x] + toSp[x] /\ m1[x] \in Int
                         /\ out[x] \in Int /\ newSp[x] = m1[x] + out[x]
        BY <1>1, <1>3, <2>5
      <3>3. \A x \in S : /\ s.scr[x] \in Int /\ share[x] \in Int /\ m2[x] = s.scr[x] + share[x] /\ m2[x] \in Int
                         /\ back[x] \in Int /\ back[x] = (-1) * toSp[x] /\ m3[x] = m2[x] + back[x] /\ m3[x] \in Int
                         /\ in[x] \in Int /\ newScr[x] = m3[x] + in[x]
        BY <1>1, <2>3, <2>4, <2>5
      <3>4. out[h] = -amount /\ in[h] = rest /\ (\A x \in S \ {h} : out[x] = 0) /\ (\A x \in S \ {h} : in[x] = 0)
            /\ out[h] \in Int /\ in[h] \in Int
        BY <1>3, <2>4
      <3> HIDE DEF out, in, back, m1, m2, m3, newSp, newScr, S
      <3>5. SumFunctionOnSet(m1, S) = SumFunctionOnSet(s.sp, S) + SumFunctionOnSet(toSp, S)
        BY <3>1, <3>2, SumPlus
      <3>6. SumFunctionOnSet(newSp, S) = SumFunctionOnSet(m1, S) + SumFunctionOnSet(out, S)
        BY <3>1, <3>2, SumPlus
      <3>7. SumFunctionOnSet(m2, S) = SumFunctionOnSet(s.scr, S) + SumFunctionOnSet(share, S)
        BY <3>1, <3>3, SumPlus
      <3>8. SumFunctionOnSet(m3, S) = SumFunctionOnSet(m2, S) + SumFunctionOnSet(back, S)
        BY <3>1, <3>3, SumPlus
      <3>9. SumFunctionOnSet(newScr, S) = SumFunctionOnSet(m3, S) + SumFunctionOnSet(in, S)
        BY <3>1, <3>3, SumPlus
      <3>10. SumFunctionOnSet(back, S) = (-1) * SumFunctionOnSet(toSp, S)
        <4>1. -1 \in Int /\ \A x \in S : toSp[x] \in Int /\ back[x] = (-1) * toSp[x]
          BY <3>2, <3>3
        <4> QED BY <3>1, <4>1, SumTimes
      <3>11. SumFunctionOnSet(out, S) = -amount /\ SumFunctionOnSet(in, S) = rest
        <4>1. h \in S BY DEF S
        <4>2. SumFunctionOnSet(out, S) = out[h]
          BY <3>1, <3>4, <4>1, SumSingle
        <4>3. SumFunctionOnSet(in, S) = in[h]
          BY <3>1, <3>4, <4>1, SumSingle
        <4> QED BY <3>4, <4>2, <4>3
      <3>12. /\ SumFunctionOnSet(s.sp, S) \in Int /\ SumFunctionOnSet(s.scr, S) \in Int
             /\ SumFunctionOnSet(toSp, S) \in Int /\ SumFunctionOnSet(share, S) \in Int
        BY <3>1, <3>2, <3>3, SumInteger
      <3>13. rest = amount - SumFunctionOnSet(share, S) /\ amount \in Int
        BY <1>3, <2>3 DEF rest, S
      <3>14. SumFunctionOnSet(newSp, S) + SumFunctionOnSet(newScr, S) = SumFunctionOnSet(s.sp, S) + SumFunctionOnSet(s.scr, S)
        BY <3>5, <3>6, <3>7, <3>8, <3>9, <3>10, <3>11, <3>12, <3>13
      <3> QED BY <3>14 DEF S
    <2> DEFINE n == [s.withdrawals EXCEPT ![h] = v]
    <2>8. n \in [PowerHolders -> Withdrawal] /\ n[h] = v /\ \A x \in PowerHolders \ {h} : n[x] = s.withdrawals[x]
      BY <1>1, <2>2
    <2>9. \A a \in Owners : newSp[a] = s.sp[a] + toSp[a] - IF a = h THEN amount ELSE 0
      BY HoldersFacts
    <2> HIDE DEF n, newSp, newScr
    <2>10. Withdraw(s, h) \in Purses
      BY <2>1, <2>6, <2>8 DEF Purses, n
    <2>11. \A x \in PowerHolders : GoodWithdrawal(n[x]) /\ (withdrawals[x].rate = 0 => n[x].rate = 0)
      BY <2>2, <2>8 DEF Held, w
    <2>12. \A a \in Owners : newSp[a] - lent[a] >= Rest(n[a])
      <3> SUFFICES ASSUME NEW a \in Owners PROVE newSp[a] - lent[a] >= Rest(n[a])
        OBVIOUS
      <3>1. s.sp[a] - lent[a] >= Rest(s.withdrawals[a]) /\ s.sp[a] \in Nat /\ lent[a] \in Nat /\ toSp[a] \in Nat
            /\ a \in PowerHolders /\ GoodWithdrawal(s.withdrawals[a])
        BY <1>1, <2>5, HoldersFacts DEF Held
      <3>2. Rest(s.withdrawals[a]) \in Nat
        BY <3>1, RestPositive
      <3>3. CASE a = h
        <4>1. Rest(n[a]) <= Rest(s.withdrawals[a]) - amount /\ Rest(n[a]) \in Nat
          BY <2>2, <2>8, <3>3, RestPositive DEF w
        <4> QED BY <1>3, <2>9, <3>1, <3>2, <3>3, <4>1
      <3>4. CASE a # h
        <4>1. n[a] = s.withdrawals[a] /\ newSp[a] = s.sp[a] + toSp[a] - 0
          BY <2>8, <2>9, <3>1, <3>4
        <4> QED BY <3>1, <3>2, <4>1
      <3> QED BY <3>3, <3>4
    <2>13. \A a \in Owners \ existing : newSp[a] = 0
      <3> SUFFICES ASSUME NEW a \in Owners \ existing PROVE newSp[a] = 0
        OBVIOUS
      <3>1. s.sp[a] = 0 /\ a \in PowerHolders /\ toSp[a] = 0
        BY <2>3, <2>5, HoldersFacts DEF Held
      <3>2. CASE a = h
        <4>1. amount = 0
          BY <1>3, <3>1, <3>2
        <4> QED BY <4>1, <1>5 DEF amount
      <3>3. CASE a # h
        BY <2>9, <3>1, <3>3
      <3> QED BY <3>2, <3>3
    <2> QED BY <2>1, <2>7, <2>10, <2>11, <2>12, <2>13 DEF Held, n
  <1> QED BY <1>4, <1>5

\* Listed earlier: by time, then by object.
Before(g, h) ==
    \/ withdrawals[g].next < withdrawals[h].next
    \/ withdrawals[g].next = withdrawals[h].next /\ g < h

LEMMA LastIsListed ==
  ASSUME PowerTypes, NEW S \in SUBSET PowerHolders, S # {}
  PROVE  LastListed(S) \in S
  <1> DEFINE HasLast(T) == T = {} \/ \E h \in T : \A g \in T \ {h} : Before(g, h)
             G == {T \in SUBSET S : HasLast(T)}
  <1>0. \A h \in S : h \in Int /\ withdrawals[h].next \in Nat
    BY HoldersFacts DEF PowerTypes, Withdrawal
  <1>1. \A g, h, k \in S : /\ g # h => Before(g, h) \/ Before(h, g)
                           /\ Before(g, h) /\ Before(h, k) => Before(g, k)
    BY <1>0 DEF Before
  <1>2. {} \in G
    OBVIOUS
  <1>3. ASSUME NEW T \in SUBSET S, NEW x \in S \ T, T \in G PROVE T \cup {x} \in G
    <2>1. CASE T = {}
      <3>1. x \in T \cup {x} /\ \A g \in (T \cup {x}) \ {x} : Before(g, x)
        BY <2>1
      <3> QED BY <3>1
    <2>2. CASE T # {}
      <3>1. PICK h \in T : \A g \in T \ {h} : Before(g, h)
        BY <1>3, <2>2
      <3>2. CASE Before(x, h)
        <4>1. h \in T \cup {x} /\ \A g \in (T \cup {x}) \ {h} : Before(g, h)
          BY <3>1, <3>2
        <4> QED BY <4>1
      <3>3. CASE Before(h, x)
        <4>1. x \in T \cup {x} /\ \A g \in (T \cup {x}) \ {x} : Before(g, x)
          BY <1>1, <3>1, <3>3
        <4> QED BY <4>1
      <3> QED BY <1>1, <3>1, <3>2, <3>3
    <2> QED BY <2>1, <2>2
  <1>4. IsFiniteSet(S)
    BY HoldersFacts, FS_Subset
  <1> HIDE DEF G
  <1>5. S \in G
    BY <1>2, <1>3, <1>4, SetInduction
  <1>6. \E h \in S : \A g \in S \ {h} : Before(g, h)
    BY <1>5 DEF G
  <1> QED BY <1>6 DEF LastListed, Before

\* One step of the fold, and the fold.
PaidStep(f, T) ==
    IF T = {} THEN [sp |-> sp, scr |-> scr, withdrawals |-> withdrawals]
    ELSE Withdraw(f[T \ {LastListed(T)}], LastListed(T))

Paid(S) == CHOOSE f : f = [T \in SUBSET S |-> PaidStep(f, T)]

LEMMA ProcessIsPaid ==
  ASSUME NEW time PROVE process_vesting_withdrawals(time) = Paid(DueWithdrawals(time))[DueWithdrawals(time)]
  BY DEF process_vesting_withdrawals, MapThenFoldSet, Paid, PaidStep

\* However many withdrawals are due, what held before them holds after them.
LEMMA PaidHeld ==
  ASSUME PowerTypes, RoutesRight, NEW total \in Int, NEW lent \in [Owners -> Nat],
         Held([sp |-> sp, scr |-> scr, withdrawals |-> withdrawals], total, lent), NEW time
  PROVE  LET after == process_vesting_withdrawals(time) IN after \in Purses /\ Held(after, total, lent)
  <1> DEFINE S == DueWithdrawals(time)
             X == {s \in Purses : Held(s, total, lent)}
             base == [sp |-> sp, scr |-> scr, withdrawals |-> withdrawals]
             take == [T \in SUBSET S |-> LastListed(T)]
             step == [h \in S |-> [s \in X |-> Withdraw(s, h)]]
  <1>1. S \in SUBSET PowerHolders /\ IsFiniteSet(S)
    BY HoldersFacts, FS_Subset DEF DueWithdrawals
  <1>2. base \in X
    BY DEF PowerTypes, VestingTypeOK, Purses
  <1>3. \A T \in SUBSET S : T # {} => LastListed(T) \in T
    BY <1>1, LastIsListed
  <1>4. step \in [S -> [X -> X]]
    BY <1>1, WithdrawHeld
  <1>5. \A T \in SUBSET S : T # {} => take[T] \in T
    BY <1>3
  <1>6. \A h \in S, s \in X : step[h][s] = Withdraw(s, h)
    OBVIOUS
  <1>7. \A T \in SUBSET S : take[T] = LastListed(T)
    OBVIOUS
  <1> HIDE DEF X, step, take
  <1>8. PICK g : FoldsTo(g, S, X, base, take, step)
    BY <1>1, <1>2, <1>4, <1>5, FoldExists
  <1>9. g = [T \in SUBSET S |-> PaidStep(g, T)]
    <2>1. g \in [SUBSET S -> X] /\ g[{}] = base
      BY <1>8 DEF FoldsTo
    <2>2. ASSUME NEW T \in SUBSET S, T # {} PROVE g[T] = Withdraw(g[T \ {LastListed(T)}], LastListed(T))
      <3>1. g[T] = step[take[T]][g[T \ {take[T]}]]
        BY <1>8, <2>2 DEF FoldsTo
      <3>2. take[T] = LastListed(T) /\ LastListed(T) \in S /\ T \ {LastListed(T)} \in SUBSET S
        BY <1>3, <1>7, <2>2
      <3>3. g[T \ {LastListed(T)}] \in X
        BY <2>1, <3>2
      <3> QED BY <1>6, <3>1, <3>2, <3>3
    <2>3. \A T \in SUBSET S : g[T] = PaidStep(g, T)
      BY <2>1, <2>2 DEF PaidStep
    <2> QED BY <2>1, <2>3
  <1>10. Paid(S) = [T \in SUBSET S |-> PaidStep(Paid(S), T)]
    BY <1>9 DEF Paid
  <1> DEFINE p == Paid(S)
             reached == {n \in Nat : \A T \in SUBSET S : Cardinality(T) <= n => p[T] \in X}
  <1>11. \A T \in SUBSET S : p[T] = PaidStep(p, T)
    BY <1>10
  <1>12. \A T \in SUBSET S : IsFiniteSet(T) /\ Cardinality(T) \in Nat /\ (Cardinality(T) = 0 <=> T = {})
    BY <1>1, FS_Subset, FS_CardinalityType, FS_EmptySet
  <1> HIDE DEF p, S
  <1>13. 0 \in reached
    <2>1. ASSUME NEW T \in SUBSET S, Cardinality(T) <= 0 PROVE p[T] \in X
      <3>1. T = {}
        BY <1>12, <2>1
      <3> QED BY <1>2, <1>11, <3>1 DEF PaidStep
    <2> QED BY <2>1
  <1>14. ASSUME NEW n \in Nat, n \in reached PROVE n + 1 \in reached
    <2>1. ASSUME NEW T \in SUBSET S, Cardinality(T) <= n + 1 PROVE p[T] \in X
      <3>1. CASE T = {}
        BY <1>2, <1>11, <3>1 DEF PaidStep
      <3>2. CASE T # {}
        <4>1. LastListed(T) \in T /\ LastListed(T) \in S
          BY <1>3, <3>2
        <4>2. T \ {LastListed(T)} \in SUBSET S /\ Cardinality(T \ {LastListed(T)}) <= n
          BY <1>1, <2>1, <4>1, Smaller
        <4>3. p[T \ {LastListed(T)}] \in X
          BY <1>14, <4>2
        <4>4. p[T] = Withdraw(p[T \ {LastListed(T)}], LastListed(T))
          BY <1>11, <3>2 DEF PaidStep
        <4>5. step[LastListed(T)][p[T \ {LastListed(T)}]] \in X
          BY <1>4, <4>1, <4>3
        <4> QED BY <1>6, <4>1, <4>3, <4>4, <4>5
      <3> QED BY <3>1, <3>2
    <2>2. n + 1 \in Nat
      OBVIOUS
    <2> QED BY <2>1, <2>2
  <1>15. Nat \subseteq reached
    <2> HIDE DEF reached
    <2> QED BY <1>13, <1>14, NatSetInduction
  <1>16. p[S] \in X
    <2>1. Cardinality(S) \in Nat /\ S \in SUBSET S /\ Cardinality(S) <= Cardinality(S)
      BY <1>12
    <2> QED BY <1>15, <2>1
  <1>17. process_vesting_withdrawals(time) = p[S]
    BY ProcessIsPaid DEF p, S
  <1> QED BY <1>16, <1>17 DEF X

-----------------------------------------------------------------------------
(***************************************************************************)
(* A block, the initial state and the theorem.                             *)
(***************************************************************************)
\* What comes back is what limbo loses.
LEMMA LimboLapses ==
  ASSUME NEW f \in [Times -> Nat], NEW time \in Int,
         NEW g, g = [t \in Times |-> IF t < time THEN 0 ELSE f[t]]
  PROVE  LET lapsed == SumFunctionOnSet(f, {t \in Times : t < time})
         IN  /\ lapsed \in Nat /\ g \in [Times -> Nat]
             /\ SumFunction(g) \in Nat /\ SumFunction(f) = SumFunction(g) + lapsed
  <1> DEFINE P == {t \in Times : t < time}
             Q == Times \ P
  <1>1. P \in SUBSET Times /\ IsFiniteSet(P) /\ IsFiniteSet(Q) /\ IsFiniteSet(Times)
    BY FiniteTimes, FS_Subset
  <1>2. /\ g \in [Times -> Nat] /\ (\A t \in Times : f[t] \in Int /\ g[t] \in Int) /\ (\A t \in P : f[t] \in Nat)
        /\ (\A t \in P : g[t] = 0) /\ (\A t \in Q : g[t] = f[t])
    OBVIOUS
  <1> HIDE DEF P, Q
  <1>3. SumFunctionOnSet(f, P) \in Nat
    BY <1>1, <1>2, SumNatural
  <1>4. SumFunction(f) = SumFunctionOnSet(f, Times) /\ SumFunction(g) = SumFunctionOnSet(g, Times)
        /\ SumFunctionOnSet(f, Times) \in Nat /\ SumFunctionOnSet(g, Times) \in Nat
    BY <1>1, <1>2, SumType
  <1>5. SumFunctionOnSet(f, Times) = SumFunctionOnSet(f, Q) + SumFunctionOnSet(f, P)
    BY <1>1, <1>2, SumSplit DEF Q
  <1>6. SumFunctionOnSet(g, Times) = SumFunctionOnSet(g, Q) + SumFunctionOnSet(g, P)
    BY <1>1, <1>2, SumSplit DEF Q
  <1>7. SumFunctionOnSet(g, P) = 0 /\ SumFunctionOnSet(g, Q) = SumFunctionOnSet(f, Q)
    BY <1>1, <1>2, SumZero, SumAgree
  <1>8. SumFunctionOnSet(f, Q) \in Int
    <2>1. \A t \in Q : f[t] \in Int
      BY <1>2 DEF Q
    <2> QED BY <1>1, <2>1, SumInteger
  <1> QED BY <1>2, <1>3, <1>4, <1>5, <1>6, <1>7, <1>8 DEF P

LEMMA LapseFacts ==
  ASSUME PowerInv, ApplyBlock
  PROVE  /\ delegated' \in [Owners -> Nat] /\ limbo' \in [Owners -> [Times -> Nat]]
         /\ \A a \in Owners : /\ delegated'[a] <= delegated[a]
                              /\ delegated'[a] = Given(delegations, a) + SumFunction(limbo'[a])
  <1>1. /\ delegated' = [a \in Owners |-> delegated[a] - Lapsed(a, now')]
        /\ limbo' = [a \in Owners |-> [t \in Times |-> IF t < now' THEN 0 ELSE limbo[a][t]]]
        /\ now' \in Int
    BY DEF ApplyBlock, PowerInv, PowerTypes, VestingTypeOK
  <1>2. ASSUME NEW a \in Owners
        PROVE  /\ Lapsed(a, now') \in Nat /\ limbo'[a] \in [Times -> Nat] /\ SumFunction(limbo'[a]) \in Nat
               /\ SumFunction(limbo[a]) = SumFunction(limbo'[a]) + Lapsed(a, now')
    <2> DEFINE f == limbo[a]
               g == limbo'[a]
    <2>1. f \in [Times -> Nat] /\ g = [t \in Times |-> IF t < now' THEN 0 ELSE f[t]]
      BY <1>1, AccountTypes
    <2> HIDE DEF f, g
    <2>2. LET lapsed == SumFunctionOnSet(f, {t \in Times : t < now'})
          IN  /\ lapsed \in Nat /\ g \in [Times -> Nat]
              /\ SumFunction(g) \in Nat /\ SumFunction(f) = SumFunction(g) + lapsed
      BY <1>1, <2>1, LimboLapses
    <2>3. Lapsed(a, now') = SumFunctionOnSet(f, {t \in Times : t < now'})
      BY DEF Lapsed, f
    <2> QED BY <2>2, <2>3 DEF f, g
  <1>3. ASSUME NEW a \in Owners
        PROVE  /\ delegated[a] - Lapsed(a, now') \in Nat /\ delegated'[a] <= delegated[a]
               /\ delegated'[a] = Given(delegations, a) + SumFunction(limbo'[a])
    <2>1. Given(delegations, a) \in Nat
      <3>1. delegations \in [Pairs -> Nat] /\ {a} \X Owners \subseteq Pairs
        BY DEF PowerInv, PowerTypes, Pairs
      <3>2. IsFiniteSet({a} \X Owners) /\ \A q \in {a} \X Owners : delegations[q] \in Nat
        BY <3>1, HoldersFacts, FS_Subset
      <3> QED BY <3>2, SumNatural DEF Given
    <2>2. delegated'[a] = delegated[a] - Lapsed(a, now')
      BY <1>1
    <2> QED BY <1>2, <2>1, <2>2, AccountTypes
  <1>4. delegated' \in [Owners -> Nat]
    BY <1>1, <1>3
  <1>5. limbo' \in [Owners -> [Times -> Nat]]
    BY <1>1, <1>2
  <1> QED BY <1>3, <1>4, <1>5

LEMMA BlockInv == ASSUME PowerInv, ApplyBlock PROVE PowerInv'
  <1> DEFINE after == process_vesting_withdrawals(now')
             expired == {a \in Owners : bonus[a] # 0 /\ bonus[a] <= now'}
             back == [h \in PowerHolders |-> IF h \in expired THEN Returned(after.sp[h], delegated'[h], granted[h]) ELSE 0]
             total == SumFunctionOnSet(sp, PowerHolders) + SumFunctionOnSet(scr, PowerHolders)
             base == [sp |-> sp, scr |-> scr, withdrawals |-> withdrawals]
  <1>1. /\ PowerTypes /\ now < LastInstalment /\ now' = now + 1
        /\ sp' = [h \in PowerHolders |-> after.sp[h] - back[h]] /\ scr' = after.scr
        /\ withdrawals' = after.withdrawals /\ reg_pool' = reg_pool + SumFunction(back)
        /\ bonus' = [a \in Owners |-> IF a \in expired THEN 0 ELSE bonus[a]]
        /\ UNCHANGED <<existing, received, delegations, min_time, routes, reg_delegated, granted>>
    BY DEF ApplyBlock, PowerInv
  <1>2. /\ delegated' \in [Owners -> Nat] /\ limbo' \in [Owners -> [Times -> Nat]]
        /\ \A a \in Owners : /\ delegated'[a] <= delegated[a]
                             /\ delegated'[a] = Given(delegations, a) + SumFunction(limbo'[a])
    BY LapseFacts
  <1>3. total \in Int /\ SumFunction(sp) = SumFunctionOnSet(sp, PowerHolders)
        /\ SumFunction(scr) = SumFunctionOnSet(scr, PowerHolders)
        /\ SumFunctionOnSet(sp, PowerHolders) \in Nat /\ SumFunctionOnSet(scr, PowerHolders) \in Nat
    <2>1. sp \in [PowerHolders -> Nat] /\ scr \in [PowerHolders -> Nat] /\ IsFiniteSet(PowerHolders)
      BY <1>1, HoldersFacts DEF PowerTypes, VestingTypeOK
    <2>2. /\ SumFunction(sp) = SumFunctionOnSet(sp, PowerHolders) /\ SumFunctionOnSet(sp, PowerHolders) \in Nat
          /\ SumFunction(scr) = SumFunctionOnSet(scr, PowerHolders) /\ SumFunctionOnSet(scr, PowerHolders) \in Nat
      BY <2>1, SumType
    <2> QED BY <2>2
  <1>4. Held(base, total, delegated')
    <2>1. base.sp = sp /\ base.scr = scr /\ base.withdrawals = withdrawals
      OBVIOUS
    <2> HIDE DEF base, total
    <2>2. SumFunctionOnSet(base.sp, PowerHolders) + SumFunctionOnSet(base.scr, PowerHolders) = total
      BY <2>1 DEF total
    <2>3. \A h \in PowerHolders : /\ GoodWithdrawal(base.withdrawals[h])
                                  /\ withdrawals[h].rate = 0 => base.withdrawals[h].rate = 0
      BY <2>1 DEF PowerInv, WithdrawalsRight
    <2>4. \A a \in Owners : base.sp[a] - delegated'[a] >= Rest(base.withdrawals[a])
      <3> SUFFICES ASSUME NEW a \in Owners PROVE sp[a] - delegated'[a] >= Rest(withdrawals[a])
        BY <2>1
      <3>1. WithdrawRest(a) = Rest(withdrawals[a]) /\ delegated'[a] \in Nat
        BY <1>2, RestIs
      <3> QED BY <1>2, <3>1, AccountTypes
    <2>5. \A a \in Owners \ existing : base.sp[a] = 0
      BY <2>1 DEF PowerInv, Unborn
    <2> QED BY <2>2, <2>3, <2>4, <2>5 DEF Held
  <1>5. after \in Purses /\ Held(after, total, delegated')
    <2>1. RoutesRight
      BY DEF PowerInv
    <2> HIDE DEF total
    <2>2. \A time : LET done == process_vesting_withdrawals(time)
                    IN  done \in Purses /\ Held(done, total, delegated')
      BY <1>1, <1>2, <1>3, <1>4, <2>1, PaidHeld
    <2> QED BY <2>2
  <1> HIDE DEF after, total, base
  <1>6. /\ after.sp \in [PowerHolders -> Nat] /\ after.scr \in [PowerHolders -> Nat]
        /\ after.withdrawals \in [PowerHolders -> Withdrawal]
    BY <1>5 DEF Purses
  <1>7. ASSUME NEW a \in Owners
        PROVE  /\ after.sp[a] \in Nat /\ delegated'[a] \in Nat /\ Rest(after.withdrawals[a]) \in Nat
               /\ after.sp[a] - delegated'[a] >= Rest(after.withdrawals[a])
               /\ a \in expired => Rest(after.withdrawals[a]) = 0
    <2>1. a \in PowerHolders /\ GoodWithdrawal(after.withdrawals[a])
      BY <1>5, HoldersFacts DEF Held
    <2>2. a \in expired => after.withdrawals[a].rate = 0
      BY <1>5, <2>1 DEF Held, PowerInv, BonusRight
    <2> QED BY <1>2, <1>5, <1>6, <2>1, <2>2, RestPositive DEF Held
  <1>8. /\ \A h \in PowerHolders : back[h] \in Nat /\ back[h] <= after.sp[h]
        /\ \A a \in Owners : after.sp[a] - back[a] - delegated'[a] >= Rest(after.withdrawals[a])
    <2>1. ASSUME NEW a \in Owners
          PROVE  /\ back[a] \in Nat /\ back[a] <= after.sp[a]
                 /\ after.sp[a] - back[a] - delegated'[a] >= Rest(after.withdrawals[a])
      <3>1. CASE a \notin expired
        <4>1. back[a] = 0
          BY <3>1, HoldersFacts
        <4> QED BY <1>7, <4>1
      <3>2. CASE a \in expired
        <4>1. back[a] = Returned(after.sp[a], delegated'[a], granted[a])
          BY <3>2, HoldersFacts
        <4>2. granted[a] \in Nat
          BY <1>1 DEF PowerTypes
        <4>3. Rest(after.withdrawals[a]) = 0 /\ after.sp[a] - delegated'[a] >= 0
          BY <1>7, <3>2
        <4> HIDE DEF back
        <4>4. back[a] \in Nat /\ back[a] <= after.sp[a] - delegated'[a]
          BY <1>7, <4>1, <4>2, <4>3 DEF Returned
        <4> QED BY <1>7, <4>3, <4>4
      <3> QED BY <3>1, <3>2
    <2>2. back[DevPool] = 0
      BY HoldersFacts
    <2>3. after.sp[DevPool] \in Nat
      BY <1>6, HoldersFacts
    <2> QED BY <2>1, <2>2, <2>3 DEF PowerHolders
  <1>9. back \in [PowerHolders -> Nat]
    BY <1>8
  <1>10. sp' \in [PowerHolders -> Nat] /\ \A x \in PowerHolders : sp'[x] = after.sp[x] - back[x]
    BY <1>1, <1>6, <1>8
  <1>11. SumFunction(back) \in Nat /\ SumFunction(back) = SumFunctionOnSet(back, PowerHolders)
    <2> HIDE DEF back
    <2> QED BY <1>9, HoldersFacts, SumType
  <1>12. PowerConserved'
    <2> DEFINE S == PowerHolders
               new == sp'
               old == after.sp
    <2>1. IsFiniteSet(S) /\ \A x \in S : new[x] \in Int /\ back[x] \in Int /\ old[x] = new[x] + back[x] /\ old[x] \in Int
      <3> HIDE DEF back
      <3>1. \A x \in S : after.sp[x] \in Nat /\ back[x] \in Nat
        BY <1>6, <1>8
      <3>2. IsFiniteSet(S)
        BY HoldersFacts
      <3> HIDE DEF after
      <3> QED BY <1>10, <3>1, <3>2
    <2> HIDE DEF back, new, old
    <2>2. SumFunctionOnSet(old, S) = SumFunctionOnSet(new, S) + SumFunctionOnSet(back, S)
      BY <2>1, SumPlus
    <2>3. SumFunction(sp') = SumFunctionOnSet(new, S) /\ SumFunctionOnSet(new, S) \in Nat
      BY <1>10, HoldersFacts, SumType DEF new
    <2>4. SumFunction(scr') = SumFunctionOnSet(after.scr, S) /\ SumFunctionOnSet(after.scr, S) \in Nat
      BY <1>1, <1>6, HoldersFacts, SumType
    <2>5. SumFunctionOnSet(old, S) + SumFunctionOnSet(after.scr, S) = SumFunction(sp) + SumFunction(scr)
      BY <1>3, <1>5 DEF Held, total, old
    <2>6. SumFunction(reg_delegated) \in Nat /\ reg_pool \in Nat /\ SumFunction(sp) \in Nat /\ SumFunction(scr) \in Nat
      BY <1>1, SumTypes DEF PowerTypes, VestingTypeOK
    <2>7. SumFunction(scr') + SumFunction(sp') + reg_pool' = SumFunction(scr) + SumFunction(sp) + reg_pool
      BY <1>1, <1>11, <2>2, <2>3, <2>4, <2>5, <2>6
    <2>8. SumFunction(reg_delegated') = SumFunction(reg_delegated)
      BY <1>1
    <2> QED BY <2>7, <2>8 DEF PowerConserved, PowerInv
  <1>13. bonus' \in [Owners -> Nat]
    BY <1>1 DEF PowerTypes
  <1>14. PowerTypes'
    <2>1. now' \in 1 .. LastInstalment
      BY <1>1, VestingAssumption DEF PowerTypes, VestingTypeOK
    <2>2. reg_pool' \in Nat
      <3> HIDE DEF back
      <3> QED BY <1>1, <1>11 DEF PowerTypes, VestingTypeOK
    <2>3. scr' \in [PowerHolders -> Nat] /\ withdrawals' \in [PowerHolders -> Withdrawal]
      BY <1>1, <1>6
    <2> HIDE DEF back, expired
    <2> QED BY <1>1, <1>2, <1>10, <1>13, <2>1, <2>2, <2>3 DEF PowerTypes, VestingTypeOK
  <1>15. DelegationsMatch'
    <2> SUFFICES ASSUME NEW x \in Owners
                 PROVE  /\ delegated'[x] = Given(delegations, x) + SumFunction(limbo'[x])
                        /\ received[x] = Got(delegations, x) + reg_delegated[x]
      BY <1>1 DEF DelegationsMatch, Given, Got
    <2> QED BY <1>2, AccountTypes
  <1>16. DelegatedStays'
    <2> SUFFICES ASSUME NEW x \in Owners PROVE sp'[x] - delegated'[x] >= Rest(after.withdrawals[x])
      BY <1>1 DEF DelegatedStays, WithdrawRest, Rest
    <2>1. sp'[x] = after.sp[x] - back[x]
      BY <1>10, HoldersFacts
    <2> HIDE DEF back
    <2> QED BY <1>8, <2>1
  <1>17. WithdrawalsRight' /\ RoutesRight'
    BY <1>1, <1>5, RoutesKept DEF PowerInv, WithdrawalsRight, Held
  <1>18. BonusRight'
    BY <1>1, <1>5, HoldersFacts DEF PowerInv, BonusRight, Held
  <1>19. Unborn'
    <2> SUFFICES ASSUME NEW x \in Owners \ existing
                 PROVE  sp'[x] = 0 /\ received[x] = 0 /\ after.withdrawals[x].rate = 0
      BY <1>1 DEF Unborn
    <2>1. x \in PowerHolders /\ withdrawals[x].rate = 0 /\ received[x] = 0
      BY HoldersFacts DEF PowerInv, Unborn
    <2>2. after.sp[x] = 0 /\ after.withdrawals[x].rate = 0
      BY <1>5, <2>1 DEF Held
    <2>3. sp'[x] = after.sp[x] - back[x] /\ back[x] \in Nat /\ back[x] <= after.sp[x]
      BY <1>8, <1>10, <2>1
    <2> HIDE DEF back
    <2>4. sp'[x] = 0
      BY <2>2, <2>3
    <2> QED BY <2>1, <2>2, <2>4
  <1> QED BY <1>12, <1>14, <1>15, <1>16, <1>17, <1>18, <1>19 DEF PowerInv

LEMMA InitConserved == ASSUME VestingInit PROVE PowerConserved /\ reg_pool \in Nat
  <1> DEFINE S == PowerHolders
             f1 == [h \in S |-> IF h \in Founding THEN GenesisSp ELSE 0]
             f2 == [h \in S |-> IF h \in FirstBonuses THEN Bonus ELSE 0]
             f3 == [h \in S |-> IF h = DevPool THEN PoolSp ELSE 0]
             f12 == [h \in S |-> f1[h] + f2[h]]
  <1>1. /\ GenesisScr \in Nat /\ GenesisSp \in Nat /\ Bonus \in Nat /\ PoolSp \in Nat /\ RegistrationPool \in Nat
        /\ Cardinality(FirstBonuses) * Bonus <= RegistrationPool
    BY VestingAssumption
  <1>2. /\ IsFiniteSet(S) /\ Founding \in SUBSET S /\ FirstBonuses \in SUBSET S /\ {DevPool} \in SUBSET S
        /\ FirstBonuses \subseteq Founding /\ DevPool \notin Founding /\ DevPool \in S
    BY HoldersFacts
  <1>3. /\ (\A x \in Founding : scr[x] = GenesisScr) /\ (\A x \in S \ Founding : scr[x] = 0) /\ DOMAIN scr = S
        /\ (\A x \in Owners : reg_delegated[x] = 0) /\ DOMAIN reg_delegated = Owners /\ DOMAIN sp = S
        /\ reg_pool = RegistrationPool - Cardinality(FirstBonuses) * Bonus
    BY <1>2 DEF VestingInit
  <1>4. /\ (\A x \in Founding : f1[x] = GenesisSp) /\ (\A x \in S \ Founding : f1[x] = 0)
        /\ (\A x \in FirstBonuses : f2[x] = Bonus) /\ (\A x \in S \ FirstBonuses : f2[x] = 0)
        /\ f3[DevPool] = PoolSp /\ f3[DevPool] \in Int /\ (\A x \in S \ {DevPool} : f3[x] = 0)
    BY <1>1, <1>2
  <1>5. \A x \in S : f1[x] \in Int /\ f2[x] \in Int /\ f12[x] = f1[x] + f2[x] /\ f12[x] \in Int /\ f3[x] \in Int
    BY <1>1
  <1>6. \A x \in S : sp[x] = f12[x] + f3[x]
    <2> SUFFICES ASSUME NEW x \in S PROVE sp[x] = f12[x] + f3[x]
      OBVIOUS
    <2>0. sp[x] = CASE x = DevPool -> PoolSp
                    [] x \in FirstBonuses -> GenesisSp + Bonus
                    [] x \in Founding \ FirstBonuses -> GenesisSp
                    [] OTHER -> 0
      BY DEF VestingInit
    <2>1. CASE x = DevPool
      <3>1. sp[x] = PoolSp
        BY <1>2, <2>0, <2>1
      <3> QED BY <1>1, <1>2, <2>1, <3>1
    <2>2. CASE x \in FirstBonuses
      <3>1. sp[x] = GenesisSp + Bonus
        BY <1>2, <2>0, <2>2
      <3> QED BY <1>1, <1>2, <2>2, <3>1
    <2>3. CASE x \in Founding \ FirstBonuses
      <3>1. sp[x] = GenesisSp
        BY <1>2, <2>0, <2>3
      <3> QED BY <1>1, <1>2, <2>3, <3>1
    <2>4. CASE x # DevPool /\ x \notin Founding
      <3>1. sp[x] = 0
        BY <1>2, <2>0, <2>4
      <3> QED BY <1>1, <1>2, <2>4, <3>1
    <2> QED BY <2>1, <2>2, <2>3, <2>4
  <1> HIDE DEF f1, f2, f3, f12, S
  <1>7. SumFunctionOnSet(scr, S) = Cardinality(Founding) * GenesisScr /\ Cardinality(Founding) \in Nat
    BY <1>1, <1>2, <1>3, SumOfPart
  <1>8. SumFunctionOnSet(f1, S) = Cardinality(Founding) * GenesisSp
    BY <1>1, <1>2, <1>4, SumOfPart
  <1>9. SumFunctionOnSet(f2, S) = Cardinality(FirstBonuses) * Bonus /\ Cardinality(FirstBonuses) \in Nat
    BY <1>1, <1>2, <1>4, SumOfPart
  <1>10. SumFunctionOnSet(f3, S) = PoolSp
    <2>1. SumFunctionOnSet(f3, S) = f3[DevPool]
      BY <1>2, <1>4, SumSingle
    <2> QED BY <1>4, <2>1
  <1>11. SumFunctionOnSet(f12, S) = SumFunctionOnSet(f1, S) + SumFunctionOnSet(f2, S)
    BY <1>2, <1>5, SumPlus
  <1>12. SumFunctionOnSet(sp, S) = SumFunctionOnSet(f12, S) + SumFunctionOnSet(f3, S)
    BY <1>2, <1>5, <1>6, SumPlus
  <1>13. SumFunctionOnSet(reg_delegated, Owners) = 0
    BY <1>3, HoldersFacts, SumZero
  <1>14. SumFunction(sp) = SumFunctionOnSet(sp, S) /\ SumFunction(scr) = SumFunctionOnSet(scr, S)
         /\ SumFunction(reg_delegated) = SumFunctionOnSet(reg_delegated, Owners)
    BY <1>3, SumIs
  <1> DEFINE n == Cardinality(Founding)
             m == Cardinality(FirstBonuses)
  <1>15. n * (GenesisScr + GenesisSp) = n * GenesisScr + n * GenesisSp /\ n * GenesisScr \in Nat /\ n * GenesisSp \in Nat
         /\ m * Bonus \in Nat
    BY <1>1, <1>7, <1>9
  <1> QED BY <1>1, <1>3, <1>7, <1>8, <1>9, <1>10, <1>11, <1>12, <1>13, <1>14, <1>15 DEF PowerConserved

LEMMA PowerInitInv == VestingInit => PowerInv
  <1> SUFFICES ASSUME VestingInit PROVE PowerInv
    OBVIOUS
  <1>0. PowerConserved /\ reg_pool \in Nat
    BY InitConserved
  <1>1. /\ GenesisScr \in Nat /\ GenesisSp \in Nat /\ Bonus \in Nat /\ PoolSp \in Nat /\ BonusTime \in Nat
        /\ LastInstalment \in Nat \ {0} /\ CreateTime \in Nat
    BY VestingAssumption
  <1>2. \A h \in PowerHolders :
           /\ scr[h] \in Nat /\ sp[h] \in Nat /\ withdrawals[h] = NoWithdrawal
           /\ h \notin Founding /\ h # DevPool => sp[h] = 0
    <2> SUFFICES ASSUME NEW h \in PowerHolders
                 PROVE  /\ scr[h] \in Nat /\ sp[h] \in Nat /\ withdrawals[h] = NoWithdrawal
                        /\ h \notin Founding /\ h # DevPool => sp[h] = 0
      OBVIOUS
    <2>1. scr[h] \in Nat /\ withdrawals[h] = NoWithdrawal
      BY <1>1 DEF VestingInit
    <2>2. sp[h] = CASE h = DevPool -> PoolSp
                    [] h \in FirstBonuses -> GenesisSp + Bonus
                    [] h \in Founding \ FirstBonuses -> GenesisSp
                    [] OTHER -> 0
      BY DEF VestingInit
    <2>3. sp[h] \in Nat
      BY <1>1, <2>2
    <2>4. h \notin Founding /\ h # DevPool => sp[h] = 0
      BY <2>2, HoldersFacts
    <2> QED BY <2>1, <2>3, <2>4
  <1>3. scr \in [PowerHolders -> Nat] /\ sp \in [PowerHolders -> Nat] /\ withdrawals \in [PowerHolders -> Withdrawal]
    <2>1. DOMAIN scr = PowerHolders /\ DOMAIN sp = PowerHolders /\ scr = [h \in PowerHolders |-> scr[h]]
          /\ sp = [h \in PowerHolders |-> sp[h]] /\ withdrawals = [h \in PowerHolders |-> NoWithdrawal]
      BY DEF VestingInit
    <2> QED BY <1>2, <2>1, NoWithdrawalGood DEF GoodWithdrawal
  <1>4. NoRoute \in Route /\ NoRoute.percent = 0
    BY HoldersFacts DEF NoRoute, Route
  <1>5. PowerTypes
    <2>1. now \in 1 .. LastInstalment /\ existing = Founding /\ Founding \subseteq Owners
      BY <1>1, HoldersFacts DEF VestingInit
    <2>2. delegated \in [Owners -> Nat] /\ received \in [Owners -> Nat] /\ reg_delegated \in [Owners -> Nat]
          /\ delegations \in [Pairs -> Nat] /\ limbo \in [Owners -> [Times -> Nat]]
          /\ min_time \in [Pairs -> 0 .. (LastInstalment + CreateTime)]
      BY <1>1 DEF VestingInit
    <2>3. routes \in [PowerHolders \X PowerHolders -> Route] /\ bonus \in [Owners -> Nat]
          /\ granted \in [Owners -> Nat]
      BY <1>1, <1>4, VestingAssumption DEF VestingInit
    <2> QED BY <1>0, <1>3, <2>1, <2>2, <2>3 DEF PowerTypes, VestingTypeOK
  <1>6. WithdrawalsRight /\ BonusRight
    BY <1>2, NoWithdrawalGood, HoldersFacts DEF WithdrawalsRight, BonusRight
  <1>7. Unborn
    BY <1>2, NoWithdrawalGood, HoldersFacts DEF Unborn, VestingInit
  <1>8. DelegatedStays
    <2> SUFFICES ASSUME NEW a \in Owners PROVE sp[a] - delegated[a] >= Rest(withdrawals[a])
      BY RestIs DEF DelegatedStays
    <2>1. delegated[a] = 0 /\ sp[a] \in Nat /\ Rest(withdrawals[a]) = 0
      BY <1>2, NoWithdrawalGood, HoldersFacts DEF VestingInit
    <2> QED BY <2>1
  <1>9. RoutesRight
    <2> SUFFICES ASSUME NEW h \in PowerHolders
                 PROVE  /\ SumFunctionOnSet(PercentsOf(h), PowerHolders \ {0}) <= Whole
                        /\ \A to \in PowerHolders : ~(routes[<<h, to>>].percent > 0)
      BY DEF RoutesRight
    <2>1. \A to \in PowerHolders : routes[<<h, to>>].percent = 0 /\ PercentsOf(h)[to] = 0
      BY <1>4 DEF VestingInit, PercentsOf
    <2>2. IsFiniteSet(PowerHolders \ {0}) /\ \A to \in PowerHolders \ {0} : PercentsOf(h)[to] = 0
      BY <2>1, HoldersFacts, FS_Subset
    <2>3. SumFunctionOnSet(PercentsOf(h), PowerHolders \ {0}) = 0
      BY <2>2, SumZero
    <2> QED BY <2>1, <2>3, HoldersFacts
  <1>10. DelegationsMatch
    <2> SUFFICES ASSUME NEW a \in Owners
                 PROVE  /\ delegated[a] = SumFunctionOnSet(delegations, {a} \X Owners) + SumFunction(limbo[a])
                        /\ received[a] = SumFunctionOnSet(delegations, Owners \X {a}) + reg_delegated[a]
      BY DEF DelegationsMatch
    <2>1. {a} \X Owners \subseteq Pairs /\ Owners \X {a} \subseteq Pairs
      BY DEF Pairs
    <2>2. IsFiniteSet({a} \X Owners) /\ IsFiniteSet(Owners \X {a}) /\ \A q \in Pairs : delegations[q] = 0
      BY <2>1, HoldersFacts, FS_Subset DEF VestingInit
    <2>3. SumFunctionOnSet(delegations, {a} \X Owners) = 0 /\ SumFunctionOnSet(delegations, Owners \X {a}) = 0
      BY <2>1, <2>2, SumZero
    <2>4. SumFunction(limbo[a]) = 0
      <3>1. DOMAIN limbo[a] = Times /\ \A t \in Times : limbo[a][t] = 0
        BY DEF VestingInit
      <3>2. SumFunction(limbo[a]) = SumFunctionOnSet(limbo[a], Times)
        BY <3>1, SumIs
      <3>3. SumFunctionOnSet(limbo[a], Times) = 0
        BY <3>1, FiniteTimes, SumZero
      <3> QED BY <3>2, <3>3
    <2>5. delegated[a] = 0 /\ received[a] = 0 /\ reg_delegated[a] = 0
      BY DEF VestingInit
    <2> QED BY <2>3, <2>4, <2>5
  <1> QED BY <1>0, <1>5, <1>6, <1>7, <1>8, <1>9, <1>10 DEF PowerInv

LEMMA OperationInv == ASSUME PowerInv, VestingOperation PROVE PowerInv'
  <1>1. ASSUME NEW r \in RoutePairs, NEW percent \in Percents, NEW auto_vest \in BOOLEAN,
               set_withdraw_scorumpower_route(r[1], r[2], percent, auto_vest)
        PROVE  PowerInv'
    <2>1. r[1] \in PowerHolders /\ r[2] \in PowerHolders
      BY VestingAssumption DEF PowerHolders, DevPool
    <2> QED BY <1>1, <2>1, RouteInv
  <1> QED
    BY <1>1, WithdrawInv, DelegateInv, TransferInv, CreateWithDelegationInv, CommitteeInv, PoolLendsInv DEF VestingOperation

LEMMA PowerNextInv == PowerInv /\ [VestingNext]_vestingVars => PowerInv'
  <1>1. ASSUME PowerInv, UNCHANGED vestingVars PROVE PowerInv'
    BY <1>1 DEF vestingVars, PowerInv, PowerTypes, VestingTypeOK, PowerConserved, DelegationsMatch, DelegatedStays,
       WithdrawRest, WithdrawalsRight, RoutesRight, PercentsOf, Exists, BonusRight, Unborn
  <1> QED BY <1>1, BlockInv, OperationInv DEF VestingNext

\* For any accounts, amounts, percents and lengths of the intervals: scorumpower and SCR
\* are conserved, both ends of every delegation agree, and an account can always pay
\* the rest of a withdrawal it has begun (withdraw_scorumpower_evaluator,
\* delegate_scorumpower_evaluator, process_vesting_withdrawals) from power that is
\* not delegated, in whole instalments, however the blocks and operations interleave.
THEOREM PowerAlwaysSound == VestingSpec => []PowerSound
  <1>1. VestingInit => PowerInv
    BY PowerInitInv
  <1>2. PowerInv /\ [VestingNext]_vestingVars => PowerInv'
    BY PowerNextInv
  <1>3. PowerInv => PowerSound
    BY DEF PowerInv, PowerSound, PowerTypes, WithdrawalsRight, GoodWithdrawal, WholeInstalments
  <1> QED BY <1>1, <1>2, <1>3, PTL DEF VestingSpec

-----------------------------------------------------------------------------
(***************************************************************************)
(* The registration pool.                                                  *)
(***************************************************************************)
Accts == Range(Newcomers \o Genesis)

Amounts(S) == SumFunctionOnSet([x \in S |-> x.amount], S)

GivenBy(s, m, first, last) == {x \in s : x.by = m /\ x.block \in first..last}

ByMembers(s) == {x \in s : x.by # "genesis"}

Limit == MaximumBonus * LimitPerMember

\* Where the window of a member began.
WindowFirst(c) == c.last_allocated_block + c.per_n_block_remain - WindowBlocks

MemberType == [last_allocated_block : Nat, per_n_block_remain : Nat, already_allocated_cash : Nat]
BonusType == [account : Accts, bonus : Nat, expires : Nat]
GivenType == [account : Accts, by : Registrars \cup {"genesis"}, amount : Nat, block : Nat, nth : Nat]

RegTyped ==
    /\ pool \in [balance : Nat, already_allocated_count : Nat]
    /\ committee_members \in [Registrars -> MemberType]
    /\ bonuses \subseteq BonusType /\ IsFiniteSet(bonuses)
    /\ bonus_power \in [Accts -> Nat] /\ reg_block \in Nat
    /\ allocations \subseteq GivenType /\ IsFiniteSet(allocations)

\* What a member's record says of what it gave away in s: nothing yet, or all of its
\* window, which the limit bounds, as it bounds what the blocks just before it gave.
WindowRight(s, m, c) ==
    IF c.last_allocated_block = 0
    THEN /\ \A x \in s : x.by # m
         /\ c.already_allocated_cash = 0 /\ c.per_n_block_remain = WindowBlocks
    ELSE /\ \A x \in s : x.by = m => x.block <= c.last_allocated_block
         /\ c.per_n_block_remain \in 1..WindowBlocks
         /\ Amounts(GivenBy(s, m, WindowFirst(c), c.last_allocated_block)) = c.already_allocated_cash
         /\ c.already_allocated_cash <= Limit
         /\ Amounts(GivenBy(s, m, WindowFirst(c) - WindowBlocks + 1, WindowFirst(c) - 1)) <= Limit

WindowsRight ==
    \A m \in Registrars : /\ committee_members[m].last_allocated_block <= reg_block
                          /\ WindowRight(allocations, m, committee_members[m])

\* Any window of blocks, whenever it begins.
AllLimited(s, m) == \A b \in Int : Amounts(GivenBy(s, m, b, b + WindowBlocks - 1)) <= 2 * Limit

\* An account has one bonus, which it got when its turn came.
HadTurn(a, n, k) ==
    \/ \E i \in 1..Len(Genesis) : i <= n /\ a = Genesis[i]
    \/ \E i \in 1..Len(Newcomers) : i <= k /\ a = Newcomers[i]

OneBonus ==
    /\ \A b, c \in bonuses : b.account = c.account => b = c
    /\ \A b \in bonuses : HadTurn(b.account, pool.already_allocated_count, Cardinality(ByMembers(allocations)))
    /\ reg_block = 0 => ByMembers(allocations) = {}

PoolHeld == pool.balance + SumFunctionOnSet(bonus_power, Accts) <= RegistrationSupply

Numbered == \A x \in allocations : x.nth \in 1..pool.already_allocated_count

RegistrationInv ==
    /\ RegTyped /\ WindowsRight /\ (\A m \in Registrars : AllLimited(allocations, m))
    /\ OneBonus /\ PoolHeld /\ Numbered /\ BonusFollowsSchedule

LEMMA RegistrationConstants ==
  /\ MaximumBonus \in Nat \ {0} /\ RegistrationSupply \in Nat \ {0} /\ WindowBlocks \in Nat \ {0}
  /\ LimitPerMember \in Nat \ {0} /\ BonusExpiration \in Nat /\ LastRegistration \in Nat
  /\ Limit \in Nat /\ MaximumBonus <= Limit
  <1>1. /\ MaximumBonus \in Nat \ {0} /\ RegistrationSupply \in Nat \ {0} /\ WindowBlocks \in Nat \ {0}
        /\ LimitPerMember \in Nat \ {0} /\ BonusExpiration \in Nat /\ LastRegistration \in Nat
    BY RegistrationAssumption
  <1>2. MaximumBonus * LimitPerMember \in Nat /\ MaximumBonus * 1 <= MaximumBonus * LimitPerMember
    BY <1>1
  <1> QED BY <1>1, <1>2 DEF Limit

LEMMA ScheduleType ==
  /\ Len(Schedule) \in Nat \ {0} /\ DOMAIN Schedule = 1..Len(Schedule)
  /\ \A i \in 1..Len(Schedule) : Schedule[i].users \in Nat \ {0} /\ Schedule[i].bonus_percent \in 0..100
  <1> DEFINE R == [users : Nat \ {0}, bonus_percent : 0..100]
  <1>1. Schedule \in Seq(R) /\ Schedule # <<>>
    BY RegistrationAssumption
  <1>2. \A r \in R : r.users \in Nat \ {0} /\ r.bonus_percent \in 0..100
    OBVIOUS
  <1> HIDE DEF R
  <1>3. Len(Schedule) \in Nat \ {0} /\ DOMAIN Schedule = 1..Len(Schedule) /\ \A i \in 1..Len(Schedule) : Schedule[i] \in R
    BY <1>1
  <1> QED BY <1>2, <1>3

\* The numbers of users of the stages.
LEMMA UsersSteps ==
  /\ UsersUpTo \in [0..Len(Schedule) -> Nat] /\ UsersUpTo[0] = 0
  /\ \A i \in 1..Len(Schedule) : UsersUpTo[i] = UsersUpTo[i - 1] + Schedule[i].users
  <1> DEFINE n == Len(Schedule)
             F == [k \in 1..n |-> [v \in Nat |-> v + Schedule[k].users]]
  <1>1. n \in Nat /\ \A i \in 1..n : Schedule[i].users \in Nat
    BY ScheduleType
  <1>2. Steps(F, n, Nat) /\ \A k \in 1..n : \A v \in Nat : F[k][v] = v + Schedule[k].users
    BY <1>1 DEF Steps
  <1> HIDE DEF F
  <1> DEFINE zero == 0
  <1>3. zero \in Nat /\ zero = 0
    OBVIOUS
  <1> HIDE DEF zero, n
  <1>4. PICK g : Iterates(g, zero, F, n, Nat)
    BY <1>1, <1>2, <1>3, RecursionExists
  <1>5. g \in [0..n -> Nat] /\ g[0] = 0 /\ \A k \in 1..n : g[k] = F[k][g[k - 1]]
    BY <1>3, <1>4 DEF Iterates
  <1>6. \A k \in 1..n : g[k] = g[k - 1] + Schedule[k].users
    <2> SUFFICES ASSUME NEW k \in 1..n PROVE g[k] = g[k - 1] + Schedule[k].users
      OBVIOUS
    <2>1. k - 1 \in 0..n
      BY <1>1
    <2>2. g[k - 1] \in Nat
      BY <1>5, <2>1
    <2> QED BY <1>2, <1>5, <2>2
  <1>7. g = [k \in 0..n |-> IF k = 0 THEN 0 ELSE g[k - 1] + Schedule[k].users]
    <2>1. ASSUME NEW k \in 0..n PROVE g[k] = IF k = 0 THEN 0 ELSE g[k - 1] + Schedule[k].users
      <3>1. CASE k = 0
        BY <1>5, <3>1
      <3>2. CASE k # 0
        <4>1. k \in 1..n
          BY <1>1, <3>2
        <4> QED BY <1>6, <3>2, <4>1
      <3> QED BY <3>1, <3>2
    <2> QED BY <1>5, <2>1
  <1>8. UsersUpTo = [k \in 0..n |-> IF k = 0 THEN 0 ELSE UsersUpTo[k - 1] + Schedule[k].users]
    BY <1>7 DEF UsersUpTo, n
  <1>9. \A k \in 0..n : UsersUpTo[k] = IF k = 0 THEN 0 ELSE UsersUpTo[k - 1] + Schedule[k].users
    BY <1>8
  <1> DEFINE G == {k \in Nat : k <= n => UsersUpTo[k] \in Nat}
  <1>10. 0 \in G
    <2>1. 0 \in 0..n
      BY <1>1
    <2> QED BY <1>9, <2>1
  <1>11. ASSUME NEW k \in Nat, k \in G PROVE k + 1 \in G
    <2>1. SUFFICES ASSUME k + 1 <= n PROVE UsersUpTo[k + 1] \in Nat
      OBVIOUS
    <2>2. k + 1 \in 0..n /\ k + 1 \in 1..n /\ k + 1 # 0 /\ (k + 1) - 1 = k /\ UsersUpTo[k] \in Nat
      BY <1>1, <1>11, <2>1
    <2>3. UsersUpTo[k + 1] = UsersUpTo[k] + Schedule[k + 1].users
      BY <1>9, <2>2
    <2> QED BY <1>1, <2>2, <2>3
  <1> HIDE DEF G
  <1>12. Nat \subseteq G
    BY <1>10, <1>11, NatSetInduction
  <1>13. \A k \in 0..n : UsersUpTo[k] \in Nat
    <2> SUFFICES ASSUME NEW k \in 0..n PROVE UsersUpTo[k] \in Nat
      OBVIOUS
    <2>1. k \in G /\ k <= n
      BY <1>1, <1>12
    <2> QED BY <2>1 DEF G
  <1>14. UsersUpTo \in [0..n -> Nat]
    BY <1>8, <1>9, <1>13
  <1>15. UsersUpTo[0] = 0
    <2>1. 0 \in 0..n
      BY <1>1
    <2> QED BY <1>9, <2>1
  <1>16. ASSUME NEW i \in 1..n PROVE UsersUpTo[i] = UsersUpTo[i - 1] + Schedule[i].users
    <2>1. i \in 0..n /\ i # 0
      BY <1>1
    <2> QED BY <1>9, <2>1
  <1> QED BY <1>14, <1>15, <1>16 DEF n

LEMMA UsersRise ==
  ASSUME NEW i \in 0..Len(Schedule), NEW j \in 0..Len(Schedule), i <= j
  PROVE  UsersUpTo[i] <= UsersUpTo[j]
  <1> DEFINE n == Len(Schedule)
             G == {k \in Nat : i <= k /\ k <= n => UsersUpTo[i] <= UsersUpTo[k]}
  <1>0. n \in Nat /\ (\A k \in 1..n : Schedule[k].users \in Nat) /\ (\A k \in 0..n : UsersUpTo[k] \in Nat)
        /\ \A k \in 1..n : UsersUpTo[k] = UsersUpTo[k - 1] + Schedule[k].users
    BY ScheduleType, UsersSteps
  <1> HIDE DEF n
  <1>a. i \in 0..n /\ j \in 0..n
    BY DEF n
  <1>1. 0 \in G
    BY <1>0, <1>a
  <1>2. ASSUME NEW k \in Nat, k \in G PROVE k + 1 \in G
    <2>1. SUFFICES ASSUME i <= k + 1, k + 1 <= n PROVE UsersUpTo[i] <= UsersUpTo[k + 1]
      OBVIOUS
    <2>2. CASE i = k + 1
      BY <1>0, <1>a, <2>2
    <2>3. CASE i # k + 1
      <3>1. i <= k /\ k <= n /\ k + 1 \in 1..n /\ k \in 0..n /\ (k + 1) - 1 = k
        BY <1>0, <1>a, <2>1, <2>3
      <3>2. UsersUpTo[i] <= UsersUpTo[k] /\ UsersUpTo[k + 1] = UsersUpTo[k] + Schedule[k + 1].users
        BY <1>0, <1>2, <3>1
      <3>3. UsersUpTo[i] \in Nat /\ UsersUpTo[k] \in Nat /\ Schedule[k + 1].users \in Nat
        BY <1>0, <1>a, <3>1
      <3> QED BY <3>2, <3>3
    <2> QED BY <2>2, <2>3
  <1> HIDE DEF G
  <1>3. Nat \subseteq G
    BY <1>1, <1>2, NatSetInduction
  <1>4. j \in G /\ j <= n
    BY <1>0, <1>a, <1>3
  <1> QED BY <1>4 DEF G

\* The loop of calculate_amount_by_schedule, from its first item.
Searched(c) == CHOOSE after : after =
    [i \in 0..Len(Schedule) |->
        IF i = 0 THEN [rest |-> c, stage |-> 1]
        ELSE IF after[i - 1].stage = i /\ after[i - 1].rest >= Schedule[i].users
             THEN [rest |-> after[i - 1].rest - Schedule[i].users, stage |-> i + 1]
             ELSE after[i - 1]]

LEMMA SearchIs ==
  CurrentStage = IF Searched(pool.already_allocated_count)[Len(Schedule)].stage > Len(Schedule)
                 THEN Len(Schedule) ELSE Searched(pool.already_allocated_count)[Len(Schedule)].stage
  BY DEF CurrentStage, Searched

SearchStep(q, i) == IF q.stage = i /\ q.rest >= Schedule[i].users
                    THEN [rest |-> q.rest - Schedule[i].users, stage |-> i + 1] ELSE q

LEMMA SearchSteps ==
  ASSUME NEW c \in Nat
  PROVE  /\ Searched(c)[0] = [rest |-> c, stage |-> 1]
         /\ \A i \in 1..Len(Schedule) : Searched(c)[i] = SearchStep(Searched(c)[i - 1], i)
  <1> DEFINE n == Len(Schedule)
             Q == [rest : Nat, stage : Nat]
             F == [k \in 1..n |-> [q \in Q |-> SearchStep(q, k)]]
             base == [rest |-> c, stage |-> 1]
  <1>1. n \in Nat /\ \A i \in 1..n : Schedule[i].users \in Nat
    BY ScheduleType
  <1>2. base \in Q
    OBVIOUS
  <1>3. ASSUME NEW k \in 1..n, NEW q \in Q PROVE SearchStep(q, k) \in Q
    <2>1. q.rest \in Nat /\ q.stage \in Nat /\ Schedule[k].users \in Nat /\ k \in Nat
      BY <1>1
    <2> QED BY <2>1 DEF SearchStep
  <1> HIDE DEF Q, n
  <1>4. Steps(F, n, Q) /\ \A k \in 1..n : \A q \in Q : F[k][q] = SearchStep(q, k)
    BY <1>3 DEF Steps
  <1> HIDE DEF F
  <1>5. PICK g : Iterates(g, base, F, n, Q)
    <2> HIDE DEF base
    <2> QED BY <1>1, <1>2, <1>4, RecursionExists
  <1>6. g \in [0..n -> Q] /\ g[0] = base /\ \A k \in 1..n : g[k] = F[k][g[k - 1]]
    BY <1>5 DEF Iterates
  <1>7. \A k \in 1..n : g[k] = SearchStep(g[k - 1], k)
    <2> SUFFICES ASSUME NEW k \in 1..n PROVE g[k] = SearchStep(g[k - 1], k)
      OBVIOUS
    <2>1. k - 1 \in 0..n
      BY <1>1
    <2>2. g[k - 1] \in Q
      BY <1>6, <2>1
    <2> QED BY <1>4, <1>6, <2>2
  <1>8. g = [k \in 0..n |-> IF k = 0 THEN base ELSE SearchStep(g[k - 1], k)]
    <2>1. ASSUME NEW k \in 0..n PROVE g[k] = IF k = 0 THEN base ELSE SearchStep(g[k - 1], k)
      <3>1. CASE k = 0
        BY <1>6, <3>1
      <3>2. CASE k # 0
        <4>1. k \in 1..n
          BY <1>1, <3>2
        <4> QED BY <1>7, <3>2, <4>1
      <3> QED BY <3>1, <3>2
    <2> QED BY <1>6, <2>1
  <1>9. Searched(c) = [k \in 0..n |-> IF k = 0 THEN base ELSE SearchStep(Searched(c)[k - 1], k)]
    BY <1>8 DEF Searched, SearchStep, n
  <1>10. \A k \in 0..n : Searched(c)[k] = IF k = 0 THEN base ELSE SearchStep(Searched(c)[k - 1], k)
    BY <1>9
  <1>11. Searched(c)[0] = base
    <2>1. 0 \in 0..n
      BY <1>1
    <2> QED BY <1>10, <2>1
  <1>12. ASSUME NEW i \in 1..n PROVE Searched(c)[i] = SearchStep(Searched(c)[i - 1], i)
    <2>1. i \in 0..n /\ i # 0
      BY <1>1
    <2> QED BY <1>10, <2>1
  <1> QED BY <1>11, <1>12 DEF n

\* What the loop knows after i items: how many of the count the stages so far had, or the
\* stage it has found.
SearchKnows(q, i, c) ==
    \/ q.stage = i + 1 /\ UsersUpTo[i] <= c /\ q.rest = c - UsersUpTo[i]
    \/ q.stage \in 1..i /\ UsersUpTo[q.stage - 1] <= c /\ c < UsersUpTo[q.stage]

LEMMA SearchFinds ==
  ASSUME NEW c \in Nat
  PROVE  \A i \in 0..Len(Schedule) : SearchKnows(Searched(c)[i], i, c)
  <1> DEFINE n == Len(Schedule)
             G == {i \in Nat : i <= n => SearchKnows(Searched(c)[i], i, c)}
  <1>0. n \in Nat /\ (\A k \in 1..n : Schedule[k].users \in Nat \ {0}) /\ (\A k \in 0..n : UsersUpTo[k] \in Nat)
        /\ UsersUpTo[0] = 0 /\ \A k \in 1..n : UsersUpTo[k] = UsersUpTo[k - 1] + Schedule[k].users
    BY ScheduleType, UsersSteps
  <1>1. 0 \in G
    <2>0. Searched(c)[0] = [rest |-> c, stage |-> 1]
      BY SearchSteps
    <2>1. Searched(c)[0].stage = 1 /\ Searched(c)[0].rest = c
      BY <2>0
    <2> QED BY <2>1, <1>0 DEF SearchKnows
  <1>2. ASSUME NEW i \in Nat, i \in G PROVE i + 1 \in G
    <2>1. SUFFICES ASSUME i + 1 <= n PROVE SearchKnows(Searched(c)[i + 1], i + 1, c)
      OBVIOUS
    <2> DEFINE q == Searched(c)[i]
               r == Searched(c)[i + 1]
               j == i + 1
    <2>2. j \in 1..n /\ j - 1 = i /\ i \in 0..n /\ j \in 0..n /\ j \in Nat
      BY <1>0, <2>1
    <2>3. r = SearchStep(q, j)
      BY <2>2, SearchSteps
    <2>4. SearchKnows(q, i, c)
      BY <1>2, <2>1, <1>0
    <2>5. UsersUpTo[j] = UsersUpTo[i] + Schedule[j].users /\ UsersUpTo[j] \in Nat /\ UsersUpTo[i] \in Nat /\ Schedule[j].users \in Nat
      BY <1>0, <2>2
    <2> HIDE DEF q, r, j
    <2>7. j = i + 1
      BY DEF j
    <2>6. SearchKnows(r, j, c)
      <3>1. ASSUME q.stage \in 1..i, UsersUpTo[q.stage - 1] <= c, c < UsersUpTo[q.stage] PROVE SearchKnows(r, j, c)
        <4>1. q.stage # j /\ q.stage \in 1..j
          BY <2>7, <3>1
        <4>2. r = q
          BY <2>3, <4>1 DEF SearchStep
        <4> QED BY <3>1, <4>1, <4>2 DEF SearchKnows
      <3>2. ASSUME q.stage = i + 1, UsersUpTo[i] <= c, q.rest = c - UsersUpTo[i] PROVE SearchKnows(r, j, c)
        <4>1. CASE q.rest >= Schedule[j].users
          <5>1. r = [rest |-> q.rest - Schedule[j].users, stage |-> j + 1]
            BY <2>3, <2>7, <3>2, <4>1 DEF SearchStep
          <5>2. r.stage = j + 1 /\ r.rest = q.rest - Schedule[j].users
            BY <5>1
          <5>3. UsersUpTo[j] <= c /\ r.rest = c - UsersUpTo[j]
            BY <2>5, <3>2, <4>1, <5>2
          <5> QED BY <5>2, <5>3 DEF SearchKnows
        <4>2. CASE ~(q.rest >= Schedule[j].users)
          <5>1. r = q /\ q.stage = j
            BY <2>3, <2>7, <3>2, <4>2 DEF SearchStep
          <5>2. c < UsersUpTo[j] /\ UsersUpTo[j - 1] <= c /\ j \in 1..j
            BY <2>2, <2>5, <3>2, <4>2
          <5> QED BY <5>1, <5>2 DEF SearchKnows
        <4> QED BY <4>1, <4>2
      <3> QED BY <2>4, <3>1, <3>2 DEF SearchKnows
    <2> QED BY <2>6 DEF r, j
  <1> HIDE DEF G
  <1>3. Nat \subseteq G
    BY <1>1, <1>2, NatSetInduction
  <1>4. ASSUME NEW i \in 0..n PROVE SearchKnows(Searched(c)[i], i, c)
    <2>1. i \in G /\ i <= n
      BY <1>0, <1>3
    <2> QED BY <2>1 DEF G
  <1> QED BY <1>4

\* calculate_amount_by_schedule finds the stage the next account belongs to.
LEMMA StageFound ==
  ASSUME pool.already_allocated_count \in Nat
  PROVE  CurrentStage = StageOf(pool.already_allocated_count + 1) /\ CurrentStage \in 1..Len(Schedule)
  <1> DEFINE n == Len(Schedule)
             c == pool.already_allocated_count
             k == Searched(c)[n].stage
  <1>0. n \in Nat \ {0} /\ DOMAIN Schedule = 1..n /\ (\A i \in 0..n : UsersUpTo[i] \in Nat) /\ n \in 0..n
    BY ScheduleType, UsersSteps
  <1>1. SearchKnows(Searched(c)[n], n, c)
    BY <1>0, SearchFinds
  <1>2. CurrentStage = IF k > n THEN n ELSE k
    BY SearchIs
  <1>3. StageOf(c + 1) = IF c + 1 > UsersUpTo[n] THEN n
                         ELSE CHOOSE i \in 1..n : UsersUpTo[i - 1] < c + 1 /\ c + 1 <= UsersUpTo[i]
    BY <1>0 DEF StageOf
  <1>4. \/ k = n + 1 /\ UsersUpTo[n] <= c
        \/ k \in 1..n /\ UsersUpTo[k - 1] <= c /\ c < UsersUpTo[k]
    BY <1>1 DEF SearchKnows
  <1>c. c \in Nat
    OBVIOUS
  <1> HIDE DEF n, c, k
  <1>5. CASE k = n + 1 /\ UsersUpTo[n] <= c
    BY <1>0, <1>2, <1>3, <1>5, <1>c DEF c, n
  <1>6. CASE k \in 1..n /\ UsersUpTo[k - 1] <= c /\ c < UsersUpTo[k]
    <2>0. k \in 0..n /\ k - 1 \in 0..n /\ k <= n
      BY <1>0, <1>6
    <2>1. UsersUpTo[k] <= UsersUpTo[n]
      BY <1>0, <2>0, UsersRise DEF n
    <2>2. UsersUpTo[k - 1] < c + 1 /\ c + 1 <= UsersUpTo[k] /\ ~(c + 1 > UsersUpTo[n])
      BY <1>0, <1>6, <1>c, <2>0, <2>1
    <2>3. ASSUME NEW i \in 1..n, UsersUpTo[i - 1] < c + 1, c + 1 <= UsersUpTo[i] PROVE i = k
      <3>0. i \in 0..n /\ i - 1 \in 0..n /\ UsersUpTo[i] \in Nat /\ UsersUpTo[i - 1] \in Nat
            /\ UsersUpTo[k] \in Nat /\ UsersUpTo[k - 1] \in Nat
        BY <1>0, <2>0
      <3>1. ASSUME i <= k - 1 PROVE FALSE
        <4>1. UsersUpTo[i] <= UsersUpTo[k - 1]
          BY <2>0, <3>0, <3>1, UsersRise DEF n
        <4> QED BY <1>c, <3>0, <4>1, <2>2, <2>3
      <3>2. ASSUME k <= i - 1 PROVE FALSE
        <4>1. UsersUpTo[k] <= UsersUpTo[i - 1]
          BY <2>0, <3>0, <3>2, UsersRise DEF n
        <4> QED BY <1>c, <3>0, <4>1, <2>2, <2>3
      <3> QED BY <1>0, <2>0, <3>1, <3>2
    <2>4. (CHOOSE i \in 1..n : UsersUpTo[i - 1] < c + 1 /\ c + 1 <= UsersUpTo[i]) = k
      BY <1>6, <2>2, <2>3
    <2>5. CurrentStage = k
      BY <1>0, <1>2, <1>6
    <2>6. StageOf(c + 1) = k
      <3> DEFINE z == CHOOSE i \in 1..n : UsersUpTo[i - 1] < c + 1 /\ c + 1 <= UsersUpTo[i]
      <3>1. z = k /\ StageOf(c + 1) = IF c + 1 > UsersUpTo[n] THEN n ELSE z
        BY <1>3, <2>4
      <3> HIDE DEF z
      <3> QED BY <2>2, <3>1
    <2> QED BY <1>6, <2>5, <2>6 DEF c, n
  <1> QED BY <1>4, <1>5, <1>6

\* A part of at most all of v is at most v.
LEMMA PartOf ==
  ASSUME NEW v \in Nat, NEW w \in Nat, w >= 1, NEW p \in Nat, p <= w
  PROVE  (v * p) \div w \in Nat /\ (v * p) \div w <= v
  <1>1. v * p \in Nat /\ v * p <= v * w
    <2>1. v * w = v * p + v * (w - p) /\ v * (w - p) >= 0 /\ v * p \in Nat
      OBVIOUS
    <2> QED BY <2>1
  <1> DEFINE z == v * p
             q == z \div w
  <1>2. q \in Nat /\ z % w \in 0..w - 1 /\ z = q * w + (z % w)
    <2> HIDE DEF z
    <2> QED BY <1>1, Divided DEF z
  <1>3. q * w <= v * w
    <2> HIDE DEF z, q
    <2>1. q * w \in Int /\ v * w \in Int /\ z <= v * w /\ z \in Nat
      BY <1>1, <1>2 DEF z
    <2> QED BY <1>2, <2>1
  <1>4. q <= v
    <2> HIDE DEF q
    <2>1. q \in Int /\ v \in Int
      BY <1>2
    <2> QED BY <2>1, <1>3, Monotone
  <1> QED BY <1>2, <1>4 DEF q, z

LEMMA AmountsType ==
  ASSUME NEW S, IsFiniteSet(S), \A x \in S : x.amount \in Nat
  PROVE  Amounts(S) \in Nat
  <1> DEFINE f == [x \in S |-> x.amount]
  <1>1. \A x \in S : f[x] \in Nat
    OBVIOUS
  <1> HIDE DEF f
  <1>2. SumFunctionOnSet(f, S) \in Nat
    BY <1>1, SumNatural
  <1> QED BY <1>2 DEF f, Amounts

LEMMA AmountsSplit ==
  ASSUME NEW S, IsFiniteSet(S), \A x \in S : x.amount \in Nat, NEW P \in SUBSET S
  PROVE  Amounts(S) = Amounts(S \ P) + Amounts(P)
  <1> DEFINE f == [x \in S |-> x.amount]
             g == [x \in S \ P |-> x.amount]
             h == [x \in P |-> x.amount]
  <1>1. (\A x \in S : f[x] \in Int) /\ (\A x \in S \ P : f[x] = g[x]) /\ (\A x \in P : f[x] = h[x])
    OBVIOUS
  <1>2. IsFiniteSet(S \ P) /\ IsFiniteSet(P)
    BY FS_Subset
  <1>5. Amounts(S) = SumFunctionOnSet(f, S) /\ Amounts(S \ P) = SumFunctionOnSet(g, S \ P)
        /\ Amounts(P) = SumFunctionOnSet(h, P)
    BY DEF Amounts
  <1> HIDE DEF f, g, h
  <1>3. SumFunctionOnSet(f, S) = SumFunctionOnSet(f, S \ P) + SumFunctionOnSet(f, P)
    BY <1>1, SumSplit
  <1>4. SumFunctionOnSet(f, S \ P) = SumFunctionOnSet(g, S \ P)
    BY <1>1, <1>2, SumAgree
  <1>6. SumFunctionOnSet(f, P) = SumFunctionOnSet(h, P)
    BY <1>1, <1>2, SumAgree
  <1> QED BY <1>3, <1>4, <1>5, <1>6

LEMMA AmountsPart ==
  ASSUME NEW S, IsFiniteSet(S), \A x \in S : x.amount \in Nat, NEW P \in SUBSET S
  PROVE  Amounts(P) <= Amounts(S) /\ Amounts(P) \in Nat /\ Amounts(S) \in Nat
  <1>1. IsFiniteSet(S \ P) /\ IsFiniteSet(P) /\ (\A x \in P : x.amount \in Nat) /\ (\A x \in S \ P : x.amount \in Nat)
    BY FS_Subset
  <1>2. Amounts(S) = Amounts(S \ P) + Amounts(P)
    BY AmountsSplit
  <1>3. Amounts(S) \in Nat /\ Amounts(P) \in Nat /\ Amounts(S \ P) \in Nat
    BY <1>1, AmountsType
  <1> QED BY <1>2, <1>3

LEMMA AmountsCover ==
  ASSUME NEW T, IsFiniteSet(T), \A x \in T : x.amount \in Nat,
         NEW U, IsFiniteSet(U), \A x \in U : x.amount \in Nat, NEW S \in SUBSET (T \cup U)
  PROVE  Amounts(S) <= Amounts(T) + Amounts(U)
  <1>1. IsFiniteSet(T \cup U) /\ (\A x \in T \cup U : x.amount \in Nat) /\ U \in SUBSET (T \cup U)
    BY FS_Union
  <1>2. Amounts(S) <= Amounts(T \cup U)
    BY <1>1, AmountsPart
  <1>3. Amounts(T \cup U) = Amounts((T \cup U) \ U) + Amounts(U)
    BY <1>1, AmountsSplit
  <1>4. (T \cup U) \ U \in SUBSET T
    OBVIOUS
  <1>5. Amounts((T \cup U) \ U) <= Amounts(T)
    BY <1>4, AmountsPart
  <1>6. Amounts((T \cup U) \ U) \in Nat /\ Amounts(T) \in Nat
    BY <1>4, AmountsPart
  <1>7. Amounts(U) \in Nat /\ Amounts(S) \in Nat
    BY <1>1, AmountsPart
  <1> QED BY <1>2, <1>3, <1>5, <1>6, <1>7

LEMMA AmountsOne == ASSUME NEW x, x.amount \in Nat PROVE Amounts({x}) = x.amount
  <1> DEFINE f == [y \in {x} |-> y.amount]
             S == {x}
  <1>1. (\A y \in S : f[y] \in Int) /\ f[x] = x.amount /\ x \in S /\ S \ {x} = {} /\ f[x] \in Nat
    OBVIOUS
  <1>2. IsFiniteSet(S)
    BY FS_Singleton
  <1>5. Amounts({x}) = SumFunctionOnSet(f, S)
    BY DEF Amounts
  <1> HIDE DEF f, S
  <1>3. SumFunctionOnSet(f, S) = f[x] + SumFunctionOnSet(f, S \ {x})
    BY <1>1, <1>2, SumTake
  <1>4. SumFunctionOnSet(f, S \ {x}) = 0
    BY <1>1, SumEmpty
  <1> QED BY <1>1, <1>3, <1>4, <1>5

LEMMA AmountsAdd ==
  ASSUME NEW S, IsFiniteSet(S), \A y \in S : y.amount \in Nat, NEW x, x \notin S, x.amount \in Nat
  PROVE  Amounts(S \cup {x}) = Amounts(S) + x.amount
  <1> DEFINE T == S \cup {x}
             P == {x}
  <1>1. IsFiniteSet(T) /\ (\A y \in T : y.amount \in Nat) /\ P \in SUBSET T /\ T \ P = S
    BY FS_AddElement
  <1>3. Amounts(P) = x.amount
    BY AmountsOne
  <1> HIDE DEF T, P
  <1>2. Amounts(T) = Amounts(T \ P) + Amounts(P)
    BY <1>1, AmountsSplit
  <1> QED BY <1>1, <1>2, <1>3 DEF T

LEMMA AmountsNone == Amounts({}) = 0
  BY SumEmpty DEF Amounts

LEMMA GivenFinite ==
  ASSUME NEW s \in SUBSET GivenType, IsFiniteSet(s), NEW m, NEW first, NEW last
  PROVE  /\ IsFiniteSet(GivenBy(s, m, first, last)) /\ \A x \in GivenBy(s, m, first, last) : x.amount \in Nat
         /\ Amounts(GivenBy(s, m, first, last)) \in Nat
  <1>1. GivenBy(s, m, first, last) \in SUBSET s
    BY DEF GivenBy
  <1>2. IsFiniteSet(GivenBy(s, m, first, last)) /\ \A x \in GivenBy(s, m, first, last) : x.amount \in Nat
    BY <1>1, FS_Subset DEF GivenType
  <1> QED BY <1>2, AmountsType

\* Nothing a member gives makes any window exceed two limits, if its own window and the
\* blocks before are within one each.
LEMMA LimitedStep ==
  ASSUME NEW s \in SUBSET GivenType, IsFiniteSet(s), NEW t \in SUBSET GivenType, IsFiniteSet(t),
         NEW m, NEW x, t = s \cup {x}, AllLimited(s, m),
         NEW c \in MemberType, c.last_allocated_block # 0, x.block = c.last_allocated_block, x.block \in Nat,
         WindowRight(t, m, c)
  PROVE  AllLimited(t, m)
  <1> DEFINE F == WindowFirst(c)
             L == c.last_allocated_block
  <1>0. L \in Nat /\ c.per_n_block_remain \in Nat /\ WindowBlocks \in Nat /\ WindowBlocks >= 1 /\ Limit \in Nat
    BY RegistrationConstants DEF MemberType
  <1>1. /\ \A y \in t : y.by = m => y.block <= L
        /\ c.per_n_block_remain \in 1..WindowBlocks
        /\ Amounts(GivenBy(t, m, F, L)) <= Limit
        /\ Amounts(GivenBy(t, m, F - WindowBlocks + 1, F - 1)) <= Limit
    BY DEF WindowRight
  <1>2. F \in Int /\ F <= L
    BY <1>0, <1>1 DEF WindowFirst
  <1>y. \A y \in t : y.block \in Nat
    BY DEF GivenType
  <1> HIDE DEF F, L
  <1>3. ASSUME NEW b \in Int PROVE Amounts(GivenBy(t, m, b, b + WindowBlocks - 1)) <= 2 * Limit
    <2> DEFINE S == GivenBy(t, m, b, b + WindowBlocks - 1)
    <2>1. CASE x.block \in b..(b + WindowBlocks - 1)
      <3>1. b >= F - WindowBlocks + 1
        BY <1>0, <1>2, <2>1 DEF L
      <3>2. ASSUME NEW y \in S PROVE y \in GivenBy(t, m, F, L) \cup GivenBy(t, m, F - WindowBlocks + 1, F - 1)
        <4>1. y \in t /\ y.by = m /\ y.block \in Nat /\ y.block <= L /\ y.block >= b
          BY <1>0, <1>1, <1>y DEF GivenBy
        <4>2. y.block \in F..L \/ y.block \in (F - WindowBlocks + 1)..(F - 1)
          BY <1>0, <1>2, <3>1, <4>1
        <4> QED BY <4>1, <4>2 DEF GivenBy
      <3> DEFINE T == GivenBy(t, m, F, L)
                 U == GivenBy(t, m, F - WindowBlocks + 1, F - 1)
      <3>3. S \in SUBSET (T \cup U)
        BY <3>2
      <3>4. IsFiniteSet(T) /\ (\A y \in T : y.amount \in Nat) /\ Amounts(T) \in Nat
        BY GivenFinite
      <3>5. IsFiniteSet(U) /\ (\A y \in U : y.amount \in Nat) /\ Amounts(U) \in Nat
        BY GivenFinite
      <3>6. Amounts(S) \in Nat
        BY GivenFinite
      <3> HIDE DEF S, T, U
      <3>7. Amounts(S) <= Amounts(T) + Amounts(U)
        BY <3>3, <3>4, <3>5, AmountsCover
      <3>8. Amounts(T) <= Limit /\ Amounts(U) <= Limit
        BY <1>1 DEF T, U
      <3> QED BY <1>0, <3>4, <3>5, <3>6, <3>7, <3>8 DEF S
    <2>2. CASE x.block \notin b..(b + WindowBlocks - 1)
      <3>1. S = GivenBy(s, m, b, b + WindowBlocks - 1)
        BY <2>2 DEF GivenBy
      <3> QED BY <3>1 DEF AllLimited
    <2> QED BY <2>1, <2>2
  <1> QED BY <1>3 DEF AllLimited

\* validate_bandwidth keeps a member's record right: where the window goes on its
\* beginning stays, and where one begins the one before is over.
LEMMA WindowStep ==
  ASSUME NEW s \in SUBSET GivenType, IsFiniteSet(s), NEW t \in SUBSET GivenType, IsFiniteSet(t),
         NEW m, NEW x, t = s \cup {x}, x \notin s, x.by = m, x.block = reg_block, x.amount \in Nat, x.amount <= MaximumBonus,
         reg_block \in Nat, reg_block > 0,
         NEW c \in MemberType, c.last_allocated_block <= reg_block, WindowRight(s, m, c),
         NEW a, a = x.amount, check_bandwidth(MovedWindow(c, a))
  PROVE  LET d == MovedWindow(c, a).member
         IN  d \in MemberType /\ d.last_allocated_block = reg_block /\ WindowRight(t, m, d)
  <1> DEFINE passed == IF c.last_allocated_block > 0 THEN reg_block - c.last_allocated_block ELSE 0
             remain == IF passed > c.per_n_block_remain THEN 0 ELSE c.per_n_block_remain - passed
             checked == IF remain > 0 THEN c.already_allocated_cash + a ELSE 0
             left == IF remain > 0 THEN remain ELSE WindowBlocks
             cash == IF remain > 0 THEN c.already_allocated_cash + a ELSE a
             d == MovedWindow(c, a).member
             l == c.last_allocated_block
             r == c.per_n_block_remain
             W == WindowBlocks
  <1>0. l \in Nat /\ r \in Nat /\ c.already_allocated_cash \in Nat /\ W \in Nat /\ W >= 1
        /\ Limit \in Nat /\ MaximumBonus \in Nat /\ LimitPerMember \in Nat /\ MaximumBonus <= Limit /\ a \in Nat /\ a <= Limit
    BY RegistrationConstants DEF MemberType
  <1>1. d = [last_allocated_block |-> reg_block, per_n_block_remain |-> left, already_allocated_cash |-> cash]
    BY DEF MovedWindow
  <1>2. MovedWindow(c, a).passed = passed /\ MovedWindow(c, a).checked = checked
    BY DEF MovedWindow
  <1>3. passed \in Nat
    BY <1>0
  <1>4. remain \in Nat
    BY <1>0, <1>3
  <1>5. checked <= (MaximumBonus * (passed + 1) * LimitPerMember) \div W
    BY <1>2 DEF check_bandwidth
  <1>6. left \in Nat /\ cash \in Nat
    BY <1>0, <1>4
  <1>7. d.last_allocated_block = reg_block /\ d.per_n_block_remain = left /\ d.already_allocated_cash = cash
        /\ d \in MemberType
    BY <1>1, <1>6 DEF MemberType
  <1>8. r \in 1..W /\ (l = 0 => r = W)
    BY <1>0 DEF WindowRight
  <1>9. passed = (IF l > 0 THEN reg_block - l ELSE 0) /\ remain = (IF passed > r THEN 0 ELSE r - passed)
        /\ left = (IF remain > 0 THEN remain ELSE W) /\ cash = (IF remain > 0 THEN c.already_allocated_cash + a ELSE a)
        /\ checked = (IF remain > 0 THEN c.already_allocated_cash + a ELSE 0)
    OBVIOUS
  <1>t. (\A y \in s : y.block \in Nat /\ y.amount \in Nat) /\ (\A y \in t : y.block \in Nat /\ y.amount \in Nat) /\ x \in t /\ x.block \in Nat
    BY DEF GivenType
  <1>o. l <= reg_block /\ a = x.amount
    OBVIOUS
  <1> DEFINE F == WindowFirst(d)
  <1>f. F = reg_block + left - W
    BY <1>7 DEF WindowFirst
  <1>g. WindowFirst(c) = l + r - W
    BY DEF WindowFirst
  <1>r. WindowRight(s, m, c)
    OBVIOUS
  <1> HIDE DEF passed, remain, checked, left, cash, d, F
  \* Only x is given in its block.
  <1>10. ASSUME \A y \in s : y.by = m => y.block < reg_block, left = W, cash = a,
                Amounts(GivenBy(s, m, reg_block - W + 1, reg_block - 1)) <= Limit
         PROVE  WindowRight(t, m, d)
    <2>1. F = reg_block
      BY <1>0, <1>f, <1>10
    <2>2. GivenBy(t, m, F, reg_block) = {x}
      BY <1>10, <1>t, <2>1 DEF GivenBy
    <2>3. Amounts(GivenBy(t, m, F, reg_block)) = cash
      BY <1>10, <1>o, <2>2, AmountsOne
    <2>4. GivenBy(t, m, F - W + 1, F - 1) = GivenBy(s, m, F - W + 1, F - 1)
      BY <1>0, <1>t, <2>1 DEF GivenBy
    <2>5. \A y \in t : y.by = m => y.block <= reg_block
      BY <1>10, <1>t
    <2>6. left \in 1..W /\ cash <= Limit
      BY <1>0, <1>10
    <2> QED BY <1>7, <1>10, <2>1, <2>3, <2>4, <2>5, <2>6 DEF WindowRight, F
  <1>11. ASSUME l = 0 PROVE WindowRight(t, m, d)
    <2>1. \A y \in s : y.by # m
      BY <1>r, <1>11 DEF WindowRight
    <2>2. c.already_allocated_cash = 0 /\ r = W
      BY <1>r, <1>11 DEF WindowRight
    <2>3. passed = 0 /\ remain = W /\ left = W /\ cash = a
      BY <1>0, <1>9, <1>11, <2>2
    <2>4. GivenBy(s, m, reg_block - W + 1, reg_block - 1) = {}
      BY <2>1 DEF GivenBy
    <2>5. Amounts(GivenBy(s, m, reg_block - W + 1, reg_block - 1)) <= Limit
      <3>1. Amounts(GivenBy(s, m, reg_block - W + 1, reg_block - 1)) = 0
        BY <2>4, AmountsNone
      <3> QED BY <1>0, <3>1
    <2>6. \A y \in s : y.by = m => y.block < reg_block
      BY <2>1
    <2> QED BY <1>10, <2>3, <2>5, <2>6
  <1>12. ASSUME l # 0 PROVE WindowRight(t, m, d)
    <2>1. /\ \A y \in s : y.by = m => y.block <= l
          /\ Amounts(GivenBy(s, m, WindowFirst(c), l)) = c.already_allocated_cash
          /\ c.already_allocated_cash <= Limit
          /\ Amounts(GivenBy(s, m, WindowFirst(c) - W + 1, WindowFirst(c) - 1)) <= Limit
      BY <1>r, <1>12 DEF WindowRight
    <2>2. passed = reg_block - l
      BY <1>0, <1>9, <1>12
    <2>3. ASSUME remain > 0 PROVE WindowRight(t, m, d)
      <3>1. remain = r - passed /\ left = remain /\ cash = c.already_allocated_cash + a /\ checked = cash
        BY <1>9, <2>3
      <3>2. F = WindowFirst(c) /\ passed + 1 <= W /\ left \in 1..W
        BY <1>0, <1>3, <1>4, <1>8, <1>f, <1>g, <2>2, <2>3, <3>1
      <3>3. cash <= Limit
        <4> DEFINE p == passed + 1
        <4>1. p \in Nat /\ p <= W /\ W >= 1
          BY <1>0, <1>3, <3>2
        <4> HIDE DEF p
        <4>2. MaximumBonus * p * LimitPerMember = Limit * p
          BY <1>0, <4>1 DEF Limit
        <4>3. (Limit * p) \div W \in Nat /\ (Limit * p) \div W <= Limit
          BY <1>0, <4>1, PartOf
        <4>4. cash <= (Limit * p) \div W
          BY <1>5, <3>1, <4>2 DEF p
        <4> QED BY <1>0, <1>6, <4>3, <4>4
      <3> DEFINE S == GivenBy(s, m, WindowFirst(c), l)
      <3>4. F \in Int /\ F <= reg_block /\ F <= l
        BY <1>0, <1>8, <1>g, <3>2
      <3>5. GivenBy(t, m, F, reg_block) = S \cup {x}
        <4>1. ASSUME NEW y \in GivenBy(t, m, F, reg_block) PROVE y \in S \cup {x}
          <5>1. y \in t /\ y.by = m /\ y.block \in F..reg_block /\ y.block \in Nat
            BY <1>t DEF GivenBy
          <5>2. CASE y \in s
            <6>1. y.block \in F..l
              BY <1>0, <2>1, <3>4, <5>1, <5>2
            <6> QED BY <3>2, <5>1, <5>2, <6>1 DEF GivenBy
          <5>3. CASE y = x
            BY <5>3
          <5> QED BY <5>1, <5>2, <5>3
        <4>2. ASSUME NEW y \in S PROVE y \in GivenBy(t, m, F, reg_block)
          <5>1. y \in s /\ y.by = m /\ y.block \in F..l /\ y.block \in Nat
            BY <1>t, <3>2 DEF GivenBy
          <5>2. y.block \in F..reg_block /\ y \in t
            BY <1>0, <1>o, <3>4, <5>1
          <5> QED BY <5>1, <5>2 DEF GivenBy
        <4>3. x \in GivenBy(t, m, F, reg_block)
          BY <1>t, <3>4 DEF GivenBy
        <4> QED BY <4>1, <4>2, <4>3
      <3>6. IsFiniteSet(S) /\ (\A y \in S : y.amount \in Nat) /\ x \notin S
        <4>1. x \notin S
          BY DEF GivenBy
        <4> QED BY <4>1, GivenFinite
      <3>7. Amounts(S \cup {x}) = Amounts(S) + x.amount
        <4> HIDE DEF S
        <4> QED BY <3>6, AmountsAdd
      <3>8. Amounts(GivenBy(t, m, F, reg_block)) = cash
        BY <1>o, <2>1, <3>1, <3>5, <3>7
      <3>9. GivenBy(t, m, F - W + 1, F - 1) = GivenBy(s, m, F - W + 1, F - 1)
        <4>1. x.block \notin (F - W + 1)..(F - 1)
          BY <1>0, <3>4
        <4> QED BY <4>1 DEF GivenBy
      <3>10. \A y \in t : y.by = m => y.block <= reg_block
        <4> SUFFICES ASSUME NEW y \in t, y.by = m PROVE y.block <= reg_block
          OBVIOUS
        <4>1. CASE y \in s
          BY <1>0, <1>o, <1>t, <2>1, <4>1
        <4>2. CASE y = x
          BY <4>2
        <4> QED BY <4>1, <4>2
      <3> QED BY <1>7, <2>1, <3>2, <3>3, <3>8, <3>9, <3>10 DEF WindowRight, F
    <2>4. ASSUME ~(remain > 0) PROVE WindowRight(t, m, d)
      <3>1. left = W /\ cash = a /\ passed >= r
        BY <1>0, <1>3, <1>4, <1>9, <2>4
      <3>2. reg_block >= l + r /\ l < reg_block
        BY <1>0, <1>8, <2>2, <3>1
      <3>3. ASSUME NEW y \in s, y.by = m PROVE y.block < reg_block
        BY <1>0, <1>t, <2>1, <3>2, <3>3
      <3> DEFINE S == GivenBy(s, m, WindowFirst(c), l)
                 P == GivenBy(s, m, reg_block - W + 1, reg_block - 1)
      <3>4. ASSUME NEW y \in P PROVE y \in S
        <4>1. y \in s /\ y.by = m /\ y.block \in (reg_block - W + 1)..(reg_block - 1) /\ y.block \in Nat
          BY <1>t DEF GivenBy
        <4>2. y.block \in (l + r - W)..l
          BY <1>0, <2>1, <3>2, <4>1
        <4> QED BY <1>g, <4>1, <4>2 DEF GivenBy
      <3>5. IsFiniteSet(S) /\ (\A y \in S : y.amount \in Nat) /\ P \in SUBSET S
        BY <3>4, GivenFinite
      <3>6. Amounts(P) <= Amounts(S) /\ Amounts(P) \in Nat /\ Amounts(S) \in Nat
        <4> HIDE DEF S, P
        <4> QED BY <3>5, AmountsPart
      <3>7. Amounts(P) <= Limit
        BY <1>0, <2>1, <3>6
      <3> QED BY <1>10, <3>1, <3>3, <3>7
    <2> QED BY <2>3, <2>4
  <1>13. WindowRight(t, m, d)
    BY <1>11, <1>12
  <1> QED BY <1>7, <1>13 DEF d

LEMMA NamesDiffer ==
  /\ Len(Newcomers) \in Nat /\ Len(Genesis) \in Nat
  /\ DOMAIN Newcomers = 1..Len(Newcomers) /\ DOMAIN Genesis = 1..Len(Genesis)
  /\ \A i \in 1..Len(Newcomers) : Newcomers[i] \in Accts
  /\ \A i \in 1..Len(Genesis) : Genesis[i] \in Accts
  /\ \A i, j \in 1..Len(Newcomers) : Newcomers[i] = Newcomers[j] => i = j
  /\ \A i, j \in 1..Len(Genesis) : Genesis[i] = Genesis[j] => i = j
  /\ \A i \in 1..Len(Newcomers), j \in 1..Len(Genesis) : Newcomers[i] # Genesis[j]
  /\ IsFiniteSet(Accts)
  <1> DEFINE p == Len(Newcomers)
             q == Len(Genesis)
             z == Newcomers \o Genesis
  <1>1. Newcomers \in Seq(STRING) /\ Genesis \in Seq(STRING) /\ IsInjective(z)
    BY RegistrationAssumption
  <1>2. p \in Nat /\ q \in Nat /\ DOMAIN Newcomers = 1..p /\ DOMAIN Genesis = 1..q
    BY <1>1
  <1>3. DOMAIN z = 1..(p + q) /\ (\A i \in 1..p : z[i] = Newcomers[i]) /\ (\A i \in 1..q : z[p + i] = Genesis[i])
    <2>1. DOMAIN z = 1..(p + q)
      BY <1>1, <1>2
    <2>2. ASSUME NEW i \in 1..p PROVE z[i] = Newcomers[i]
      BY <1>1, <1>2
    <2>3. ASSUME NEW i \in 1..q PROVE z[p + i] = Genesis[i]
      BY <1>1, <1>2
    <2> QED BY <2>1, <2>2, <2>3
  <1>4. \A i, j \in 1..(p + q) : z[i] = z[j] => i = j
    BY <1>1, <1>3 DEF IsInjective
  <1>5. Accts = {z[i] : i \in 1..(p + q)}
    BY <1>3 DEF Accts, Range
  <1> HIDE DEF p, q, z
  <1>6. ASSUME NEW i \in 1..p PROVE i \in 1..(p + q) /\ z[i] = Newcomers[i]
    BY <1>2, <1>3
  <1>7. ASSUME NEW i \in 1..q PROVE p + i \in 1..(p + q) /\ z[p + i] = Genesis[i]
    BY <1>2, <1>3
  <1>8. \A i \in 1..p : Newcomers[i] \in Accts
    BY <1>5, <1>6
  <1>9. \A i \in 1..q : Genesis[i] \in Accts
    BY <1>5, <1>7
  <1>10. \A i, j \in 1..p : Newcomers[i] = Newcomers[j] => i = j
    BY <1>4, <1>6
  <1>11. ASSUME NEW i \in 1..q, NEW j \in 1..q, Genesis[i] = Genesis[j] PROVE i = j
    <2>1. p + i = p + j
      BY <1>4, <1>7, <1>11
    <2> QED BY <1>2, <2>1
  <1>12. ASSUME NEW i \in 1..p, NEW j \in 1..q PROVE Newcomers[i] # Genesis[j]
    <2>1. i # p + j
      BY <1>2
    <2> QED BY <1>4, <1>6, <1>7, <2>1
  <1>13. IsFiniteSet(Accts)
    <2> DEFINE D == 1..(p + q)
               f == [i \in D |-> z[i]]
    <2>1. IsFiniteSet(D)
      BY <1>2, FS_Interval
    <2>2. f \in [D -> Accts] /\ \A t \in Accts : \E i \in D : f[i] = t
      BY <1>5
    <2> HIDE DEF D, f
    <2>3. f \in Surjection(D, Accts)
      BY <2>2 DEF Surjection
    <2> QED BY <2>1, <2>3, FS_Surjection
  <1> QED BY <1>2, <1>8, <1>9, <1>10, <1>11, <1>12, <1>13 DEF p, q

\* What allocate_cash takes.
LEMMA AllocatedType ==
  ASSUME RegTyped
  PROVE  /\ Allocated \in Nat /\ Allocated <= pool.balance /\ Allocated <= MaximumBonus
         /\ 100 * Allocated <= MaximumBonus * Schedule[StageOf(pool.already_allocated_count + 1)].bonus_percent
  <1> DEFINE k == CurrentStage
             v == Schedule[k].bonus_percent
             w == calculate_amount_by_schedule
  <1>1. pool.balance \in Nat /\ pool.already_allocated_count \in Nat
    BY DEF RegTyped
  <1>2. k = StageOf(pool.already_allocated_count + 1) /\ k \in 1..Len(Schedule)
    BY <1>1, StageFound
  <1>3. v \in 0..100 /\ MaximumBonus \in Nat
    BY <1>2, ScheduleType, RegistrationConstants
  <1>4. w = (MaximumBonus * v) \div 100
    BY DEF calculate_amount_by_schedule
  <1> HIDE DEF w, v, k
  <1>5. w \in Nat /\ w <= MaximumBonus
    <2>1. v \in Nat /\ v <= 100 /\ 100 >= 1 /\ 100 \in Nat
      BY <1>3
    <2> DEFINE h == 100
    <2>2. v <= h /\ h >= 1 /\ h \in Nat /\ w = (MaximumBonus * v) \div h
      BY <1>4, <2>1
    <2> HIDE DEF h
    <2> QED BY <1>3, <2>1, <2>2, PartOf
  <1>6. 100 * w <= MaximumBonus * v
    <2> DEFINE u == MaximumBonus * v
    <2>1. u \in Nat
      BY <1>3
    <2> HIDE DEF u
    <2>2. w = u \div 100
      BY <1>4 DEF u
    <2>3. 100 * (u \div 100) <= u
      BY <2>1
    <2> QED BY <2>2, <2>3 DEF u
  <1>7. Allocated = IF w <= pool.balance THEN w ELSE pool.balance
    BY DEF Allocated, take_actually_amount, w
  <1>8. Allocated \in Nat /\ Allocated <= pool.balance /\ Allocated <= MaximumBonus /\ Allocated <= w
    BY <1>1, <1>3, <1>5, <1>7
  <1>9. 100 * Allocated <= MaximumBonus * v
    <2> DEFINE u == MaximumBonus * v
    <2>1. u \in Nat /\ 100 * w <= u
      BY <1>3, <1>6
    <2> HIDE DEF u
    <2>2. 100 * Allocated <= u
      BY <1>5, <1>8, <2>1
    <2> QED BY <2>2 DEF u
  <1> QED BY <1>2, <1>8, <1>9 DEF v

\* One more account has its bonus.
Gift(a, who) == [account |-> a, by |-> who, amount |-> Allocated, block |-> reg_block,
                 nth |-> pool.already_allocated_count + 1]

GaveTo(a, who) ==
    /\ TakeFromPool /\ register_account_bonus(a) /\ allocations' = allocations \cup {Gift(a, who)}
    /\ reg_block' = reg_block

LEMMA GiftIsNew ==
  ASSUME RegTyped, Numbered, NEW a \in Accts, NEW who \in Registrars \cup {"genesis"}
  PROVE  /\ Gift(a, who) \in GivenType /\ Gift(a, who) \notin allocations
         /\ Gift(a, who).by = who /\ Gift(a, who).amount = Allocated /\ Gift(a, who).block = reg_block
         /\ Gift(a, who).nth = pool.already_allocated_count + 1
         /\ allocations \cup {Gift(a, who)} \in SUBSET GivenType /\ IsFiniteSet(allocations \cup {Gift(a, who)})
  <1>1. Allocated \in Nat /\ reg_block \in Nat /\ pool.already_allocated_count \in Nat
    BY AllocatedType DEF RegTyped
  <1> DEFINE x == Gift(a, who)
  <1>2. x.by = who /\ x.amount = Allocated /\ x.block = reg_block /\ x.nth = pool.already_allocated_count + 1 /\ x.account = a
    BY DEF Gift
  <1>3. x \in GivenType
    BY <1>1 DEF Gift, GivenType
  <1> HIDE DEF x
  <1>4. x \notin allocations
    BY <1>1, <1>2 DEF Numbered
  <1>5. IsFiniteSet(allocations \cup {x})
    BY FS_AddElement DEF RegTyped
  <1>6. allocations \cup {x} \in SUBSET GivenType
    BY <1>3 DEF RegTyped
  <1> QED BY <1>2, <1>3, <1>4, <1>5, <1>6 DEF x

LEMMA GiftTyped ==
  ASSUME RegTyped, Numbered, BonusFollowsSchedule, PoolHeld, NEW a \in Accts, NEW who \in Registrars \cup {"genesis"},
         GaveTo(a, who)
  PROVE  /\ pool' \in [balance : Nat, already_allocated_count : Nat]
         /\ pool.already_allocated_count \in Nat
         /\ pool'.already_allocated_count = pool.already_allocated_count + 1
         /\ bonuses' \subseteq BonusType /\ IsFiniteSet(bonuses')
         /\ bonus_power' \in [Accts -> Nat] /\ reg_block' \in Nat
         /\ allocations' \subseteq GivenType /\ IsFiniteSet(allocations')
         /\ PoolHeld' /\ Numbered' /\ BonusFollowsSchedule'
  <1> DEFINE n == pool.already_allocated_count
             x == Gift(a, who)
             b == [account |-> a, bonus |-> Allocated, expires |-> reg_block + BonusExpiration]
  <1>1. /\ Allocated \in Nat /\ Allocated <= pool.balance /\ n \in Nat /\ pool.balance \in Nat /\ reg_block \in Nat
        /\ 100 * Allocated <= MaximumBonus * Schedule[StageOf(n + 1)].bonus_percent
    BY AllocatedType DEF RegTyped
  <1>2. pool' = [balance |-> pool.balance - Allocated, already_allocated_count |-> n + 1]
    BY DEF GaveTo, TakeFromPool
  <1>3. bonuses' = bonuses \cup {b} /\ bonus_power' = [bonus_power EXCEPT ![a] = @ + Allocated]
    BY DEF GaveTo, register_account_bonus
  <1>4. pool' \in [balance : Nat, already_allocated_count : Nat] /\ pool'.already_allocated_count = n + 1
        /\ pool'.balance = pool.balance - Allocated
    BY <1>1, <1>2
  <1>5. b \in BonusType
    BY <1>1, RegistrationConstants DEF BonusType
  <1> HIDE DEF b
  <1>6. bonuses' \subseteq BonusType
    BY <1>3, <1>5 DEF RegTyped
  <1>7. IsFiniteSet(bonuses')
    BY <1>3, FS_AddElement DEF RegTyped
  <1>8. bonus_power' \in [Accts -> Nat] /\ bonus_power \in [Accts -> Nat]
        /\ bonus_power'[a] = bonus_power[a] + Allocated /\ \A c \in Accts \ {a} : bonus_power'[c] = bonus_power[c]
    BY <1>1, <1>3 DEF RegTyped
  <1>9. x \in GivenType /\ x.amount = Allocated /\ x.nth = n + 1 /\ allocations' = allocations \cup {x}
        /\ allocations' \in SUBSET GivenType /\ IsFiniteSet(allocations')
    BY GiftIsNew DEF GaveTo
  <1>10. reg_block' \in Nat
    BY <1>1 DEF GaveTo
  <1> HIDE DEF x
  <1>11. PoolHeld'
    <2> DEFINE f == bonus_power
               g == bonus_power'
    <2>1. IsFiniteSet(Accts) /\ Accts \in SUBSET Accts
      BY NamesDiffer
    <2>2. f \in [Accts -> Nat] /\ g \in [Accts -> Nat] /\ \A c \in Accts \ {a} : g[c] = f[c]
      BY <1>8
    <2>3. g[a] = f[a] + Allocated /\ f[a] \in Nat
      BY <1>8
    <2>5. pool.balance + SumFunctionOnSet(f, Accts) <= RegistrationSupply
      BY DEF PoolHeld
    <2> HIDE DEF f, g
    <2>4. SumFunctionOnSet(f, Accts) \in Nat /\ SumFunctionOnSet(g, Accts) = SumFunctionOnSet(f, Accts) + (g[a] - f[a])
      BY <2>1, <2>2, PartChanges
    <2>6. pool'.balance + SumFunctionOnSet(g, Accts) <= RegistrationSupply
      BY <1>1, <1>4, <2>3, <2>4, <2>5, RegistrationConstants
    <2> QED BY <2>6 DEF PoolHeld, g, Accts
  <1>12. Numbered'
    <2> SUFFICES ASSUME NEW y \in allocations' PROVE y.nth \in 1..(n + 1)
      BY <1>4 DEF Numbered
    <2>1. CASE y \in allocations
      BY <1>1, <2>1 DEF Numbered
    <2>2. CASE y = x
      BY <1>1, <1>9, <2>2
    <2> QED BY <1>9, <2>1, <2>2
  <1>13. BonusFollowsSchedule'
    <2>0. BonusFollowsSchedule' = \A y \in allocations' : 100 * y.amount <= MaximumBonus * Schedule[StageOf(y.nth)].bonus_percent
      BY DEF BonusFollowsSchedule, StageOf, UsersUpTo
    <2> SUFFICES ASSUME NEW y \in allocations' PROVE 100 * y.amount <= MaximumBonus * Schedule[StageOf(y.nth)].bonus_percent
      BY <2>0
    <2>1. CASE y \in allocations
      BY <2>1 DEF BonusFollowsSchedule
    <2>2. CASE y = x
      BY <1>1, <1>9, <2>2
    <2> QED BY <1>9, <2>1, <2>2
  <1> QED BY <1>1, <1>4, <1>6, <1>7, <1>8, <1>9, <1>10, <1>11, <1>12, <1>13

LEMMA GiftOnce ==
  ASSUME RegTyped, OneBonus, NEW a \in Accts, NEW who, GaveTo(a, who), \A b \in bonuses : b.account # a,
         NEW n \in Nat, NEW k \in Nat, HadTurn(a, n, k), pool.already_allocated_count <= n,
         Cardinality(ByMembers(allocations)) <= k, IsFiniteSet(allocations)
  PROVE  /\ \A b, c \in bonuses' : b.account = c.account => b = c
         /\ \A b \in bonuses' : HadTurn(b.account, n, k)
  <1> DEFINE z == [account |-> a, bonus |-> Allocated, expires |-> reg_block + BonusExpiration]
  <1>1. bonuses' = bonuses \cup {z} /\ z.account = a
    BY DEF GaveTo, register_account_bonus
  <1> HIDE DEF z
  <1>2. \A b, c \in bonuses : b.account = c.account => b = c
    BY DEF OneBonus
  <1>3. pool.already_allocated_count \in Nat /\ Cardinality(ByMembers(allocations)) \in Nat /\ Len(Genesis) \in Nat /\ Len(Newcomers) \in Nat
    <2>1. ByMembers(allocations) \subseteq allocations
      BY DEF ByMembers
    <2>2. Cardinality(ByMembers(allocations)) \in Nat
      BY <2>1, FS_Subset, FS_CardinalityType
    <2> QED BY <2>2, NamesDiffer DEF RegTyped
  <1>4. ASSUME NEW b \in bonuses PROVE HadTurn(b.account, n, k)
    <2> DEFINE u == pool.already_allocated_count
               v == Cardinality(ByMembers(allocations))
    <2>1. HadTurn(b.account, u, v)
      BY DEF OneBonus
    <2>2. u \in Nat /\ v \in Nat /\ u <= n /\ v <= k
      BY <1>3
    <2> HIDE DEF u, v
    <2>3. ASSUME NEW i \in 1..Len(Genesis), i <= u, b.account = Genesis[i] PROVE HadTurn(b.account, n, k)
      <3>1. i <= n
        BY <1>3, <2>2, <2>3
      <3> QED BY <2>3, <3>1 DEF HadTurn
    <2>4. ASSUME NEW i \in 1..Len(Newcomers), i <= v, b.account = Newcomers[i] PROVE HadTurn(b.account, n, k)
      <3>1. i <= k
        BY <1>3, <2>2, <2>4
      <3> QED BY <2>4, <3>1 DEF HadTurn
    <2> QED BY <2>1, <2>3, <2>4 DEF HadTurn
  <1> QED BY <1>1, <1>2, <1>4

LEMMA RegistrationInitInv == ASSUME RegistrationInit PROVE RegistrationInv
  <1>1. RegTyped
    <2>1. bonus_power \in [Accts -> Nat]
      BY DEF RegistrationInit, Accts
    <2>2. IsFiniteSet({})
      BY FS_EmptySet
    <2>3. pool \in [balance : Nat, already_allocated_count : Nat]
      BY RegistrationConstants DEF RegistrationInit
    <2>4. committee_members \in [Registrars -> MemberType]
      BY RegistrationConstants DEF RegistrationInit, MemberType
    <2> QED BY <2>1, <2>2, <2>3, <2>4 DEF RegTyped, RegistrationInit
  <1>2. WindowsRight
    <2> SUFFICES ASSUME NEW m \in Registrars
                 PROVE  committee_members[m].last_allocated_block <= reg_block
                        /\ WindowRight(allocations, m, committee_members[m])
      BY DEF WindowsRight
    <2>1. committee_members[m].last_allocated_block = 0 /\ committee_members[m].already_allocated_cash = 0
          /\ committee_members[m].per_n_block_remain = WindowBlocks /\ allocations = {} /\ reg_block = 0
      BY DEF RegistrationInit
    <2> QED BY <2>1 DEF WindowRight
  <1>3. ASSUME NEW m \in Registrars PROVE AllLimited(allocations, m)
    <2> SUFFICES ASSUME NEW b \in Int PROVE Amounts(GivenBy(allocations, m, b, b + WindowBlocks - 1)) <= 2 * Limit
      BY DEF AllLimited
    <2>1. GivenBy(allocations, m, b, b + WindowBlocks - 1) = {}
      BY DEF RegistrationInit, GivenBy
    <2>2. Amounts(GivenBy(allocations, m, b, b + WindowBlocks - 1)) = 0
      BY <2>1, AmountsNone
    <2> QED BY <2>2, RegistrationConstants
  <1>4. OneBonus
    BY DEF OneBonus, RegistrationInit, ByMembers
  <1>5. PoolHeld
    <2>1. IsFiniteSet(Accts) /\ \A a \in Accts : bonus_power[a] = 0
      BY NamesDiffer DEF RegistrationInit, Accts
    <2>2. SumFunctionOnSet(bonus_power, Accts) = 0
      BY <2>1, SumZero
    <2>3. pool.balance = RegistrationSupply
      BY DEF RegistrationInit
    <2> QED BY <2>2, <2>3, RegistrationConstants DEF PoolHeld
  <1>6. Numbered /\ BonusFollowsSchedule
    BY DEF Numbered, BonusFollowsSchedule, RegistrationInit
  <1> QED BY <1>1, <1>2, <1>3, <1>4, <1>5, <1>6 DEF RegistrationInv

LEMMA MembersCount ==
  ASSUME RegTyped
  PROVE  IsFiniteSet(ByMembers(allocations)) /\ Cardinality(ByMembers(allocations)) \in Nat
  <1>1. ByMembers(allocations) \subseteq allocations /\ IsFiniteSet(allocations)
    BY DEF ByMembers, RegTyped
  <1> QED BY <1>1, FS_Subset, FS_CardinalityType

LEMMA GenesisInv ==
  ASSUME RegistrationInv, registration_bonus_initializator
  PROVE  RegistrationInv'
  <1> DEFINE n == pool.already_allocated_count
             k == Cardinality(ByMembers(allocations))
             a == Genesis[n + 1]
             who == "genesis"
  <1>1. RegTyped /\ WindowsRight /\ (\A m \in Registrars : AllLimited(allocations, m))
        /\ OneBonus /\ PoolHeld /\ Numbered /\ BonusFollowsSchedule
    BY DEF RegistrationInv
  <1>2. n \in Nat /\ k \in Nat /\ Len(Genesis) \in Nat /\ n < Len(Genesis) /\ reg_block = 0
    BY <1>1, MembersCount, NamesDiffer DEF RegTyped, registration_bonus_initializator
  <1>3. a \in Accts /\ n + 1 \in 1..Len(Genesis) /\ who \in Registrars \cup {"genesis"}
    BY <1>2, NamesDiffer
  <1>4. GaveTo(a, who) /\ committee_members' = committee_members
    BY <1>2 DEF GaveTo, Gift, registration_bonus_initializator
  <1>5. Gift(a, who).by = "genesis" /\ allocations' = allocations \cup {Gift(a, who)}
    BY DEF Gift, GaveTo, registration_bonus_initializator
  <1>k. ByMembers(allocations') = ByMembers(allocations)
    BY <1>5 DEF ByMembers
  <1>m. \A m \in Registrars : m # "genesis"
    BY RegistrationAssumption
  <1>z. ByMembers(allocations) = {} /\ k = 0
    BY <1>1, <1>2, FS_EmptySet DEF OneBonus
  <1> DEFINE t == allocations'
  <1>6. \A m \in Registrars : \A first, last : GivenBy(t, m, first, last) = GivenBy(allocations, m, first, last)
    BY <1>5, <1>m DEF GivenBy
  <1>7. \A m \in Registrars : (\A y \in t : y.by = m => y \in allocations) /\ allocations \subseteq t
    BY <1>5, <1>m
  <1>8. /\ pool' \in [balance : Nat, already_allocated_count : Nat]
        /\ pool'.already_allocated_count = n + 1
        /\ bonuses' \subseteq BonusType /\ IsFiniteSet(bonuses')
        /\ bonus_power' \in [Accts -> Nat] /\ reg_block' \in Nat
        /\ allocations' \subseteq GivenType /\ IsFiniteSet(allocations')
        /\ PoolHeld' /\ Numbered' /\ BonusFollowsSchedule'
    BY <1>1, <1>3, <1>4, GiftTyped
  <1>9. RegTyped'
    BY <1>1, <1>4, <1>8 DEF RegTyped, MemberType, BonusType, GivenType, Accts
  <1>10. WindowsRight'
    <2> SUFFICES ASSUME NEW m \in Registrars
                 PROVE  committee_members[m].last_allocated_block <= reg_block
                        /\ WindowRight(t, m, committee_members[m])
      BY <1>4 DEF WindowsRight, GaveTo, WindowRight, GivenBy, Amounts, WindowFirst, Limit
    <2>1. committee_members[m].last_allocated_block <= reg_block /\ WindowRight(allocations, m, committee_members[m])
      BY <1>1 DEF WindowsRight
    <2> QED BY <1>6, <1>7, <2>1 DEF WindowRight
  <1>11. ASSUME NEW m \in Registrars PROVE AllLimited(allocations', m)
    BY <1>1, <1>6 DEF AllLimited
  <1>12. OneBonus'
    <2>1. HadTurn(a, n + 1, k) /\ n + 1 \in Nat
      BY <1>2, <1>3 DEF HadTurn
    <2>2. ASSUME NEW b \in bonuses PROVE b.account # a
      <3>1. HadTurn(b.account, n, k)
        BY <1>1 DEF OneBonus
      <3>2. PICK i \in 1..Len(Genesis) : i <= n /\ b.account = Genesis[i]
        <4>1. ASSUME NEW i \in 1..Len(Newcomers), i <= k PROVE FALSE
          BY <1>z, <4>1, NamesDiffer
        <4> QED BY <3>1, <4>1 DEF HadTurn
      <3>3. i # n + 1
        BY <1>2, <3>2
      <3> QED BY <1>3, <3>2, <3>3, NamesDiffer
    <2> DEFINE n1 == n + 1
    <2>3. n1 \in Nat /\ n <= n1 /\ k <= k /\ HadTurn(a, n1, k) /\ IsFiniteSet(allocations)
      BY <1>1, <1>2, <2>1 DEF RegTyped
    <2>6. pool'.already_allocated_count = n1
      BY <1>8
    <2> HIDE DEF n1
    <2>4. (\A b, c \in bonuses' : b.account = c.account => b = c) /\ (\A b \in bonuses' : HadTurn(b.account, n1, k))
      BY <1>1, <1>2, <1>3, <1>4, <2>2, <2>3, GiftOnce
    <2>5. Cardinality(ByMembers(allocations)') = k /\ ByMembers(allocations)' = {}
      BY <1>k, <1>z DEF ByMembers
    <2> QED BY <2>4, <2>5, <2>6 DEF OneBonus, HadTurn
  <1> QED BY <1>8, <1>9, <1>10, <1>11, <1>12 DEF RegistrationInv, AllLimited, GivenBy, Amounts, Limit

LEMMA RegisterInv ==
  ASSUME RegistrationInv, NEW r \in Registrars, NEW i \in DOMAIN Newcomers, reg_block > 0,
         i = 1 + Cardinality({x \in allocations : x.by # "genesis"}),
         account_create_by_committee_evaluator(r, Newcomers[i])
  PROVE  RegistrationInv'
  <1> DEFINE n == pool.already_allocated_count
             k == Cardinality(ByMembers(allocations))
             a == Newcomers[i]
             x == Gift(a, r)
             t == allocations'
             c == committee_members[r]
             d == MovedWindow(c, Allocated).member
  <1>1. RegTyped /\ WindowsRight /\ (\A m \in Registrars : AllLimited(allocations, m))
        /\ OneBonus /\ PoolHeld /\ Numbered /\ BonusFollowsSchedule
    BY DEF RegistrationInv
  <1>2. n \in Nat /\ k \in Nat /\ Len(Newcomers) \in Nat /\ i \in 1..Len(Newcomers) /\ i = 1 + k /\ reg_block \in Nat
    BY <1>1, MembersCount, NamesDiffer DEF RegTyped, ByMembers
  <1>3. a \in Accts /\ r \in Registrars \cup {"genesis"} /\ r # "genesis"
    BY <1>2, NamesDiffer, RegistrationAssumption
  <1>4. GaveTo(a, r) /\ committee_members' = [committee_members EXCEPT ![r] = d]
        /\ check_bandwidth(MovedWindow(c, Allocated)) /\ reg_block' = reg_block
    BY <1>2 DEF GaveTo, Gift, account_create_by_committee_evaluator
  <1>5. x.by = r /\ t = allocations \cup {x} /\ x \notin allocations /\ x.amount = Allocated /\ x.block = reg_block
        /\ t \in SUBSET GivenType /\ IsFiniteSet(t)
    BY <1>1, <1>3, <1>4, GiftIsNew DEF GaveTo
  <1>6. Allocated \in Nat /\ Allocated <= MaximumBonus
    BY <1>1, AllocatedType
  <1>7. /\ pool' \in [balance : Nat, already_allocated_count : Nat]
        /\ pool'.already_allocated_count = n + 1
        /\ bonuses' \subseteq BonusType /\ IsFiniteSet(bonuses')
        /\ bonus_power' \in [Accts -> Nat] /\ reg_block' \in Nat
        /\ PoolHeld' /\ Numbered' /\ BonusFollowsSchedule'
    BY <1>1, <1>3, <1>4, GiftTyped
  <1>8. c \in MemberType /\ c.last_allocated_block <= reg_block /\ WindowRight(allocations, r, c)
        /\ allocations \in SUBSET GivenType /\ IsFiniteSet(allocations)
    BY <1>1 DEF RegTyped, WindowsRight
  <1>9. d \in MemberType /\ d.last_allocated_block = reg_block /\ WindowRight(t, r, d)
    <2> DEFINE amount == Allocated
               s == allocations
    <2>1. /\ s \in SUBSET GivenType /\ IsFiniteSet(s) /\ t \in SUBSET GivenType /\ IsFiniteSet(t)
          /\ t = s \cup {x} /\ x \notin s /\ x.by = r /\ x.block = reg_block
      BY <1>5, <1>8
    <2>2. x.amount \in Nat /\ x.amount <= MaximumBonus /\ amount = x.amount
      BY <1>5, <1>6
    <2>3. reg_block \in Nat /\ reg_block > 0 /\ c \in MemberType /\ c.last_allocated_block <= reg_block
          /\ WindowRight(s, r, c) /\ check_bandwidth(MovedWindow(c, amount)) /\ d = MovedWindow(c, amount).member
      BY <1>2, <1>4, <1>8
    <2> HIDE DEF amount, s, t, x, c, d
    <2> QED BY <2>1, <2>2, <2>3, WindowStep
  <1>o. ASSUME NEW m \in Registrars, m # r
        PROVE  committee_members'[m] = committee_members[m]
               /\ (\A first, last : GivenBy(t, m, first, last) = GivenBy(allocations, m, first, last))
               /\ (\A y \in t : y.by = m => y \in allocations) /\ allocations \subseteq t
    <2>1. committee_members'[m] = committee_members[m]
      BY <1>1, <1>4, <1>o DEF RegTyped
    <2>2. \A first, last : GivenBy(t, m, first, last) = GivenBy(allocations, m, first, last)
      BY <1>5, <1>o DEF GivenBy
    <2> QED BY <1>5, <1>o, <2>1, <2>2
  <1>r. committee_members'[r] = d
    BY <1>1, <1>4 DEF RegTyped
  <1>10. committee_members' \in [Registrars -> MemberType]
    <2> HIDE DEF d
    <2> QED BY <1>1, <1>4, <1>9 DEF RegTyped
  <1>11. RegTyped'
    BY <1>5, <1>7, <1>10 DEF RegTyped, MemberType, BonusType, GivenType, Accts
  <1>12. ASSUME NEW m \in Registrars
         PROVE  committee_members'[m].last_allocated_block <= reg_block /\ WindowRight(t, m, committee_members'[m])
    <2>1. CASE m = r
      BY <1>2, <1>9, <1>r, <2>1
    <2>2. CASE m # r
      <3>1. committee_members[m].last_allocated_block <= reg_block /\ WindowRight(allocations, m, committee_members[m])
        BY <1>1 DEF WindowsRight
      <3> HIDE DEF t
      <3> QED BY <1>o, <2>2, <3>1 DEF WindowRight
    <2> QED BY <2>1, <2>2
  <1>13. WindowsRight'
    BY <1>4, <1>12 DEF WindowsRight, WindowRight, GivenBy, Amounts, WindowFirst, Limit
  <1>14. ASSUME NEW m \in Registrars PROVE AllLimited(t, m)
    <2>1. CASE m = r
      <3>1. d.last_allocated_block # 0 /\ x.block = d.last_allocated_block /\ x.block \in Nat
        BY <1>2, <1>5, <1>9
      <3>2. AllLimited(allocations, r)
        BY <1>1
      <3> HIDE DEF t, x, d
      <3>3. AllLimited(t, r)
        BY <1>5, <1>8, <1>9, <3>1, <3>2, LimitedStep
      <3> QED BY <2>1, <3>3
    <2>2. CASE m # r
      <3> HIDE DEF t
      <3> QED BY <1>1, <1>o, <2>2 DEF AllLimited
    <2> QED BY <2>1, <2>2
  <1>15. Cardinality(ByMembers(t)) = k + 1
    <2>1. ByMembers(t) = ByMembers(allocations) \cup {x} /\ x \notin ByMembers(allocations)
      <3> HIDE DEF t, x
      <3> QED BY <1>3, <1>5 DEF ByMembers
    <2>2. IsFiniteSet(ByMembers(allocations))
      BY <1>1, MembersCount
    <2> HIDE DEF x, t
    <2> QED BY <2>1, <2>2, FS_AddElement
  <1>16. OneBonus'
    <2> DEFINE n1 == n + 1
               k1 == k + 1
    <2>1. n1 \in Nat /\ k1 \in Nat /\ n <= n1 /\ k <= k1 /\ IsFiniteSet(allocations) /\ i <= k1
      BY <1>2, <1>8
    <2>2. ASSUME NEW b \in bonuses PROVE b.account # a
      <3>1. HadTurn(b.account, n, k)
        BY <1>1 DEF OneBonus
      <3>2. ASSUME NEW j \in 1..Len(Genesis), b.account = Genesis[j] PROVE b.account # a
        BY <1>2, <3>2, NamesDiffer
      <3>3. ASSUME NEW j \in 1..Len(Newcomers), j <= k, b.account = Newcomers[j] PROVE b.account # a
        <4>1. j # i
          BY <1>2, <3>3
        <4> QED BY <1>2, <3>3, <4>1, NamesDiffer
      <3> QED BY <3>1, <3>2, <3>3 DEF HadTurn
    <2>3. pool'.already_allocated_count = n1 /\ Cardinality(ByMembers(t)) = k1
      BY <1>7, <1>15
    <2> HIDE DEF n1, k1
    <2>4. HadTurn(a, n1, k1)
      BY <1>2, <2>1 DEF HadTurn
    <2>5. (\A b, e \in bonuses' : b.account = e.account => b = e) /\ (\A b \in bonuses' : HadTurn(b.account, n1, k1))
      BY <1>1, <1>3, <1>4, <2>1, <2>2, <2>4, GiftOnce
    <2>6. ByMembers(allocations)' = ByMembers(t) /\ reg_block' # 0
      BY <1>2, <1>4 DEF ByMembers
    <2> QED BY <2>3, <2>5, <2>6 DEF OneBonus, HadTurn
  <1> QED BY <1>7, <1>11, <1>13, <1>14, <1>16 DEF RegistrationInv, AllLimited, GivenBy, Amounts, Limit

\* What leaves the members' records and what was given alone.
LEMMA RecordsKept ==
  ASSUME RegistrationInv, UNCHANGED <<committee_members, allocations>>, reg_block' \in Nat, reg_block <= reg_block',
         pool'.already_allocated_count = pool.already_allocated_count,
         bonuses' \subseteq bonuses
  PROVE  /\ WindowsRight' /\ (\A m \in Registrars : AllLimited(allocations, m)') /\ Numbered' /\ BonusFollowsSchedule'
         /\ OneBonus' /\ bonuses' \subseteq BonusType /\ IsFiniteSet(bonuses')
  <1>1. RegTyped /\ WindowsRight /\ (\A m \in Registrars : AllLimited(allocations, m))
        /\ OneBonus /\ PoolHeld /\ Numbered /\ BonusFollowsSchedule
    BY DEF RegistrationInv
  <1>2. WindowsRight'
    <2> SUFFICES ASSUME NEW m \in Registrars
                 PROVE  committee_members[m].last_allocated_block <= reg_block' /\ WindowRight(allocations, m, committee_members[m])
      BY DEF WindowsRight, WindowRight, GivenBy, Amounts, WindowFirst, Limit
    <2>1. committee_members[m].last_allocated_block <= reg_block /\ WindowRight(allocations, m, committee_members[m])
      BY <1>1 DEF WindowsRight
    <2>2. committee_members[m].last_allocated_block \in Nat /\ reg_block \in Nat
      BY <1>1 DEF RegTyped, MemberType
    <2> QED BY <2>1, <2>2
  <1>3. \A m \in Registrars : AllLimited(allocations, m)'
    BY <1>1 DEF AllLimited, GivenBy, Amounts, Limit
  <1>4. Numbered'
    BY <1>1 DEF Numbered
  <1>5. BonusFollowsSchedule'
    BY <1>1 DEF BonusFollowsSchedule, StageOf, UsersUpTo
  <1>6. OneBonus'
    <2>1. ByMembers(allocations)' = ByMembers(allocations)
      BY DEF ByMembers
    <2>2. reg_block' = 0 => reg_block = 0
      BY <1>1 DEF RegTyped
    <2> QED BY <1>1, <2>1, <2>2 DEF OneBonus, HadTurn
  <1>7. bonuses' \subseteq BonusType /\ IsFiniteSet(bonuses')
    BY <1>1, FS_Subset DEF RegTyped
  <1> QED BY <1>2, <1>3, <1>4, <1>5, <1>6, <1>7

LEMMA ActivityInv ==
  ASSUME RegistrationInv, NEW a, process_user_activity_task(a)
  PROVE  RegistrationInv'
  <1>1. UNCHANGED <<pool, committee_members, bonus_power, reg_block, allocations>> /\ bonuses' \subseteq bonuses
    BY DEF process_user_activity_task
  <1>2. RegTyped /\ PoolHeld /\ reg_block \in Nat
    BY DEF RegistrationInv, RegTyped
  <1>3. /\ WindowsRight' /\ (\A m \in Registrars : AllLimited(allocations, m)') /\ Numbered' /\ BonusFollowsSchedule'
        /\ OneBonus' /\ bonuses' \subseteq BonusType /\ IsFiniteSet(bonuses')
    BY <1>1, <1>2, RecordsKept
  <1>4. RegTyped' /\ PoolHeld'
    BY <1>1, <1>2, <1>3 DEF RegTyped, PoolHeld, MemberType, BonusType, GivenType, Accts
  <1> QED BY <1>3, <1>4 DEF RegistrationInv

LEMMA BonusUsedInv ==
  ASSUME RegistrationInv, NEW a \in DOMAIN bonus_power, Delegate(a)
  PROVE  RegistrationInv'
  <1>1. UNCHANGED <<pool, committee_members, bonuses, reg_block, allocations>>
        /\ bonus_power' = [bonus_power EXCEPT ![a] = @ - 1] /\ bonus_power[a] > 0
    BY DEF Delegate
  <1>2. RegTyped /\ PoolHeld /\ reg_block \in Nat /\ pool.balance \in Nat /\ bonus_power \in [Accts -> Nat] /\ a \in Accts
    BY DEF RegistrationInv, RegTyped
  <1>3. /\ WindowsRight' /\ (\A m \in Registrars : AllLimited(allocations, m)') /\ Numbered' /\ BonusFollowsSchedule'
        /\ OneBonus' /\ bonuses' \subseteq BonusType /\ IsFiniteSet(bonuses')
    BY <1>1, <1>2, RecordsKept
  <1> DEFINE f == bonus_power
             g == bonus_power'
  <1>4. g \in [Accts -> Nat] /\ f \in [Accts -> Nat] /\ g[a] = f[a] - 1 /\ f[a] \in Nat /\ \A c \in Accts \ {a} : g[c] = f[c]
    BY <1>1, <1>2
  <1>5. RegTyped'
    BY <1>1, <1>2, <1>3, <1>4 DEF RegTyped, MemberType, BonusType, GivenType, Accts
  <1>6. IsFiniteSet(Accts) /\ Accts \in SUBSET Accts
    BY NamesDiffer
  <1>7. pool.balance + SumFunctionOnSet(f, Accts) <= RegistrationSupply
    BY <1>2 DEF PoolHeld
  <1>8. pool'.balance + SumFunctionOnSet(g, Accts) <= RegistrationSupply
    <2> HIDE DEF f, g
    <2>1. SumFunctionOnSet(f, Accts) \in Nat /\ SumFunctionOnSet(g, Accts) = SumFunctionOnSet(f, Accts) + (g[a] - f[a])
      BY <1>2, <1>4, <1>6, PartChanges
    <2> QED BY <1>1, <1>2, <1>4, <1>7, <2>1, RegistrationConstants
  <1>9. PoolHeld'
    BY <1>8 DEF PoolHeld, Accts
  <1> QED BY <1>3, <1>5, <1>9 DEF RegistrationInv

\* What goes back to the pool is what the accounts lose, and each loses no more than it has.
LEMMA ExpirationInv ==
  ASSUME RegistrationInv, process_account_registration_bonus_expiration
  PROVE  RegistrationInv'
  <1> DEFINE due == {b \in bonuses : b.expires <= reg_block + 1}
             back == [b \in due |-> return_funds(b)]
             Of(a) == {b \in due : b.account = a}
             lost == [a \in Accts |-> SumFunctionOnSet(back, Of(a))]
             f == bonus_power
             g == bonus_power'
             total == SumFunctionOnSet(back, due)
  <1>1. RegTyped /\ PoolHeld /\ OneBonus
    BY DEF RegistrationInv
  <1>2. /\ reg_block \in Nat /\ pool \in [balance : Nat, already_allocated_count : Nat] /\ pool.balance \in Nat
        /\ f \in [Accts -> Nat] /\ bonuses \subseteq BonusType /\ IsFiniteSet(bonuses) /\ DOMAIN bonus_power = Accts
    BY <1>1 DEF RegTyped
  <1>3. /\ UNCHANGED <<committee_members, allocations>> /\ reg_block' = reg_block + 1 /\ bonuses' = bonuses \ due
        /\ g = [a \in Accts |-> f[a] - lost[a]] /\ pool' = [pool EXCEPT !.balance = @ + total]
    BY <1>2 DEF process_account_registration_bonus_expiration
  <1>4. IsFiniteSet(due) /\ IsFiniteSet(Accts)
    BY <1>2, FS_Subset, NamesDiffer
  <1>5. ASSUME NEW b \in due
        PROVE  b.account \in Accts /\ back[b] \in Nat /\ back[b] <= f[b.account] /\ b \in bonuses
    <2>1. b.account \in Accts /\ b.bonus \in Nat /\ b \in bonuses
      BY <1>2 DEF BonusType
    <2>2. f[b.account] \in Nat
      BY <1>2, <2>1
    <2>3. back[b] = IF b.bonus < f[b.account] THEN b.bonus ELSE f[b.account]
      BY DEF return_funds
    <2> QED BY <2>1, <2>2, <2>3
  <1>6. ASSUME NEW a \in Accts PROVE lost[a] \in Nat /\ lost[a] <= f[a] /\ f[a] \in Nat
    <2>0. f[a] \in Nat /\ lost[a] = SumFunctionOnSet(back, Of(a))
      BY <1>2
    <2>1. CASE Of(a) = {}
      <3>1. SumFunctionOnSet(back, Of(a)) = 0
        BY <2>1, SumEmpty
      <3> HIDE DEF f, lost
      <3> QED BY <2>0, <3>1
    <2>2. CASE Of(a) # {}
      <3>1. PICK b \in due : b.account = a
        BY <2>2
      <3>2. \A c \in due : c.account = a => c = b
        BY <1>1, <1>5, <3>1 DEF OneBonus
      <3>3. b \in Of(a) /\ Of(a) \ {b} = {}
        BY <3>1, <3>2
      <3>4. IsFiniteSet(Of(a)) /\ \A c \in Of(a) : back[c] \in Int
        BY <1>4, <1>5, FS_Subset
      <3>5. back[b] \in Nat /\ back[b] <= f[a]
        BY <1>5, <3>1
      <3> DEFINE S == Of(a)
      <3> HIDE DEF S, back
      <3>6. SumFunctionOnSet(back, S) = back[b] + SumFunctionOnSet(back, S \ {b})
        BY <3>3, <3>4, SumTake DEF S
      <3>7. SumFunctionOnSet(back, S \ {b}) = 0
        BY <3>3, SumEmpty DEF S
      <3>8. SumFunctionOnSet(back, S) = back[b]
        BY <3>5, <3>6, <3>7
      <3> HIDE DEF f, lost
      <3> QED BY <2>0, <3>5, <3>8 DEF S
    <2> QED BY <2>1, <2>2
  <1>7. SumFunctionOnSet(lost, Accts) = total
    <2> DEFINE owner == [b \in due |-> b.account]
    <2>1. (\A b \in due : owner[b] \in Accts) /\ (\A b \in due : back[b] \in Int)
      BY <1>5
    <2>2. \A a \in Accts : {b \in due : owner[b] = a} = Of(a)
      OBVIOUS
    <2>3. lost = [a \in Accts |-> SumFunctionOnSet(back, {b \in due : owner[b] = a})]
      BY <2>2
    <2> HIDE DEF owner, lost, back, due
    <2>4. SumFunctionOnSet([a \in Accts |-> SumFunctionOnSet(back, {b \in due : owner[b] = a})], Accts)
            = SumFunctionOnSet(back, due)
      BY <1>4, <2>1, SumGrouped
    <2> QED BY <2>3, <2>4
  <1>8. g \in [Accts -> Nat] /\ \A a \in Accts : g[a] = f[a] - lost[a]
    <2> HIDE DEF lost, f
    <2> QED BY <1>3, <1>6
  <1>9. total \in Nat
    <2>1. \A b \in due : back[b] \in Nat
      BY <1>5
    <2> HIDE DEF back, due
    <2> QED BY <1>4, <2>1, SumNatural
  <1>10. pool' \in [balance : Nat, already_allocated_count : Nat] /\ pool'.balance = pool.balance + total
         /\ pool'.already_allocated_count = pool.already_allocated_count
    <2> HIDE DEF total
    <2> QED BY <1>2, <1>3, <1>9
  <1>11. /\ WindowsRight' /\ (\A m \in Registrars : AllLimited(allocations, m)') /\ Numbered' /\ BonusFollowsSchedule'
         /\ OneBonus' /\ bonuses' \subseteq BonusType /\ IsFiniteSet(bonuses')
    <2>1. reg_block' \in Nat /\ reg_block <= reg_block' /\ bonuses' \subseteq bonuses
      BY <1>2, <1>3
    <2> QED BY <1>3, <1>10, <2>1, RecordsKept
  <1>12. RegTyped'
    <2>1. reg_block' \in Nat
      BY <1>2, <1>3
    <2>2. committee_members' \in [Registrars -> MemberType] /\ allocations' \subseteq GivenType /\ IsFiniteSet(allocations')
      BY <1>1, <1>3 DEF RegTyped
    <2> QED BY <1>8, <1>10, <1>11, <2>1, <2>2 DEF RegTyped, MemberType, BonusType, GivenType, Accts
  <1>13. pool'.balance + SumFunctionOnSet(g, Accts) <= RegistrationSupply
    <2>1. \A a \in Accts : g[a] \in Int /\ lost[a] \in Int /\ f[a] = g[a] + lost[a]
      <3> HIDE DEF g, f, lost
      <3> QED BY <1>6, <1>8
    <2>2. \A a \in Accts : g[a] \in Nat
      BY <1>8
    <2>6. pool.balance + SumFunctionOnSet(f, Accts) <= RegistrationSupply
      BY <1>1 DEF PoolHeld
    <2> HIDE DEF g, f, lost, total
    <2>3. SumFunctionOnSet(f, Accts) = SumFunctionOnSet(g, Accts) + SumFunctionOnSet(lost, Accts)
      BY <1>4, <2>1, SumPlus
    <2>4. SumFunctionOnSet(g, Accts) \in Nat
      BY <1>4, <2>2, SumNatural
    <2>5. SumFunctionOnSet(f, Accts) = SumFunctionOnSet(g, Accts) + total
      BY <1>7, <2>3
    <2> QED BY <1>2, <1>9, <1>10, <2>4, <2>5, <2>6
  <1>14. PoolHeld'
    BY <1>13 DEF PoolHeld, Accts
  <1> QED BY <1>11, <1>12, <1>14 DEF RegistrationInv

LEMMA RegistrationNextInv == RegistrationInv /\ [RegistrationNext]_registrationVars => RegistrationInv'
  <1> SUFFICES ASSUME RegistrationInv, [RegistrationNext]_registrationVars PROVE RegistrationInv'
    OBVIOUS
  <1>1. CASE registration_bonus_initializator
    BY <1>1, GenesisInv
  <1>2. CASE process_account_registration_bonus_expiration
    BY <1>2, ExpirationInv
  <1>3. ASSUME NEW m \in Registrars, NEW i \in DOMAIN Newcomers, reg_block > 0,
               i = 1 + Cardinality({x \in allocations : x.by # "genesis"}),
               account_create_by_committee_evaluator(m, Newcomers[i])
        PROVE  RegistrationInv'
    BY <1>3, RegisterInv
  <1>4. ASSUME NEW a \in DOMAIN bonus_power, process_user_activity_task(a) PROVE RegistrationInv'
    BY <1>4, ActivityInv
  <1>5. ASSUME NEW a \in DOMAIN bonus_power, Delegate(a) PROVE RegistrationInv'
    BY <1>5, BonusUsedInv
  <1>6. CASE UNCHANGED registrationVars
    <2>1. UNCHANGED <<pool, committee_members, bonuses, bonus_power, reg_block, allocations>>
      BY <1>6 DEF registrationVars
    <2>2. RegTyped /\ PoolHeld /\ reg_block \in Nat
      BY DEF RegistrationInv, RegTyped
    <2>3. /\ WindowsRight' /\ (\A m \in Registrars : AllLimited(allocations, m)') /\ Numbered' /\ BonusFollowsSchedule'
          /\ OneBonus' /\ bonuses' \subseteq BonusType /\ IsFiniteSet(bonuses')
      BY <2>1, <2>2, RecordsKept
    <2>4. RegTyped' /\ PoolHeld'
      BY <2>1, <2>2 DEF RegTyped, PoolHeld, MemberType, BonusType, GivenType, Accts
    <2> QED BY <2>3, <2>4 DEF RegistrationInv
  <1> QED BY <1>1, <1>2, <1>3, <1>4, <1>5, <1>6 DEF RegistrationNext

LEMMA InvRegistrationSound == RegistrationInv => RegistrationSound
  <1> SUFFICES ASSUME RegistrationInv PROVE RegistrationSound
    OBVIOUS
  <1>1. RegTyped /\ (\A m \in Registrars : AllLimited(allocations, m)) /\ PoolHeld /\ BonusFollowsSchedule
    BY DEF RegistrationInv
  <1>2. MembersLimited
    <2> SUFFICES ASSUME NEW m \in Registrars, NEW b \in 1..LastRegistration
                 PROVE  GivenIn(m, b, b + WindowBlocks - 1) <= 2 * MaximumBonus * LimitPerMember
      BY DEF MembersLimited
    <2>1. b \in Int
      BY RegistrationConstants
    <2>2. GivenIn(m, b, b + WindowBlocks - 1) = Amounts(GivenBy(allocations, m, b, b + WindowBlocks - 1))
      BY DEF GivenIn, Amounts, GivenBy
    <2>3. 2 * Limit = 2 * MaximumBonus * LimitPerMember
      BY RegistrationConstants DEF Limit
    <2> QED BY <1>1, <2>1, <2>2, <2>3 DEF AllLimited
  <1>3. PoolBounded
    <2>1. IsFiniteSet(Accts) /\ (\A a \in Accts : bonus_power[a] \in Nat) /\ pool.balance \in Nat
      BY <1>1, NamesDiffer DEF RegTyped
    <2>2. SumFunctionOnSet(bonus_power, Accts) \in Nat
      BY <2>1, SumNatural
    <2> QED BY <1>1, <2>1, <2>2, RegistrationConstants DEF PoolHeld, PoolBounded
  <1> QED BY <1>1, <1>2, <1>3 DEF RegistrationSound

\* For every schedule, supply, committee, limit and window: however members register
\* accounts, accounts use what they got and bonuses expire, calculate_amount_by_schedule
\* finds the stage each account belongs to and gives no more than its bonus, a member
\* gives away no more than two of its limits in any window of blocks
\* (validate_bandwidth), and what comes back never makes the pool exceed its supply
\* (return_funds).
THEOREM RegistrationAlwaysSound == RegistrationSpec => []RegistrationSound
  <1>1. RegistrationInit => RegistrationInv
    BY RegistrationInitInv
  <1>2. RegistrationInv /\ [RegistrationNext]_registrationVars => RegistrationInv'
    BY RegistrationNextInv
  <1>3. RegistrationInv => RegistrationSound
    BY InvRegistrationSound
  <1> QED BY <1>1, <1>2, <1>3, PTL DEF RegistrationSpec
=============================================================================
