---------------------------- MODULE Authorities ----------------------------
(***************************************************************************)
(* Who may sign what (protocol/sign_state.cpp, authority.cpp and           *)
(* transaction.cpp): weighted authorities of keys and of accounts, the     *)
(* search for them that the accounts named are followed through, to a      *)
(* depth and with those found approved remembered, and the signatures a    *)
(* wallet chooses.                                                         *)
(*                                                                         *)
(* Keys and accounts are numbers, in the order of the maps that hold them. *)
(* An authority is a threshold and two sequences of pairs with a weight.   *)
(***************************************************************************)
EXTENDS Naturals, Sequences, FiniteSets, FiniteSetsExt, SequencesExt

CONSTANTS SignKeys,        \* the keys
          Signatories,       \* the accounts
          Temp,              \* the account with the name "temp", if there is one
          MaxSigCheckDepth,  \* SCORUM_MAX_SIG_CHECK_DEPTH
          Graphs,            \* the authorities the accounts may have
          Requirements       \* what transactions may require

VARIABLES graph,        \* for "owner", "active", "posting" the authority of each account
          verdict         \* what was asked last, and the answer

authorityVars == <<graph, verdict>>

Authority(threshold, keys, accounts) ==
    [threshold |-> threshold, keys |-> keys, accounts |-> accounts]

is_impossible(auth) ==
    LET Weights(items) == FoldLeft(LAMBDA sum, p : sum + p[2], 0, items)
    IN  Weights(auth.keys) + Weights(auth.accounts) < auth.threshold

(***************************************************************************)
(* sign_state: the keys that signed or could sign, which of them were      *)
(* used, and the accounts that count as approved: from the start the one   *)
(* with the name "temp".                                                   *)
(***************************************************************************)
sign_state(sigs, available, level) ==
    [sigs |-> sigs, available |-> available, used |-> {}, approved |-> {Temp}, get |-> graph[level]]

signed_by(s, k) == k \in s.sigs \cup s.available

MarkUsed(s, k) == [s EXCEPT !.used = @ \cup ({k} \cap (s.sigs \cup s.available))]

RECURSIVE CheckKeys(_, _, _, _)

\* The loop over the keys: it stops as soon as the weight suffices.
CheckKeys(s, auth, i, total) ==
    IF i > Len(auth.keys) THEN [ok |-> FALSE, s |-> s, total |-> total]
    ELSE LET k == auth.keys[i][1]
             sum == IF signed_by(s, k) THEN total + auth.keys[i][2] ELSE total
         IN  IF signed_by(s, k) /\ sum >= auth.threshold
             THEN [ok |-> TRUE, s |-> MarkUsed(s, k), total |-> sum]
             ELSE CheckKeys(MarkUsed(s, k), auth, i + 1, sum)

RECURSIVE CheckAccounts(_, _, _, _, _), check_authority(_, _, _)

\* The loop over the accounts: who is approved already counts at any depth.
CheckAccounts(s, auth, i, total, depth) ==
    IF i > Len(auth.accounts) THEN [ok |-> total >= auth.threshold, s |-> s]
    ELSE LET a == auth.accounts[i][1]
             known == a \in s.approved
             below == IF known \/ depth = MaxSigCheckDepth THEN [ok |-> known, s |-> s]
                      ELSE check_authority(s, s.get[a], depth + 1)
             next == IF below.ok THEN [below.s EXCEPT !.approved = @ \cup {a}] ELSE below.s
             sum == IF below.ok THEN total + auth.accounts[i][2] ELSE total
         IN  IF below.ok /\ sum >= auth.threshold THEN [ok |-> TRUE, s |-> next]
             ELSE CheckAccounts(next, auth, i + 1, sum, depth)

check_authority(s, auth, depth) ==
    LET keys == CheckKeys(s, auth, 1, 0)
    IN  IF keys.ok THEN [ok |-> TRUE, s |-> keys.s]
        ELSE CheckAccounts(keys.s, auth, 1, keys.total, depth)

\* check_authority(id): an account approved on the way needs no further look.
check_authority_of(s, id) ==
    IF id \in s.approved THEN [ok |-> TRUE, s |-> s] ELSE check_authority(s, s.get[id], 0)

\* A mutant: the owner's authority is not tried.
FirstOnly(s, id, levels) == check_authority_of(s, id)

\* One authority after the other until one holds.
FirstOf(s, id, levels) ==
    FoldLeft(LAMBDA r, level : IF r.ok THEN r ELSE check_authority(r.s, graph[level][id], 0),
             check_authority_of(s, id), levels)

InOrder(ids) == SetToSortSeq(ids, <)

AllOf(r, ids, levels) ==
    FoldLeft(LAMBDA q, id : IF q.ok THEN FirstOf(q.s, id, levels) ELSE q,
             r, InOrder(ids))

(***************************************************************************)
(* verify_authority: "ok" or what it throws.                               *)
(***************************************************************************)
verify_authority(req, sigs) ==
    IF req.posting # {}
    THEN IF req.active \cup req.owner # {} \/ req.other # <<>> THEN "mixed"
         ELSE LET r == AllOf([ok |-> TRUE, s |-> sign_state(sigs, {}, "posting")],
                             req.posting, <<"active", "owner">>)
              IN  IF ~r.ok THEN "missing" ELSE IF r.s.used # sigs THEN "irrelevant" ELSE "ok"
    ELSE LET Owner(r, id) ==
                 IF r.ok THEN check_authority(r.s, graph["owner"][id], 0) ELSE r
             others == FoldLeft(LAMBDA r, auth : IF r.ok THEN check_authority(r.s, auth, 0) ELSE r,
                                [ok |-> TRUE, s |-> sign_state(sigs, {}, "active")], req.other)
             actives == AllOf(others, req.active, <<"owner">>)
             owners == FoldLeft(Owner, actives, InOrder(req.owner))
         IN  IF ~owners.ok THEN "missing"
             ELSE IF owners.s.used # sigs THEN "irrelevant" ELSE "ok"

(***************************************************************************)
(* What a wallet signs with.                                               *)
(***************************************************************************)
\* Every authority is looked for once, with the signatures there are and the keys that
\* could sign, and what fails is left to be refused later.
get_required_signatures(req, sigs, available) ==
    LET Try(s, auth) == check_authority(s, auth, 0).s
        TryOf(s, id) == check_authority_of(s, id).s
        all == sign_state(sigs, available, IF req.posting # {} THEN "posting" ELSE "active")
        others == FoldLeft(Try, all, req.other)
        owners == FoldLeft(LAMBDA s, id : Try(s, graph["owner"][id]), others, InOrder(req.owner))
        actives == FoldLeft(TryOf, owners, InOrder(req.active))
        posts == FoldLeft(TryOf, all, InOrder(req.posting))
    IN  available \cap (IF req.posting = {} THEN actives.used ELSE posts.used)

\* Keys are left out one after the other as long as the others suffice; "threw" is an
\* exception that is not caught.  The wallet has cleared the signatures before.
minimize_required_signatures(req, available) ==
    LET Without(r, k) ==
            LET v == verify_authority(req, r.keys \ {k})
            IN  IF v = "ok" THEN [r EXCEPT !.keys = @ \ {k}]
                ELSE IF v = "missing" THEN r ELSE [r EXCEPT !.threw = TRUE]
        all == get_required_signatures(req, {}, available)
    IN  FoldLeft(Without, [keys |-> all, threw |-> FALSE], InOrder(all))

(***************************************************************************)
(* Questions asked of it.                                                  *)
(***************************************************************************)
NoVerdict == [asked |-> "nothing"]

AuthoritiesInit == graph \in Graphs /\ verdict = NoVerdict

\* signed_transaction::verify_authority
Verify(req, sigs) ==
    /\ verdict = NoVerdict
    /\ verdict' = [asked |-> "verify", req |-> req, sigs |-> sigs, is |-> verify_authority(req, sigs)]
    /\ UNCHANGED graph

\* What is mixed is refused by an assertion.
NotMixed(req) == req.posting # {} => req.active \cup req.owner = {} /\ req.other = <<>>

\* database_api::get_required_signatures
Require(req, sigs, available) ==
    /\ verdict = NoVerdict /\ NotMixed(req)
    /\ verdict' = [asked |-> "require", req |-> req, sigs |-> sigs, available |-> available,
                   is |-> get_required_signatures(req, sigs, available)]
    /\ UNCHANGED graph

Minimize(req, available) ==
    /\ verdict = NoVerdict /\ NotMixed(req)
    /\ verdict' = [asked |-> "minimize", req |-> req, sigs |-> available,
                   is |-> minimize_required_signatures(req, available)]
    /\ UNCHANGED graph

AuthoritiesNext ==
    \E req \in Requirements, keys \in SUBSET SignKeys :
        \/ Verify(req, keys) \/ Minimize(req, keys)
        \/ \E sigs \in SUBSET (SignKeys \ keys) : Require(req, sigs, keys)

(***************************************************************************)
(* Properties.                                                             *)
(***************************************************************************)
RECURSIVE Holds(_, _, _, _)

\* What an authority means: the weights of the keys that signed and of the accounts
\* whose own authority holds, followed through d accounts, reach the threshold.  The
\* account with the name "temp" holds whoever signed.
Holds(auth, sigs, level, d) ==
    LET keys == {i \in DOMAIN auth.keys : auth.keys[i][1] \in sigs}
        accounts == {i \in DOMAIN auth.accounts :
                        \/ auth.accounts[i][1] = Temp
                        \/ d > 0 /\ Holds(graph[level][auth.accounts[i][1]], sigs, level, d - 1)}
    IN  MapThenSumSet(LAMBDA i : auth.keys[i][2], keys)
          + MapThenSumSet(LAMBDA i : auth.accounts[i][2], accounts) >= auth.threshold

\* All that a transaction requires holds, followed through d accounts: an active authority
\* or a posting authority may be replaced by one of the levels above.
Granted(req, sigs, d, above) ==
    LET through == IF req.posting # {} THEN "posting" ELSE "active"
    IN  /\ \A i \in DOMAIN req.other : Holds(req.other[i], sigs, through, d)
        /\ \A id \in req.owner : Holds(graph["owner"][id], sigs, through, d)
        /\ \A id \in req.active \cup req.posting :
              id = Temp \/ \E level \in {through} \cup above : Holds(graph[level][id], sigs, through, d)

AnyAbove(req) == IF req.posting # {} THEN {"active", "owner"} ELSE {"owner"}

\* Nobody gets through whose authority does not hold however far accounts are followed,
\* but for the account with the name "temp".
\* Where one authority is asked for, nobody is refused whose authority holds within the
\* depth (sign_state::check_authority stops early and remembers who was approved).
GrantedOnlyIfHeld ==
    verdict.asked = "verify" /\ verdict.is \in {"ok", "irrelevant"} =>
        Granted(verdict.req, verdict.sigs, Cardinality(Signatories), AnyAbove(verdict.req))

HeldIsGranted ==
    verdict.asked = "verify" /\ verdict.is = "missing" =>
        ~Granted(verdict.req, verdict.sigs, MaxSigCheckDepth, AnyAbove(verdict.req))

\* No signature is refused as unnecessary without which the transaction is not granted.
NecessaryIsRelevant ==
    verdict.asked = "verify" /\ verdict.is = "irrelevant" =>
        \E k \in verdict.sigs : verify_authority(verdict.req, verdict.sigs \ {k}) # "missing"

\* What the wallet signs with is granted if all its keys would be, none of its
\* signatures can be left out, and none is refused as unnecessary
\* (signed_transaction::minimize_required_signatures).
WalletSignsEnough ==
    verdict.asked = "minimize" =>
        LET result == verdict.is.keys
        IN  /\ ~verdict.is.threw
            /\ verify_authority(verdict.req, get_required_signatures(verdict.req, {}, verdict.sigs)) = "ok"
                 => /\ verify_authority(verdict.req, result) = "ok"
                    /\ \A k \in result : verify_authority(verdict.req, result \ {k}) # "ok"

\* The keys that get_required_signatures asks for suffice together with the signatures
\* there are, wherever all keys at hand would without the authorities of levels above.
RequiredSuffice ==
    verdict.asked = "require" /\ Granted(verdict.req, verdict.sigs \cup verdict.available, MaxSigCheckDepth, {}) =>
        verify_authority(verdict.req, verdict.sigs \cup verdict.is) # "missing"

AuthoritiesSound ==
    /\ GrantedOnlyIfHeld /\ HeldIsGranted /\ NecessaryIsRelevant
    /\ WalletSignsEnough /\ RequiredSuffice
=============================================================================
