------------------------------ MODULE MCLedger ------------------------------
(***************************************************************************)
(* Instances of the parts of the chain's state that operations and the     *)
(* tasks of a block change and that share nothing: committees, votes for   *)
(* witnesses, scorumpower, budgets with rewards, comments, accounts with   *)
(* their recovery, and the registration pool.  Each behaviour exercises    *)
(* one of them, named by "part"; the others stay as they began.            *)
(***************************************************************************)
EXTENDS Committees, WitnessVotes, Vesting, Funds, Comments, Accounts,
        Registration, TLC

VARIABLE part

ledgerVars == <<part, committeeVars, voteVars, vestingVars, fundsVars, commentVars,
                recoveryVars, registrationVars>>

\* A registration committee of three, a development committee of two.
MCFounders == [c \in Committee |-> IF c = "registration" THEN {1, 2, 3} ELSE {1, 2}]

\* What the first, the second and the third proposal may be about.
MCProposedOps ==
    <<{exclude_member("registration", 1), add_member("registration", 4),
       exclude_member("development", 1)},
      {exclude_member("registration", 2), exclude_member("development", 1),
       change_quorum("registration", "exclude_member", 50),
       change_setting("betting_moderator", 1), change_setting("post_coefficients", 1)},
      {exclude_member("registration", 1), transfer(1, 4), withdraw_vesting(1)}>>

\* Enough for a chain longer than the array, and for a loop.
MCProxyPairs == {<<"a", "b">>, <<"b", "c">>, <<"c", "d">>, <<"c", "a">>}

\* From and to whom power is routed and delegated; -1 is the development pool.
MCRoutePairs == {<<0, 1>>, <<0, -1>>, <<1, 0>>, <<-1, 1>>}

\* An auction of two places, or of one.
MCCoefficients == {<<4, 2>>, <<3>>}

\* A post of u, a reply of v, and one of u to it.
MCAuthor == [k \in CommentKeys |-> IF k = "k2" THEN "v" ELSE "u"]
MCReplies == {<<"k1", Root>>, <<"k2", "k1">>, <<"k3", "k2">>}

\* Against, taken back, for with half and with full weight.
MCWeights == {-1, 0, 1, 2}

\* No reward for curators; a limit, and a part for v; no votes.
MCOptions ==
    LET all == [cap |-> Unlimited, allow_votes |-> TRUE, allow_curation |-> TRUE,
                beneficiaries |-> NoBeneficiaries]
    IN  {[all EXCEPT !.allow_curation = FALSE], [all EXCEPT !.allow_votes = FALSE],
         [all EXCEPT !.cap = 9, !.beneficiaries = [u \in Users |-> IF u = "v" THEN 1 ELSE 0]]}

\* Authorities of accounts: of a key, of another key, and of two keys or an account.
MCKeysIn == "o1" :> {1} @@ "o2" :> {2} @@ "m" :> {1, 3}
MCAccountsIn == "o1" :> {} @@ "o2" :> {} @@ "m" :> {"u"}
MCCreations == {[owner |-> "o1", active |-> "o2", posting |-> "o2"]}
MCUpdates == {[owner |-> "o2", active |-> "no", posting |-> "no"],
              [owner |-> "no", active |-> "o1", posting |-> "m"]}

\* The whole bonus for the first six, which is more than a member may give away in two
\* windows, and half for the next.
MCSchedule == <<[users |-> 6, bonus_percent |-> 100], [users |-> 1, bonus_percent |-> 50]>>
MCNewcomers == <<"n1", "n2", "n3", "n4", "n5", "n6">>
MCGenesis == <<"g">>

LedgerInit ==
    /\ part \in {"committees", "votes", "vesting", "funds", "comments", "accounts",
                 "registration"}
    /\ CommitteesInit /\ WitnessVotesInit /\ VestingInit /\ FundsInit /\ CommentsInit
    /\ AccountsInit /\ RegistrationInit
    /\ part # "funds" => coefficients["post"] = <<3>>

LedgerNext ==
    /\ UNCHANGED part
    /\ IF part = "committees" THEN CommitteesNext ELSE UNCHANGED committeeVars
    /\ IF part = "votes" THEN WitnessVotesNext ELSE UNCHANGED voteVars
    /\ IF part = "vesting" THEN VestingNext ELSE UNCHANGED vestingVars
    /\ IF part = "funds" THEN FundsNext ELSE UNCHANGED fundsVars
    /\ IF part = "comments" THEN CommentsNext ELSE UNCHANGED commentVars
    /\ IF part = "accounts" THEN AccountsNext ELSE UNCHANGED recoveryVars
    /\ IF part = "registration" THEN RegistrationNext ELSE UNCHANGED registrationVars

Spec == LedgerInit /\ [][LedgerNext]_ledgerVars
=============================================================================
