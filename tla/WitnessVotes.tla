----------------------------- MODULE WitnessVotes -----------------------------
(***************************************************************************)
(* Votes for witnesses: who votes for whom, who lets another account vote  *)
(* for it, and the sums the code keeps instead of adding them up again.    *)
(*                                                                         *)
(* An account gives the weight of its scorumpower, and of the accounts it  *)
(* is the proxy of, to every witness it votes for.  The proxied weight is  *)
(* kept by distance (proxied_vsf_votes), so that it can be moved when an   *)
(* account in the middle of a chain changes its proxy; weight from farther *)
(* away than the array is long does not count.  The operations change the  *)
(* sums by differences only.                                               *)
(***************************************************************************)
EXTENDS Integers, FiniteSets, FiniteSetsExt, Functions

CONSTANTS Voters,         \* accounts
          Candidates,     \* witnesses
          ProxyDepth,     \* SCORUM_MAX_PROXY_RECURSION_DEPTH
          MaxWitnessVotes,\* SCORUM_MAX_ACCOUNT_WITNESS_VOTES
          DeclinePeriod,  \* SCORUM_OWNER_AUTH_RECOVERY_PERIOD, in blocks
          GenesisPower,   \* scorumpower of an account at the start
          ProxyPairs,     \* bound: who may choose whom
          MaxPower,       \* bound: scorumpower of an account
          MaxDeclining,   \* bound: accounts that decline their voting rights
          LastVoteBlock   \* bound: blocks

ASSUME WitnessVotesAssumption ==
    /\ IsFiniteSet(Voters) /\ IsFiniteSet(Candidates)
    /\ ProxyDepth \in Nat \ {0} /\ MaxWitnessVotes \in Nat /\ DeclinePeriod \in Nat
    /\ MaxPower \in Nat /\ GenesisPower \in 0..MaxPower
    /\ ProxyPairs \subseteq Voters \X Voters /\ MaxDeclining \in Nat /\ LastVoteBlock \in Nat

Self == "self"   \* SCORUM_PROXY_TO_SELF_ACCOUNT, not the name of an account
ASSUME SelfAssumption == Self \notin Voters

VARIABLES power,      \* account -> scorumpower
          proxy,      \* account -> account or Self
          proxied,    \* account -> distance -> weight, proxied_vsf_votes
          voted,      \* account -> witnesses, witness_vote_object
          votes,      \* witness -> votes, the sum it is ranked by
          can_vote,   \* account -> BOOLEAN
          declining,  \* account -> block its request takes effect, 0 for none
          voteBlock   \* head block

voteVars == <<power, proxy, proxied, voted, votes, can_vote, declining, voteBlock>>

Distance == 0..ProxyDepth - 1

\* The part of the state that the adjustments read and change.
Tally == [power |-> power, proxy |-> proxy, proxied |-> proxied, voted |-> voted,
          votes |-> votes]

\* The account n steps up the chain of proxies, Self past its end.
Above(t, a, n) ==
    LET up[k \in 0..n] ==
            IF k = 0 THEN a ELSE IF up[k - 1] = Self THEN Self ELSE t.proxy[up[k - 1]]
    IN  up[n]

\* The number of steps to the account that votes, at the end of the chain.
ChainLength(t, a) ==
    Cardinality({n \in 1..Cardinality(Voters) : Above(t, a, n) # Self})

witness_vote_weight(t, a) == t.power[a] + SumFunction(t.proxied[a])

(***************************************************************************)
(* adjust_proxied_witness_votes: delta[i] is the weight that comes from i  *)
(* steps below the account.  It reaches the account n steps up under the   *)
(* distance i + n - 1, as long as the array goes, and the witnesses of the *)
(* account at the end of the chain.                                        *)
(***************************************************************************)
\* A mutant: the weight is not moved to the next distance on the way up.
ProxiedAfterUnmoved(t, a, delta) ==
    [p \in Voters |-> [d \in Distance |->
        t.proxied[p][d] + SumFunction([n \in 1..ProxyDepth |->
            IF Above(t, a, n) = p THEN delta[d] ELSE 0])]]

ProxiedAfter(t, a, delta) ==
    [p \in Voters |-> [d \in Distance |->
        t.proxied[p][d] + SumFunction([n \in 1..ProxyDepth |->
            IF Above(t, a, n) = p /\ d >= n - 1 THEN delta[d - (n - 1)] ELSE 0])]]

VotesAfter(t, a, delta) ==
    LET n == ChainLength(t, a)
    IN  [w \in Candidates |->
            IF n <= ProxyDepth /\ w \in t.voted[Above(t, a, n)]
            THEN t.votes[w] + SumFunction([i \in 0..ProxyDepth - n |-> delta[i]])
            ELSE t.votes[w]]

adjust_proxied_witness_votes(t, a, delta) ==
    [t EXCEPT !.proxied = ProxiedAfter(t, a, delta), !.votes = VotesAfter(t, a, delta)]

\* All the weight an account passes on, times 1 or -1.
Weight(t, a, sign) ==
    [i \in 0..ProxyDepth |-> sign * (IF i = 0 THEN t.power[a] ELSE t.proxied[a][i - 1])]

\* The weight of one change of the account's own scorumpower.
OwnWeight(amount) == [i \in 0..ProxyDepth |-> IF i = 0 THEN amount ELSE 0]

(***************************************************************************)
(* Operations.                                                             *)
(***************************************************************************)
WitnessVotesInit ==
    /\ power = [a \in Voters |-> GenesisPower]
    /\ proxy = [a \in Voters |-> Self]
    /\ proxied = [a \in Voters |-> [d \in Distance |-> 0]]
    /\ voted = [a \in Voters |-> {}]
    /\ votes = [w \in Candidates |-> 0]
    /\ can_vote = [a \in Voters |-> TRUE]
    /\ declining = [a \in Voters |-> 0]
    /\ voteBlock = 1

Becomes(t) ==
    /\ power' = t.power
    /\ proxy' = t.proxy
    /\ proxied' = t.proxied
    /\ voted' = t.voted
    /\ votes' = t.votes

account_witness_vote(a, w, approve) ==
    /\ proxy[a] = Self
    /\ approve = (w \notin voted[a])
    /\ approve => can_vote[a] /\ Cardinality(voted[a]) < MaxWitnessVotes
    /\ votes' = [votes EXCEPT ![w] = IF approve
                                     THEN @ + witness_vote_weight(Tally, a)
                                     ELSE @ - witness_vote_weight(Tally, a)]
    /\ voted' = [voted EXCEPT ![a] = IF approve THEN @ \cup {w} ELSE @ \ {w}]
    /\ UNCHANGED <<power, proxy, proxied, can_vote, declining, voteBlock>>

\* The chain above the new proxy does not lead back and is not too long.
NoLoop(t, a, p) ==
    /\ \A n \in 1..Cardinality(Voters) : Above(t, p, n) # a
    /\ ChainLength(t, p) = 0 \/ ChainLength(t, p) + 2 <= ProxyDepth

\* The votes of the account itself are cleared with the new proxy, or stay none.
ProxySet(t, a, p) ==
    [t EXCEPT !.proxy[a] = p, !.voted[a] = IF p = Self THEN @ ELSE {}]

update_voting_proxy(a, p) ==
    LET without == adjust_proxied_witness_votes(Tally, a, Weight(Tally, a, -1))
        set     == ProxySet(without, a, p)
    IN  IF p = Self THEN Becomes(set)
        ELSE /\ NoLoop(Tally, a, p)
             /\ Becomes(adjust_proxied_witness_votes(set, a, Weight(Tally, a, 1)))

account_witness_proxy(a, p) ==
    /\ p # a /\ proxy[a] # p
    /\ can_vote[a]
    /\ update_voting_proxy(a, p)
    /\ UNCHANGED <<can_vote, declining, voteBlock>>

increase_scorumpower(a, amount) ==
    /\ power[a] + amount \in 0..MaxPower
    /\ Becomes(adjust_proxied_witness_votes([Tally EXCEPT !.power[a] = @ + amount],
                                            a, OwnWeight(amount)))
    /\ UNCHANGED <<can_vote, declining, voteBlock>>

decline_voting_rights(a, decline) ==
    /\ decline = (declining[a] = 0)
    /\ decline => Cardinality({b \in Voters : declining[b] # 0 \/ ~can_vote[b]})
                     < MaxDeclining
    /\ declining' = [declining EXCEPT ![a] =
                        IF decline THEN voteBlock + DeclinePeriod ELSE 0]
    /\ UNCHANGED <<power, proxy, proxied, voted, votes, can_vote, voteBlock>>

DeclineOne(t, a) ==
    LET without == adjust_proxied_witness_votes(t, a, Weight(t, a, -1))
    IN  [without EXCEPT !.voted[a] = {}, !.proxy[a] = Self]

\* The requests that take effect with the new block.  They are taken in the order
\* of their blocks; the sums after the last one do not depend on the order.
process_decline_voting_rights ==
    LET due == {a \in Voters : declining[a] # 0 /\ declining[a] <= voteBlock + 1}
    IN  /\ voteBlock < LastVoteBlock
        /\ voteBlock' = voteBlock + 1
        /\ Becomes(FoldSet(LAMBDA a, t : DeclineOne(t, a), Tally, due))
        /\ can_vote' = [a \in Voters |-> can_vote[a] /\ a \notin due]
        /\ declining' = [a \in Voters |-> IF a \in due THEN 0 ELSE declining[a]]

WitnessVotesNext ==
    \/ \E a \in Voters, w \in Candidates, approve \in BOOLEAN :
          account_witness_vote(a, w, approve)
    \/ \E pair \in ProxyPairs : account_witness_proxy(pair[1], pair[2])
    \/ \E a \in Voters : account_witness_proxy(a, Self)
    \/ \E a \in Voters, amount \in {-1, 1} : increase_scorumpower(a, amount)
    \/ \E a \in Voters, decline \in BOOLEAN : decline_voting_rights(a, decline)
    \/ process_decline_voting_rights

WitnessVotesSpec == WitnessVotesInit /\ [][WitnessVotesNext]_voteVars

(***************************************************************************)
(* Properties.                                                             *)
(***************************************************************************)
\* Types.
WitnessVotesTypeOK ==
    /\ power \in [Voters -> 0..MaxPower]
    /\ proxy \in [Voters -> Voters \cup {Self}]
    /\ proxied \in [Voters -> [Distance -> Nat]]
    /\ voted \in [Voters -> SUBSET Candidates]
    /\ votes \in [Candidates -> Nat]
    /\ can_vote \in [Voters -> BOOLEAN]
    /\ declining \in [Voters -> Nat]

\* The chains of proxies end: no sequence of operations closes one.
ProxiesEnd == \A a \in Voters : Above(Tally, a, Cardinality(Voters)) = Self

\* Every entry of proxied_vsf_votes is the scorumpower of the accounts at its
\* distance, however the chain was put together.
ProxiedIsSum ==
    \A p \in Voters, d \in Distance :
        proxied[p][d] = SumFunctionOnSet(power, {a \in Voters : Above(Tally, a, d + 1) = p})

\* The votes of a witness are the weight of those who vote for it.
VotesAreSum ==
    \A w \in Candidates :
        votes[w] = SumFunctionOnSet([a \in Voters |-> witness_vote_weight(Tally, a)],
                                    {a \in Voters : w \in voted[a]})

\* adjust_witness_vote asserts that a witness has no more votes than there is
\* scorumpower: no scorumpower counts twice.
PowerCountsOnce == \A w \in Candidates : votes[w] <= SumFunction(power)

\* Votes, proxies and declined rights keep the tallies of account.cpp and witness.cpp,
\* which are only ever adjusted by differences, equal to the sums they stand for.
VotesCounted ==
    WitnessVotesTypeOK /\ ProxiesEnd /\ ProxiedIsSum /\ VotesAreSum /\ PowerCountsOnce
=============================================================================
