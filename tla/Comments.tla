------------------------------- MODULE Comments -------------------------------
(***************************************************************************)
(* Posts and replies, the votes on them, and what the content reward funds *)
(* pay for them when their time has come.                                  *)
(*                                                                         *)
(* A comment keeps sums (its votes, the weight of its curators, the number *)
(* of comments below it) that every operation updates by differences, and  *)
(* the payout divides by them.  Until hardfork 0.3 a comment passes a part *)
(* of its reward up to the comment it replies to.  Time is in blocks.  An  *)
(* edit changes the text only and is left out, and so is the voting power  *)
(* a vote uses (Funds): what it is worth is any of a few amounts.          *)
(***************************************************************************)
EXTENDS Integers, FiniteSets, FiniteSetsExt, Functions, TLC

CONSTANTS Users,
          CommentKeys,     \* names of comments, author and permlink
          Author,          \* name -> its author
          Window,          \* SCORUM_CASHOUT_WINDOW_SECONDS
          Lockout,         \* SCORUM_UPVOTE_LOCKOUT
          AuctionWindow,   \* SCORUM_REVERSE_AUCTION_WINDOW_SECONDS
          RootInterval, ReplyInterval, \* SCORUM_MIN_ROOT_COMMENT_INTERVAL, _REPLY_
          DecayTime,       \* SCORUM_RECENT_RSHARES_DECAY_RATE
          MaxDepth,        \* SCORUM_MAX_COMMENT_DEPTH
          MaxVoteChanges,  \* SCORUM_MAX_VOTE_CHANGES
          MinPayout,       \* SCORUM_MIN_COMMENT_PAYOUT_SHARE
          FullPercent, CurationPercent, ParentPercent, \* SCORUM_100_PERCENT and parts of it
          Unlimited,       \* asset::maximum()
          ContentBalance,  \* what each fund holds at the start
          Weights,         \* bound: weights of votes
          Shares,          \* bound: what a vote of weight 1 is worth
          Replies,         \* bound: pairs of a comment and what it replies to
          Options,         \* bound: what authors set, among it the users a comment
                           \* also pays
          MaxCommentOps, LastCommentBlock   \* bounds

ASSUME CommentsAssumption ==
    /\ Author \in [CommentKeys -> Users]
    /\ {Window, AuctionWindow, DecayTime, FullPercent} \subseteq Nat \ {0}
    /\ {Lockout, RootInterval, ReplyInterval, MaxDepth, MaxVoteChanges, MinPayout,
        Unlimited, ContentBalance, MaxCommentOps, LastCommentBlock} \subseteq Nat
    /\ CurationPercent \in 0..FullPercent /\ ParentPercent \in 0..FullPercent
    /\ Weights \subseteq Int /\ Shares \subseteq Nat \ {0}
    /\ \A o \in Options :
          /\ o.cap \in 0..Unlimited /\ {o.allow_votes, o.allow_curation} \subseteq BOOLEAN
          /\ o.beneficiaries \in [Users -> 0..FullPercent]
          /\ SumFunction(o.beneficiaries) <= FullPercent

Root == "root"                       \* SCORUM_ROOT_POST_PARENT_ACCOUNT
ASSUME RootAssumption == Root \notin CommentKeys

ContentFunds == {"scr", "sp"}        \* content_reward_fund_scr, content_reward_fund_sp
Closed == LastCommentBlock + Window + 1     \* time_point_sec::maximum()
NoBeneficiaries == [u \in Users |-> 0]

VARIABLES comments,      \* name -> comment_object, for the comments there are
          next_comment,  \* id of the next comment
          comment_votes, \* <<id of a comment, voter>> -> comment_vote_object
          statistics,    \* id -> fund -> comment_statistic_object
          content,       \* fund -> balance and recent claims
          earned,        \* fund -> user -> what was paid
          posted,        \* user -> last_root_post and last_post
          last_vote,     \* user -> last_vote_time
          legacy,        \* hardfork 0.3 is still to come
          clearing,      \* the build has CLEAR_VOTES
          commentBlock,  \* head block
          commentOps     \* operations so far (bound)

commentVars == <<comments, next_comment, comment_votes, statistics, content, earned,
                 posted, last_vote, legacy, clearing, commentBlock, commentOps>>

Long == Window + RootInterval + ReplyInterval + 1   \* longer ago than any interval

NoStatistic == [fund |-> 0, total |-> 0, author |-> 0, curators |-> 0, beneficiaries |-> 0,
                from_children |-> 0, to_parent |-> 0]

CommentsInit ==
    /\ comments = << >> /\ next_comment = 1
    /\ comment_votes = << >>
    /\ statistics = << >>
    /\ content = [f \in ContentFunds |-> [balance |-> ContentBalance, claims |-> 0]]
    /\ earned = [f \in ContentFunds |-> [u \in Users |-> 0]]
    /\ posted = [u \in Users |-> [root |-> -Long, any |-> -Long]]
    /\ last_vote = [u \in Users |-> -Long]
    /\ legacy = TRUE
    /\ clearing \in BOOLEAN
    /\ commentBlock = 1
    /\ commentOps = 0

(***************************************************************************)
(* The tree.                                                               *)
(***************************************************************************)
\* The comment n steps above k, Root past the top.
Step(cs, k, n) ==
    LET up[i \in 0..n] ==
            IF i = 0 THEN k ELSE IF up[i - 1] = Root THEN Root ELSE cs[up[i - 1]].parent
    IN  up[n]

Ancestors(cs, k) == {Step(cs, k, n) : n \in 1..MaxDepth + 1} \ {Root}

CountChildren(cs, above, n) ==
    [k \in DOMAIN cs |-> IF k \in above THEN [cs[k] EXCEPT !.children = @ + n] ELSE cs[k]]

comment(k, parent) ==
    LET u == Author[k]
        new == [id |-> next_comment, parent |-> parent,
                depth |-> IF parent = Root THEN 0 ELSE comments[parent].depth + 1,
                children |-> 0, created |-> commentBlock,
                cashout |-> commentBlock + Window, last_payout |-> 0,
                net |-> 0, abs |-> 0, positive |-> 0, net_votes |-> 0, weight |-> 0,
                cap |-> Unlimited, allow_votes |-> TRUE, allow_curation |-> TRUE,
                beneficiaries |-> NoBeneficiaries]
        added == comments @@ (k :> new)
    IN  /\ k \notin DOMAIN comments
        /\ IF parent = Root THEN commentBlock - posted[u].root > RootInterval
           ELSE /\ comments[parent].depth < MaxDepth
                /\ commentBlock - posted[u].any > ReplyInterval
        /\ comments' = CountChildren(added, Ancestors(added, k), 1)
        /\ next_comment' = next_comment + 1
        /\ statistics' = statistics @@ (next_comment :> [f \in ContentFunds |-> NoStatistic])
        /\ posted' = [posted EXCEPT ![u].any = commentBlock,
                                    ![u].root = IF parent = Root THEN commentBlock ELSE @]
        /\ UNCHANGED <<comment_votes, last_vote>>

\* The statistics stay.
delete_comment(k) ==
    LET c == comments[k]
    IN  /\ c.children = 0 /\ c.cashout # Closed /\ c.net <= 0
        /\ comments' = Restrict(CountChildren(comments, Ancestors(comments, k), -1),
                                DOMAIN comments \ {k})
        /\ comment_votes' = Restrict(comment_votes, {v \in DOMAIN comment_votes : v[1] # c.id})
        /\ UNCHANGED <<next_comment, statistics, posted, last_vote>>

comment_options(k, o) ==
    LET c == comments[k]
    IN  /\ (~o.allow_votes \/ ~o.allow_curation \/ o.cap < c.cap) => c.abs = 0
        /\ o.allow_curation => c.allow_curation
        /\ o.allow_votes => c.allow_votes
        /\ o.cap <= c.cap
        /\ o.beneficiaries # NoBeneficiaries =>
              c.beneficiaries = NoBeneficiaries /\ c.abs = 0
        /\ comments' = [comments EXCEPT ![k] = [c EXCEPT
              !.cap = o.cap, !.allow_votes = o.allow_votes, !.allow_curation = o.allow_curation,
              !.beneficiaries = IF o.beneficiaries = NoBeneficiaries THEN @ ELSE o.beneficiaries]]
        /\ UNCHANGED <<next_comment, comment_votes, statistics, posted, last_vote>>

(***************************************************************************)
(* Votes.                                                                  *)
(***************************************************************************)
\* The curve of curation rewards: the square root by the halved exponent and the
\* upper half of the mantissa.
approx_sqrt(x) ==
    IF x = 0 THEN 0
    ELSE LET msb == CHOOSE m \in 0..x : 2^m <= x /\ x < 2^(m + 1)
             z == msb \div 2
             high == IF msb % 2 = 1 THEN 2^z ELSE 0
         IN  2^z + (high + (x - 2^msb) \div 2^(msb - z)) \div 2

Sign(n) == IF n > 0 THEN 1 ELSE IF n < 0 THEN -1 ELSE 0

\* A vote on a comment that was paid: it counts for nothing, and it is recorded unless
\* votes are cleared.
vote_closed(u, k, percent) ==
    LET at == <<comments[k].id, u>>
        old == IF at \in DOMAIN comment_votes THEN comment_votes[at]
               ELSE [rshares |-> 0, weight |-> 0, changes |-> 0, percent |-> 0]
    IN  /\ comments[k].cashout = Closed
        /\ comment_votes' = IF clearing THEN comment_votes
                            ELSE (at :> [old EXCEPT !.percent = percent]) @@ comment_votes
        /\ UNCHANGED <<comments, last_vote>>

\* The weight of a vote that is new, and how much of it curators share: the first
\* votes leave a part of theirs to the author.
MaxVoteWeight(c, rshares) ==
    IF rshares > 0 /\ c.last_payout = 0 /\ c.allow_curation
    THEN approx_sqrt(c.positive + rshares) - approx_sqrt(c.positive) ELSE 0

calculate_vote_weight(max_weight, created) ==
    (max_weight * Min({commentBlock - created, AuctionWindow})) \div AuctionWindow

vote_first(u, k, percent, rshares) ==
    LET c == comments[k]
        weight == MaxVoteWeight(c, rshares)
    IN  /\ <<c.id, u>> \notin DOMAIN comment_votes
        /\ percent # 0
        /\ rshares > 0 => commentBlock < c.cashout - Lockout
        /\ comments' = [comments EXCEPT ![k] = [c EXCEPT
              !.net = @ + rshares, !.abs = @ + Max({rshares, -rshares}),
              !.positive = IF rshares > 0 THEN @ + rshares ELSE @,
              !.net_votes = @ + Sign(rshares), !.weight = @ + weight]]
        /\ comment_votes' = comment_votes @@ (<<c.id, u>> :>
              [rshares |-> rshares, weight |-> calculate_vote_weight(weight, c.created),
               changes |-> 0, percent |-> percent])

\* A mutant: the vote is added to the one it replaces.
ChangedTwice(c, old, rshares) ==
    [c EXCEPT !.net = @ + rshares, !.abs = @ + Max({rshares, -rshares}),
              !.net_votes = @ - Sign(old.rshares) + Sign(rshares), !.weight = @ - old.weight]

\* The comment after a vote was changed.  What the weight of the vote left to the
\* author stays in the sum, and so does its part of the positive shares.
Changed(c, old, rshares) ==
    [c EXCEPT !.net = @ - old.rshares + rshares, !.abs = @ + Max({rshares, -rshares}),
              !.net_votes = @ - Sign(old.rshares) + Sign(rshares), !.weight = @ - old.weight]

ChangedVote(old, percent, rshares) ==
    [old EXCEPT !.rshares = rshares, !.percent = percent, !.weight = 0, !.changes = @ + 1]

vote_again(u, k, percent, rshares) ==
    LET c == comments[k]
        at == <<c.id, u>>
        old == comment_votes[at]
    IN  /\ at \in DOMAIN comment_votes
        /\ old.changes < MaxVoteChanges
        /\ old.percent # percent
        /\ old.rshares < rshares => commentBlock < c.cashout - Lockout
        /\ comments' = [comments EXCEPT ![k] = Changed(c, old, rshares)]
        /\ comment_votes' = [comment_votes EXCEPT ![at] = ChangedVote(old, percent, rshares)]

\* percent is the vote's weight, to which the power it uses is proportional.
vote_comment(u, k, percent, worth) ==
    /\ percent > 0 => comments[k].allow_votes
    /\ \/ vote_closed(u, k, percent)
       \/ /\ comments[k].cashout # Closed
          /\ commentBlock > last_vote[u]
          /\ \/ vote_first(u, k, percent, percent * worth)
             \/ vote_again(u, k, percent, percent * worth)
          /\ last_vote' = [last_vote EXCEPT ![u] = commentBlock]
    /\ UNCHANGED <<next_comment, statistics, posted>>

CommentOperation ==
    \/ \E r \in Replies : r[2] \in DOMAIN comments \cup {Root} /\ comment(r[1], r[2])
    \/ \E k \in DOMAIN comments :
          \/ delete_comment(k)
          \/ \E o \in Options : comment_options(k, o)
          \/ \E u \in Users, percent \in Weights, n \in Shares : vote_comment(u, k, percent, n)

(***************************************************************************)
(* The payout.                                                             *)
(***************************************************************************)
Part(amount, percent) == (amount * percent) \div FullPercent

calculate_decreasing_total_claims(claims) == claims - claims \div DecayTime

calculate_total_claims(claims, paid) == claims + MapThenSumSet(LAMBDA k : comments[k].net, paid)

\* What the fund has for a comment.
calculate_payout(c, balance, total) ==
    LET payout == (balance * c.net) \div total
    IN  Min({IF payout < MinPayout THEN 0 ELSE payout, c.cap})

\* What each voter gets for a comment.
CuratorShare(c, u, reward) ==
    LET at == <<c.id, u>>
    IN  IF ~c.allow_curation \/ c.weight <= 0 \/ at \notin DOMAIN comment_votes THEN 0
        ELSE (Part(reward, CurationPercent) * comment_votes[at].weight) \div c.weight

\* What is left of the fund's reward for the author; where curation is not rewarded its
\* part stays in the fund.
AuthorShare(c, reward) ==
    IF ~c.allow_curation THEN reward - Part(reward, CurationPercent)
    ELSE reward - MapThenSumSet(LAMBDA u : CuratorShare(c, u, reward), Users)

collect_parents(paid) == paid \cup UNION {Ancestors(comments, k) : k \in paid}

\* The rewards that comments pass up, the deepest first: a part of what the comment
\* has from the fund and from the replies to it.
pay_for_comments_legacy(paid, reward) ==
    LET all == collect_parents(paid)
        replies(k) == {j \in all : comments[j].parent = k}
        up[k \in all] ==
            IF comments[k].depth = 0 THEN 0
            ELSE Part(AuthorShare(comments[k], reward[k])
                         + MapThenSumSet(LAMBDA j : up[j], replies(k)), ParentPercent)
    IN  [k \in DOMAIN reward |->
            [from_children |-> IF k \in all THEN MapThenSumSet(LAMBDA j : up[j], replies(k)) ELSE 0,
             to_parent |-> IF k \in all THEN up[k] ELSE 0]]

pay_for_comments(reward) == [k \in DOMAIN reward |-> [from_children |-> 0, to_parent |-> 0]]

\* What one fund does for the comments that are paid: to the statistics, to the users.
Payout(f, claims, paid) ==
    LET balance == content[f].balance
        total == calculate_total_claims(claims, paid)
        reward == [k \in DOMAIN comments |->
            IF k \in paid /\ balance >= 1 THEN calculate_payout(comments[k], balance, total) ELSE 0]
        passed == IF legacy THEN pay_for_comments_legacy(paid, reward) ELSE pay_for_comments(reward)
        gross == [k \in DOMAIN comments |-> AuthorShare(comments[k], reward[k])
                     + passed[k].from_children - passed[k].to_parent]
        curators == [k \in DOMAIN comments |-> [u \in Users |->
                        CuratorShare(comments[k], u, reward[k])]]
        benefits == [k \in DOMAIN comments |-> [u \in Users |->
                        Part(gross[k], comments[k].beneficiaries[u])]]
        given == [k \in DOMAIN comments |->
            [fund |-> reward[k], total |-> gross[k] + SumFunction(curators[k]),
             author |-> gross[k] - SumFunction(benefits[k]),
             curators |-> SumFunction(curators[k]), beneficiaries |-> SumFunction(benefits[k]),
             from_children |-> passed[k].from_children, to_parent |-> passed[k].to_parent]]
        user(u) == MapThenSumSet(LAMBDA k : (IF Author[k] = u THEN given[k].author ELSE 0)
                                            + benefits[k][u] + curators[k][u], DOMAIN comments)
    IN  [claims |-> IF paid # {} /\ balance >= 1 THEN total ELSE claims,
         given |-> given,
         users |-> [u \in Users |-> user(u)],
         total |-> MapThenSumSet(LAMBDA k : given[k].total, DOMAIN comments)]

close_comment_payout(c) ==
    [c EXCEPT !.abs = 0, !.weight = 0, !.cashout = Closed, !.last_payout = commentBlock + 1]

\* The statistics of a comment with one more payout.
Accumulated(stat, given) == [field \in DOMAIN stat |-> stat[field] + given[field]]

process_comments_cashout ==
    LET due == {k \in DOMAIN comments : comments[k].cashout <= commentBlock + 1}
        paid == {k \in due : comments[k].net > 0}
    IN
    \E payout \in {[f \in ContentFunds |->
                      Payout(f, calculate_decreasing_total_claims(content[f].claims), paid)]} :
    LET touched(k) == \E f \in ContentFunds : payout[f].given[k] # NoStatistic
    IN  /\ comments' = [k \in DOMAIN comments |->
              IF k \in due THEN close_comment_payout(comments[k])
              ELSE [comments[k] EXCEPT !.last_payout = IF touched(k) THEN commentBlock + 1 ELSE @]]
        /\ comment_votes' =
              IF clearing THEN Restrict(comment_votes, {v \in DOMAIN comment_votes :
                                           v[1] \notin {comments[k].id : k \in due}})
              ELSE comment_votes
        /\ statistics' = [i \in DOMAIN statistics |-> [f \in ContentFunds |->
              IF \E k \in DOMAIN comments : comments[k].id = i
              THEN Accumulated(statistics[i][f],
                     payout[f].given[CHOOSE k \in DOMAIN comments : comments[k].id = i])
              ELSE statistics[i][f]]]
        /\ content' = [f \in ContentFunds |->
              [claims |-> payout[f].claims,
               balance |-> content[f].balance - payout[f].total]]
        /\ earned' = [f \in ContentFunds |-> [u \in Users |-> earned[f][u] + payout[f].users[u]]]

\* A block, with which hardfork 0.3 may come.
CommentsBlock ==
    /\ commentBlock < LastCommentBlock
    /\ process_comments_cashout
    /\ commentBlock' = commentBlock + 1
    /\ legacy' \in {legacy, FALSE}
    /\ UNCHANGED <<next_comment, posted, last_vote, clearing, commentOps>>

CommentsNext ==
    \/ /\ commentOps < MaxCommentOps /\ commentOps' = commentOps + 1
       /\ CommentOperation
       /\ UNCHANGED <<content, earned, legacy, clearing, commentBlock>>
    \/ CommentsBlock

(***************************************************************************)
(* Properties.                                                             *)
(***************************************************************************)
\* Types.  No sum is taken below zero, and no payout is more than the fund holds.
CommentsTypeOK ==
    /\ \A k \in DOMAIN comments :
          LET c == comments[k]
          IN  {c.children, c.abs, c.positive, c.weight, c.depth} \subseteq Nat
    /\ \A f \in ContentFunds : /\ content[f].balance \in Nat /\ content[f].claims \in Nat
                               /\ earned[f] \in [Users -> Nat]

VotesOn(c) == {v \in DOMAIN comment_votes : v[1] = c.id}

\* However often votes are given and changed, the net shares a comment is paid by are
\* the sum of its votes, and net_votes is how many more are for it than against it;
\* a build that clears votes keeps none of a paid comment, late ones included.
VotesAddUp ==
    \A k \in DOMAIN comments :
        LET c == comments[k]
        IN  IF clearing /\ c.cashout = Closed THEN VotesOn(c) = {}
            ELSE /\ c.net = MapThenSumSet(LAMBDA v : comment_votes[v].rshares, VotesOn(c))
                 /\ c.net_votes = MapThenSumSet(LAMBDA v : Sign(comment_votes[v].rshares),
                                                VotesOn(c))

\* The curators' weights never exceed the sum their claims are divided by, so that
\* pay_curators gives no more than their part and leaves the author the rest.
CurationCovered ==
    \A k \in DOMAIN comments :
        LET c == comments[k]
        IN  c.cashout # Closed =>
               MapThenSumSet(LAMBDA v : comment_votes[v].weight, VotesOn(c)) <= c.weight

\* Every reply finds the comment it replies to, which is paid no later than itself;
\* children counts all comments below, on which delete_comment relies.
TreeSound ==
    \A k \in DOMAIN comments :
        LET c == comments[k]
        IN  /\ c.parent # Root => /\ c.parent \in DOMAIN comments
                                  /\ c.depth = comments[c.parent].depth + 1
                                  /\ \/ comments[c.parent].cashout <= c.cashout
                                     \/ comments[c.parent].cashout = Closed
            /\ c.children = Cardinality({j \in DOMAIN comments : k \in Ancestors(comments, j)})

\* What was paid for a comment (total_payout_value) is what it had from the fund and
\* from its replies less what it sent to its parent, but for the curators' part where
\* curation is not rewarded; and it had from its replies what they sent.  The part of
\* it that author_payout_value counts is not what this is about: pay_for_comment_legacy
\* counts what came from the replies there, and the comment in the object does not.
StatisticsBalance ==
    \A k \in DOMAIN comments, f \in ContentFunds :
        LET stat(j) == statistics[comments[j].id][f]
            s == stat(k)
            kept == s.fund + s.from_children - s.total - s.to_parent
        IN  /\ kept = 0 \/ (~comments[k].allow_curation /\ kept = Part(s.fund, CurationPercent))
            /\ s.curators <= Part(s.fund, CurationPercent)
            /\ s.from_children = MapThenSumSet(LAMBDA j : stat(j).to_parent,
                                   {j \in DOMAIN comments : comments[j].parent = k})

\* What the payout of a comment is computed from agrees with its votes and its place
\* in the tree, and what was paid adds up along the tree.
CommentsSound ==
    CommentsTypeOK /\ VotesAddUp /\ CurationCovered /\ TreeSound /\ StatisticsBalance
=============================================================================
