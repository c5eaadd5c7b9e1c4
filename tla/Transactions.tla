---------------------------- MODULE Transactions ----------------------------
(***************************************************************************)
(* Transactions on their way into the chain: a client hands them to the    *)
(* API (app/api.cpp), peers send them, the database keeps those pending    *)
(* that apply, blocks made here or elsewhere take them in, and the API     *)
(* tells the client what became of them, from a task of its own.           *)
(*                                                                         *)
(* A block is one step here, and there are no forks: ChainDatabase has     *)
(* both.  Signatures are in Authorities.                                   *)
(***************************************************************************)
EXTENDS Naturals, Sequences, FiniteSets, FiniteSetsExt, SequencesExt

CONSTANTS Trxs,            \* the transactions
          Expiration,        \* for each when it expires,
          TrxSize,           \* its size,
          Author,            \* the account that needs bandwidth for it,
          Spends,            \* and what it uses up, so that no other can
          MaxUntilExpiration,\* SCORUM_MAX_TIME_UNTIL_EXPIRATION
          BlockSizeLimit,    \* maximum_block_size of the median witness
          HeaderEstimate,    \* what _generate_block allows for the header
          HeaderSize,        \* what the header takes
          BandwidthWindow,   \* SCORUM_BANDWIDTH_AVERAGE_WINDOW_SECONDS
          Bandwidth,         \* the average below which an account may go on
          Gaps,              \* seconds between one block and the next
          MaxForeign,        \* bound: transactions in a block of another witness
          LastTrxTime        \* bound: the time of the last block

ASSUME TransactionsAssumption ==
    /\ Expiration \in [Trxs -> Nat] /\ TrxSize \in [Trxs -> Nat \ {0}]
    /\ Gaps \subseteq Nat \ {0} /\ BandwidthWindow \in Nat \ {0} /\ MaxForeign \in Nat
    /\ {BlockSizeLimit, HeaderEstimate, HeaderSize, Bandwidth, MaxUntilExpiration} \subseteq Nat

VARIABLES trx_blocks,    \* the blocks of the chain: their time and transactions
          ledger,          \* what applying them left
          pending,         \* _pending_tx
          callbacks,       \* _callbacks: the client's function or an empty one
          expirations,     \* _callbacks_expirations
          tasks,           \* blocks whose task in on_applied_block has not run yet
          answers,         \* history: what a client was told,
          accepted,        \* whose call did not throw,
          failed           \* and whether generate_block did

trxVars == <<trx_blocks, ledger, pending, callbacks, expirations, tasks, answers, accepted, failed>>

Authors == {Author[t] : t \in Trxs}
HeadTime == Last(trx_blocks).time

(***************************************************************************)
(* _apply_transaction.                                                     *)
(***************************************************************************)
\* The average after a transaction of this size, as the time since decays it.
new_bandwidth(band, now, size) ==
    LET delta == now - band.last
    IN  size + IF delta > BandwidthWindow THEN 0
               ELSE ((BandwidthWindow - delta) * band.average) \div BandwidthWindow

update_account_bandwidth(s, t, now) ==
    [s EXCEPT !.band[Author[t]] =
        [average |-> new_bandwidth(@, now, TrxSize[t]), last |-> now]]

\* Bandwidth is a limit only for who hands a transaction in.
Applies(s, t, now, producing) ==
    /\ t \notin s.known
    /\ Expiration[t] <= now + MaxUntilExpiration
    /\ now < Expiration[t]
    /\ producing => update_account_bandwidth(s, t, now).band[Author[t]].average < Bandwidth
    /\ Spends[t] \notin s.spent

_apply_transaction(s, t, now) ==
    [update_account_bandwidth(s, t, now) EXCEPT !.known = @ \cup {t}, !.spent = @ \cup {Spends[t]}]

\* r has what was taken in so far and what it left.
TakeIn(r, t, now) ==
    [s |-> _apply_transaction(r.s, t, now), txs |-> Append(r.txs, t)]

TryOne(r, t, now) == IF Applies(r.s, t, now, FALSE) THEN TakeIn(r, t, now) ELSE r

\* Those of a sequence that apply one after the other, and what they leave.
Pushed(s, txs, now) ==
    LET after[n \in 0..Len(txs)] ==
            IF n = 0 THEN [s |-> s, txs |-> <<>>] ELSE TryOne(after[n - 1], txs[n], now)
    IN  after[Len(txs)]

PendingState == Pushed(ledger, pending, HeadTime).s

(***************************************************************************)
(* push_transaction, from the API or a peer.                               *)
(***************************************************************************)
CanPush(t) ==
    /\ TrxSize[t] + HeaderSize <= BlockSizeLimit
    /\ Applies(PendingState, t, HeadTime, TRUE)

\* The callback replaces an earlier one for the same transaction, and is kept even if
\* the transaction is refused.
broadcast_transaction_with_callback(t) ==
    /\ callbacks' = [callbacks EXCEPT ![t] = "client"]
    /\ expirations' = expirations \cup {t}
    /\ IF CanPush(t) THEN pending' = Append(pending, t) /\ accepted' = accepted \cup {t}
       ELSE UNCHANGED <<pending, accepted>>
    /\ UNCHANGED <<trx_blocks, ledger, tasks, answers, failed>>

\* broadcast_transaction, and handle_transaction for a peer.
push_transaction(t) ==
    /\ CanPush(t)
    /\ pending' = Append(pending, t)
    /\ UNCHANGED <<trx_blocks, ledger, callbacks, expirations, tasks, answers, accepted, failed>>

(***************************************************************************)
(* Blocks.                                                                 *)
(***************************************************************************)
clear_expired_transactions(s, now) ==
    [s EXCEPT !.known = {t \in @ : Expiration[t] >= now}]

\* Transactions are applied at the time of the block before; then the block's own time
\* counts, known transactions that have expired are forgotten, and what was pending is
\* pushed again.
push_block(b) ==
    LET after == clear_expired_transactions(Pushed(ledger, b.txs, HeadTime).s, b.time)
    IN  /\ trx_blocks' = Append(trx_blocks, b)
        /\ ledger' = after
        /\ pending' = Pushed(after, pending, b.time).txs
        /\ tasks' = Append(tasks, b)
        /\ UNCHANGED <<callbacks, expirations, answers, accepted, failed>>

Sizes(txs) == FoldLeft(LAMBDA n, t : n + TrxSize[t], 0, txs)

\* The transactions a block made at this time takes in: those that have not expired,
\* that still fit and that apply.
ChooseOne(r, t, when) ==
    IF Expiration[t] >= when /\ HeaderEstimate + Sizes(r.txs) + TrxSize[t] < BlockSizeLimit
    THEN TryOne(r, t, HeadTime) ELSE r

Chosen(when) ==
    LET after[n \in 0..Len(pending)] ==
            IF n = 0 THEN [s |-> ledger, txs |-> <<>>] ELSE ChooseOne(after[n - 1], pending[n], when)
    IN  after[Len(pending)].txs

\* A block that is too big is refused by our own push_block.
generate_block(when) ==
    LET b == [time |-> when, txs |-> Chosen(when)]
    IN  IF HeaderSize + Sizes(b.txs) <= BlockSizeLimit THEN push_block(b)
        ELSE /\ failed' = TRUE
             /\ UNCHANGED <<trx_blocks, ledger, pending, callbacks, expirations, tasks, answers, accepted>>

\* A block of another witness: what it takes in applies, in whatever order.
handle_block(b) ==
    /\ HeaderSize + Sizes(b.txs) <= BlockSizeLimit
    /\ Pushed(ledger, b.txs, HeadTime).txs = b.txs
    /\ push_block(b)

(***************************************************************************)
(* on_applied_block: the task that answers clients.                        *)
(***************************************************************************)
Confirmed(b) == [time |-> b.time, expired |-> FALSE]
Expired(b) == [time |-> b.time, expired |-> TRUE]

\* A mutant: callbacks are called for expired transactions first.
on_applied_block_expired_first ==
    LET b == Head(tasks)
        old == {t \in expirations : Expiration[t] < b.time}
        taken == {t \in Range(b.txs) : callbacks[t] # "none"} \ old
    IN  /\ tasks # <<>>
        /\ tasks' = Tail(tasks)
        /\ callbacks' = [t \in Trxs |-> IF t \in old THEN "none"
                                        ELSE IF t \in taken THEN "empty" ELSE callbacks[t]]
        /\ expirations' = expirations \ old
        /\ answers' = [t \in Trxs |->
              IF callbacks[t] = "client" /\ t \in old THEN Append(answers[t], Expired(b))
              ELSE IF callbacks[t] = "client" /\ t \in taken THEN Append(answers[t], Confirmed(b))
              ELSE answers[t]]
        /\ UNCHANGED <<trx_blocks, ledger, pending, accepted, failed>>

\* First the transactions of the block, whose callbacks are emptied but kept; then the
\* callbacks of those that have expired are called and removed.
on_applied_block ==
    LET b == Head(tasks)
        taken == {t \in Range(b.txs) : callbacks[t] # "none"}
        old == {t \in expirations : Expiration[t] < b.time}
        told == {t \in taken : callbacks[t] = "client"}
        missed == {t \in old \ taken : callbacks[t] = "client"}
    IN  /\ tasks # <<>>
        /\ tasks' = Tail(tasks)
        /\ callbacks' = [t \in Trxs |-> IF t \in old THEN "none"
                                        ELSE IF t \in taken THEN "empty" ELSE callbacks[t]]
        /\ expirations' = expirations \ old
        /\ answers' = [t \in Trxs |-> IF t \in told THEN Append(answers[t], Confirmed(b))
                                      ELSE IF t \in missed THEN Append(answers[t], Expired(b))
                                      ELSE answers[t]]
        /\ UNCHANGED <<trx_blocks, ledger, pending, accepted, failed>>

NextTimes == {HeadTime + g : g \in Gaps} \cap (0..LastTrxTime)

TransactionsInit ==
    /\ trx_blocks = <<[time |-> 1, txs |-> <<>>]>>
    /\ ledger = [known |-> {}, spent |-> {},
                 band |-> [a \in Authors |-> [average |-> 0, last |-> 0]]]
    /\ pending = <<>> /\ tasks = <<>> /\ failed = FALSE /\ accepted = {}
    /\ callbacks = [t \in Trxs |-> "none"] /\ expirations = {}
    /\ answers = [t \in Trxs |-> <<>>]

\* A client hands a transaction in once, before the last block; a peer may send it too.
TransactionsNext ==
    \/ \E t \in Trxs :
          \/ callbacks[t] = "none" /\ answers[t] = <<>> /\ NextTimes # {}
             /\ broadcast_transaction_with_callback(t)
          \/ push_transaction(t)
    \/ on_applied_block
    \/ \E when \in NextTimes : generate_block(when)
    \/ \E when \in NextTimes, n \in 0..MaxForeign : \E txs \in [1..n -> Trxs] :
          handle_block([time |-> when, txs |-> txs])

TransactionsSpec == TransactionsInit /\ [][TransactionsNext]_trxVars

\* Other witnesses make blocks, if only empty ones, and the tasks started for them run.
TransactionsFairness ==
    /\ WF_trxVars(on_applied_block)
    /\ WF_trxVars(\E when \in NextTimes : handle_block([time |-> when, txs |-> <<>>]))

(***************************************************************************)
(* Properties.                                                             *)
(***************************************************************************)
InChain == UNION {Range(trx_blocks[i].txs) : i \in DOMAIN trx_blocks}

\* No transaction is applied twice although known ones are forgotten: those forgotten
\* have expired by then at every block that may still take them in.
AppliedOnce ==
    \A i, j \in DOMAIN trx_blocks : \A k \in DOMAIN trx_blocks[i].txs, l \in DOMAIN trx_blocks[j].txs :
        trx_blocks[i].txs[k] = trx_blocks[j].txs[l] => i = j /\ k = l

\* What is pending applies on top of the chain, all of it and in its order.
PendingApplies == Pushed(ledger, pending, HeadTime).txs = pending

\* A client is told once; that its transaction is in a block if it is, even where the
\* block is later than its expiration, and, if its call was accepted, that it expired
\* only if it never will be.
AnsweredRightly ==
    \A t \in Trxs :
        /\ Len(answers[t]) <= 1
        /\ answers[t] # <<>> =>
              IF answers[t][1].expired THEN t \in accepted => t \notin InChain
              ELSE \E b \in Range(trx_blocks) : t \in Range(b.txs) /\ b.time = answers[t][1].time

\* What was accepted stays pending until it is in the chain, has expired, or another
\* transaction used up what it needs; bandwidth does not count again
\* (pending_transactions_restorer).
PendingStays ==
    [][\A t \in Range(pending) \ Range(pending') :
          t \in ledger'.known \/ Expiration[t] <= Last(trx_blocks').time
            \/ Spends[t] \in ledger'.spent \/ t \in InChain']_trxVars

\* A transaction is applied once or never, waits as long as it can, and its client is
\* told which.
TransactionsSound == [](AppliedOnce /\ PendingApplies /\ AnsweredRightly) /\ PendingStays

\* A client that asked is answered, as long as blocks are made.
ClientsAnswered == []<>(\A t \in Trxs : callbacks[t] = "client" => answers[t] # <<>>)

\* "postpone transaction if it would make block too big": a block made here is never
\* refused for its size.
BlocksFit == ~failed
=============================================================================
