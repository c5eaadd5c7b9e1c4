------------------------------ MODULE BlockSync ------------------------------
(***************************************************************************)
(* How a node catches up with its peers (libraries/net/node.cpp) and how   *)
(* it goes on from there: it asks each peer for the ids of the blocks that *)
(* follow its own, fetches the blocks from whichever peer is idle, hands   *)
(* them to the chain in order, and fetches new blocks that peers advertise *)
(* once it is in sync.                                                     *)
(*                                                                         *)
(* The peers run the same code.  All chains are prefixes of one chain, so  *)
(* a block is its number and a chain its length.  A call to the delegate   *)
(* that pushes a block or builds a synopsis is queued for the chain's      *)
(* thread, and the fiber that made it goes on when its turn has come:      *)
(* these are the places where other fibers run in between.  Every handler  *)
(* is one step up to such a call and one step from there.                  *)
(***************************************************************************)
EXTENDS Integers, Sequences, FiniteSets, SequencesExt

CONSTANTS
    Peers,            \* the nodes we may be connected to
    Seeds,            \* those we keep connecting to
    LastBlockNum,     \* the chains grow to this block
    Starts,           \* how it begins: our head, the peers' heads, the connections
                      \* the network breaks, the peers that never send a block
    UndoDepth,        \* how far behind its head a node can still undo
    IdLimit,          \* ids in one answer
    MinIdsToPrefetch, \* GRAPHENE_NET_MIN_BLOCK_IDS_TO_PREFETCH
    MaxBlocksPerPeer, \* _maximum_blocks_per_peer_during_syncing
    MaxHandled,       \* _maximum_number_of_blocks_to_handle_at_one_time
    MaxPrefetched,    \* _maximum_number_of_sync_blocks_to_prefetch
    RecentlyAccepted  \* size of _most_recent_blocks_accepted

ASSUME BlockSyncAssumption ==
    /\ Seeds \subseteq Peers
    /\ {LastBlockNum, UndoDepth, MaxPrefetched} \subseteq Nat
    /\ {IdLimit, MinIdsToPrefetch, MaxBlocksPerPeer, MaxHandled, RecentlyAccepted} \subseteq Nat \ {0}
    /\ IdLimit > 1
    /\ Starts \subseteq [head : 0..LastBlockNum, chain : [Peers -> 0..LastBlockNum],
                         breaks : Nat, silent : SUBSET Peers]

VARIABLES
    head_num,         \* number of our head block
    chain,            \* chain[p]: number of p's head block
    behind,           \* behind[p]: p thinks that we need items from it
    peer,             \* our peer_connection objects
    inbox, outbox,    \* messages under way from and to each peer
    calls,            \* calls the chain's thread has not come to
    active_sync_requests, received, new_received,
    backlog,          \* process_backlog_of_sync_blocks: "ready", "scheduled" or "waiting"
    fetch_sync, fetch_items,    \* the fetching loops are to run again
    suspended,        \* _suspend_fetching_sync_blocks
    accepted,         \* _most_recent_blocks_accepted
    being_processed,  \* _message_ids_currently_being_processed
    items_to_fetch, new_inventory,
    breaks,           \* connections that are still to break
    silent            \* peers that answer no request for blocks

syncVars == <<head_num, chain, behind, peer, inbox, outbox, calls,
              active_sync_requests, received, new_received, backlog, fetch_sync, fetch_items,
              suspended, accepted, being_processed, items_to_fetch, new_inventory, breaks, silent>>

netVars == <<chain, behind, breaks, silent>>
chainVars == <<head_num, being_processed, accepted>>
backlogVars == <<received, new_received, backlog, suspended>>
normalVars == <<fetch_items, items_to_fetch, new_inventory>>

Blocks == 1..LastBlockNum

(* A peer_connection as it is when the connection is made.                 *)
NewConnection ==
    [conn |-> "active", to_get |-> <<>>, unfetched |-> 0, processing |-> {}, need |-> TRUE,
     needs_from_us |-> TRUE, last |-> 0, ids_requested |-> <<>>, requested |-> {},
     normal |-> {}, advertised |-> {}, told |-> {}]

Active(ps) == {p \in Peers : ps[p].conn = "active"}

idle(c) == c.normal = {} /\ c.requested = {} /\ c.ids_requested = <<>>

Smaller(a, b) == IF a < b THEN a ELSE b
Larger(a, b) == IF a > b THEN a ELSE b

(***************************************************************************)
(* Synopses and lists of ids.                                              *)
(***************************************************************************)

(* low, then ever smaller steps towards true_high, up to high.             *)
RECURSIVE Halving(_, _, _)
Halving(low, high, true_high) ==
    LET next == low + (true_high - low + 2) \div 2
    IN  <<low>> \o IF next <= high THEN Halving(next, high, true_high) ELSE <<>>

last_non_undoable_block_num(h) == Larger(h - UndoDepth, 0)

(* A summary of our chain up to block ref (0: all of it), spaced as if     *)
(* "after" more blocks followed.                                           *)
get_blockchain_synopsis(h, ref, after) ==
    LET high == IF ref = 0 THEN h ELSE ref
        low == Smaller(last_non_undoable_block_num(h), high)
    IN  IF high = 0 THEN <<>> ELSE Halving(Larger(low, 1), high, high + after)

(* The summary a peer gets: our chain and the ids it already gave us.      *)
create_blockchain_synopsis_for_peer(h, ref, ids) ==
    LET ours == get_blockchain_synopsis(h, ref, Len(ids))
        low == IF ours = <<>> THEN 1 ELSE ours[1]
        theirs == Halving(low, ids[Len(ids)], ids[Len(ids)])
    IN  IF ids = <<>> THEN ours ELSE ours \o SelectSeq(theirs, LAMBDA n : n >= ids[1])

(* The ids a node with c blocks answers a synopsis with: from the last one *)
(* it knows, at most IdLimit; and how many more it has.                    *)
get_block_ids(c, synopsis) ==
    LET known == {i \in DOMAIN synopsis : synopsis[i] <= c}
        first == IF synopsis = <<>> THEN 1
                 ELSE synopsis[CHOOSE i \in known : \A j \in known : j <= i]
        size == Smaller(IdLimit, c - first + 1)
    IN  IF c = 0 \/ (synopsis # <<>> /\ known = {})
        THEN [type |-> "ids", ids |-> <<>>, remaining |-> 0]
        ELSE [type |-> "ids", ids |-> [i \in 1..size |-> first + i - 1],
              remaining |-> c - (first + size - 1)]

(* Whether the one who sent the synopsis lacks something of this answer.   *)
NeedsItems(synopsis, reply) ==
    /\ reply.ids # <<>>
    /\ ~(synopsis # <<>> /\ Len(reply.ids) = 1 /\ Contains(synopsis, reply.ids[1]))

(***************************************************************************)
(* What several handlers do.                                               *)
(***************************************************************************)

(* A call for a synopsis for p, made with p's list and reference point as  *)
(* they are (fetch_next_batch_of_item_ids_from_peer): "by" is the fiber    *)
(* that waits, which goes on after its last one.                           *)
Synopsis(p, c, by, last) ==
    [job |-> "synopsis", peer |-> p, ref |-> c.last, ids |-> c.to_get, by |-> by, last |-> last]

Push(n, by) == [job |-> "push", block |-> n, by |-> by]

(* The calls one fiber makes for several peers.  The code makes the next   *)
(* when the last has returned; here they wait in the queue of the chain's  *)
(* thread together.                                                        *)
SynopsesFor(ps, set, by) ==
    LET order == SetToSeq(set)
    IN  [i \in DOMAIN order |-> Synopsis(order[i], ps[order[i]], by, i = Len(order))]

(* start_synchronizing_with_peer, up to the same call.                     *)
start_synchronizing_with_peer(c) ==
    [c EXCEPT !.to_get = <<>>, !.unfetched = 0, !.need = TRUE, !.last = 0]

disconnect_from_peer(c) == [c EXCEPT !.conn = "closing"]

push_recent(s, n) ==
    LET t == Append(s, n) IN IF Len(t) > RecentlyAccepted THEN Tail(t) ELSE t

(* _handle_message_calls_in_progress.                                      *)
SyncCalls == SelectSeq(calls, LAMBDA c : c.by = "sync" /\ (c.job = "push" \/ c.last))

(* The fiber that reads p's messages is not inside a handler.              *)
ReaderFree(p) == \A i \in DOMAIN calls : calls[i].by # p

trigger_process_backlog == IF backlog = "ready" THEN "scheduled" ELSE backlog

(* The next message of p, taken from the wire.                             *)
Receive(p, type) ==
    /\ peer[p].conn \in {"active", "closing"}
    /\ ReaderFree(p)
    /\ inbox[p] # <<>>
    /\ Head(inbox[p]).type = type
    /\ inbox' = [inbox EXCEPT ![p] = Tail(@)]

(***************************************************************************)
(* Asking for ids.                                                         *)
(***************************************************************************)

(* The rest of fetch_next_batch_of_item_ids_from_peer: the synopsis is of  *)
(* the chain as it is now, with the reference and the ids of before.       *)
fetch_next_batch_of_item_ids_from_peer ==
    /\ calls # <<>>
    /\ Head(calls).job = "synopsis"
    /\ LET c == Head(calls)
           synopsis == create_blockchain_synopsis_for_peer(head_num, c.ref, c.ids)
       IN  /\ peer' = IF c.peer \in Peers THEN [peer EXCEPT ![c.peer].ids_requested = <<synopsis>>] ELSE peer
           /\ outbox' = IF c.peer \in Peers
                        THEN [outbox EXCEPT ![c.peer] = Append(@, [type |-> "fetch_ids", synopsis |-> synopsis])]
                        ELSE outbox
           /\ backlog' = CASE c.by = "sync" /\ c.last -> trigger_process_backlog
                           [] c.by = "backlog" /\ c.last -> "ready"
                           [] OTHER -> backlog
           /\ fetch_sync' = (fetch_sync \/ (c.by = "backlog" /\ c.last /\ ~suspended))
    /\ calls' = Tail(calls)
    /\ UNCHANGED <<netVars, chainVars, received, new_received, suspended, normalVars, inbox, active_sync_requests>>

(* The peer answers, and remembers whether we lack something.              *)
PeerAnswersIds(p) ==
    /\ outbox[p] # <<>>
    /\ Head(outbox[p]).type = "fetch_ids"
    /\ LET synopsis == Head(outbox[p]).synopsis
           reply == get_block_ids(chain[p], synopsis)
       IN  /\ behind' = [behind EXCEPT ![p] = NeedsItems(synopsis, reply)]
           /\ inbox' = [inbox EXCEPT ![p] = Append(@, reply)]
    /\ outbox' = [outbox EXCEPT ![p] = Tail(@)]
    /\ UNCHANGED <<chain, breaks, silent, peer, calls, chainVars, backlogVars, normalVars,
                   active_sync_requests, fetch_sync>>

(* A message whose handler first asks the chain something: the reader      *)
(* waits for the answer.                                                   *)
Wait(p, m) == [job |-> m.type, message |-> m, by |-> p, last |-> TRUE]

(* A peer asks us for ids.                                                 *)
ReceiveAsk(p) ==
    /\ Receive(p, "ask")
    /\ calls' = Append(calls, Wait(p, Head(inbox[p])))
    /\ UNCHANGED <<netVars, chainVars, backlogVars, normalVars, peer, outbox, active_sync_requests, fetch_sync>>

(* We learn whether it needs something from us, and start again with it if *)
(* it has a block we lack.                                                 *)
on_fetch_blockchain_item_ids_message(p) ==
    /\ calls # <<>>
    /\ Head(calls).job = "ask"
    /\ Head(calls).by = p
    /\ LET synopsis == Head(calls).message.synopsis
           told == [peer[p] EXCEPT !.needs_from_us = NeedsItems(synopsis, get_block_ids(head_num, synopsis))]
           restart == ~told.need /\ synopsis # <<>> /\ Last(synopsis) > head_num
           c == IF restart THEN start_synchronizing_with_peer(told) ELSE told
       IN  /\ peer' = [peer EXCEPT ![p] = c]
           /\ calls' = Tail(calls) \o IF restart THEN <<Synopsis(p, c, p, TRUE)>> ELSE <<>>
    /\ UNCHANGED <<netVars, chainVars, backlogVars, normalVars, inbox, outbox, active_sync_requests, fetch_sync>>

(* The ids that are left once those we have are taken off the front.       *)
FlushKnown(ids) == SelectSeq(ids, LAMBDA n : n > head_num)

IsFirstForOther(p, n) ==
    \E q \in Active(peer) \ {p} : peer[q].to_get # <<>> /\ Head(peer[q].to_get) = n

(* c with the ids of an answer added to its list.                          *)
Extended(p, c, ids) ==
    LET common == {i \in DOMAIN c.to_get : c.to_get[i] = ids[1]}
        known == SelectSeq(ids, LAMBDA n : n <= head_num)
    IN  CASE ids = <<>> -> c
          [] ids # <<>> /\ c.to_get = <<>> /\ IsFirstForOther(p, ids[1]) -> [c EXCEPT !.to_get = ids]
          [] ids # <<>> /\ c.to_get = <<>> /\ ~IsFirstForOther(p, ids[1]) ->
                [c EXCEPT !.to_get = FlushKnown(ids), !.last = IF known = <<>> THEN @ ELSE Last(known)]
          [] ids # <<>> /\ c.to_get # <<>> /\ common = {} ->
                [c EXCEPT !.to_get = Tail(ids), !.last = ids[1]]
          [] OTHER -> [c EXCEPT !.to_get = SubSeq(@, 1, (CHOOSE i \in common : \A j \in common : j <= i) - 1) \o ids]

(* The peer's answer.                                                      *)
ValidAnswer(c, ids) ==
    LET synopsis == c.ids_requested[1]
    IN  ids # <<>> => IF synopsis = <<>> THEN ids[1] = 1 ELSE Contains(synopsis, ids[1])

(* The peer has nothing that we lack.  Mutant: an answer with the one      *)
(* block we already have does not say so.                                  *)
UpToDateEmpty(c, m) == m.remaining = 0 /\ m.ids = <<>> /\ c.to_get = <<>> /\ c.unfetched = 0

UpToDate(c, m) ==
    /\ m.remaining = 0
    /\ m.ids = <<>> \/ (Len(m.ids) = 1 /\ m.ids[1] <= head_num)
    /\ c.to_get = <<>>
    /\ c.unfetched = 0

(* The handler asks the chain which of the blocks it has.                  *)
AsksChain(p, m) ==
    \/ m.remaining = 0 /\ Len(m.ids) = 1
    \/ m.ids # <<>> /\ peer[p].to_get = <<>> /\ ~IsFirstForOther(p, m.ids[1])

(* The list is long enough, or complete, to fetch blocks.                  *)
FetchesNow(c, m) ==
    IF m.remaining # 0 THEN Len(c.to_get) > MinIdsToPrefetch ELSE c.to_get # <<>>

(* The list becomes part of the peer's, and either blocks are fetched or   *)
(* more ids are asked for; or it says that we are in sync with the peer.   *)
TakeIds(p, m, rest) ==
    LET c == [peer[p] EXCEPT !.ids_requested = <<>>]
        longer == [Extended(p, c, m.ids) EXCEPT !.unfetched = m.remaining]
        fetch == FetchesNow(longer, m)
    IN  \/ /\ UpToDate(c, m)
           /\ peer' = [peer EXCEPT ![p] = [c EXCEPT !.need = FALSE]]
           /\ calls' = rest
           /\ UNCHANGED fetch_sync
        \/ /\ ~UpToDate(c, m)
           /\ peer' = [peer EXCEPT ![p] = longer]
           /\ fetch_sync' = (fetch_sync \/ fetch)
           /\ calls' = rest \o IF fetch THEN <<>> ELSE <<Synopsis(p, longer, p, TRUE)>>

on_blockchain_item_ids_inventory_message(p) ==
    /\ Receive(p, "ids")
    /\ LET m == Head(inbox[p])
           valid == peer[p].ids_requested # <<>> /\ ValidAnswer(peer[p], m.ids)
           counted == m.remaining # 0 \/ Len(m.ids) # 1
       IN  \/ /\ peer[p].ids_requested = <<>>
              /\ UNCHANGED <<peer, calls, fetch_sync>>
           \/ /\ peer[p].ids_requested # <<>>
              /\ ~ValidAnswer(peer[p], m.ids)
              /\ peer' = [peer EXCEPT ![p] = disconnect_from_peer(@)]
              /\ UNCHANGED <<calls, fetch_sync>>
           \/ /\ valid
              /\ AsksChain(p, m)
              /\ peer' = [peer EXCEPT ![p].ids_requested = <<>>,
                                     ![p].unfetched = IF counted THEN m.remaining ELSE @]
              /\ calls' = Append(calls, Wait(p, m))
              /\ UNCHANGED fetch_sync
           \/ /\ valid
              /\ ~AsksChain(p, m)
              /\ TakeIds(p, m, calls)
    /\ UNCHANGED <<netVars, chainVars, backlogVars, normalVars, outbox, active_sync_requests>>

(* The chain has answered.                                                 *)
ItemsKnown(p) ==
    /\ calls # <<>>
    /\ Head(calls).job = "ids"
    /\ Head(calls).by = p
    /\ TakeIds(p, Head(calls).message, Tail(calls))
    /\ UNCHANGED <<netVars, chainVars, backlogVars, normalVars, inbox, outbox, active_sync_requests>>

(***************************************************************************)
(* Fetching blocks during synchronisation.                                 *)
(***************************************************************************)

have_already_received_sync_item(n) == Contains(received, n) \/ Contains(new_received, n)

(* The items peer p of the order is asked for, given what the ones before  *)
(* it are asked for: the first of its list that nobody was asked for.      *)
RECURSIVE SyncRequests(_, _)
SyncRequests(order, taken) ==
    IF order = <<>> THEN [p \in Peers |-> <<>>]
    ELSE LET p == Head(order)
             free == SelectSeq(peer[p].to_get, LAMBDA n :
                        /\ ~have_already_received_sync_item(n)
                        /\ n \notin taken \cup active_sync_requests)
             items == IF peer[p].need /\ idle(peer[p])
                      THEN SubSeq(free, 1, Smaller(Len(free), MaxBlocksPerPeer)) ELSE <<>>
         IN  [SyncRequests(Tail(order), taken \cup ToSet(items)) EXCEPT ![p] = items]

(* One round of the loop; the peers come in the order of a hash table.     *)
fetch_sync_items_loop ==
    /\ fetch_sync
    /\ fetch_sync' = FALSE
    /\ \/ /\ suspended
          /\ UNCHANGED <<peer, outbox, active_sync_requests>>
       \/ /\ ~suspended
          /\ \E order \in SetToSeqs(Active(peer)) :
               LET items == SyncRequests(order, {})
               IN  /\ active_sync_requests' = active_sync_requests \cup UNION {ToSet(items[p]) : p \in Peers}
                   /\ peer' = [p \in Peers |-> [peer[p] EXCEPT !.requested = @ \cup ToSet(items[p])]]
                   /\ outbox' = [p \in Peers |-> IF items[p] = <<>> THEN outbox[p]
                                                 ELSE Append(outbox[p], [type |-> "fetch_items", items |-> items[p]])]
    /\ UNCHANGED <<netVars, chainVars, backlogVars, normalVars, inbox, calls>>

(* The peer sends the blocks it is asked for; a silent one does not.       *)
PeerSendsItems(p) ==
    /\ outbox[p] # <<>>
    /\ Head(outbox[p]).type = "fetch_items"
    /\ inbox' = IF p \in silent THEN inbox
                ELSE [inbox EXCEPT ![p] = @ \o [i \in DOMAIN Head(outbox[p]).items |->
                                                  [type |-> "block", block |-> Head(outbox[p]).items[i]]]]
    /\ outbox' = [outbox EXCEPT ![p] = Tail(@)]
    /\ UNCHANGED <<netVars, chainVars, backlogVars, normalVars, peer, calls, active_sync_requests, fetch_sync>>

(* The request is done with.                                               *)
Answered(c, n) == [c EXCEPT !.requested = @ \ {n}]

(* A block arrives that we asked for while synchronising.                  *)
process_block_during_sync(p) ==
    /\ Receive(p, "block")
    /\ LET n == Head(inbox[p]).block
           c == Answered(peer[p], n)
           ask == idle(c) /\ c.unfetched > 0 /\ Len(c.to_get) < MinIdsToPrefetch
       IN  /\ n \notin peer[p].normal
           /\ n \in peer[p].requested
           /\ peer' = [peer EXCEPT ![p] = c]
           /\ active_sync_requests' = active_sync_requests \ {n}
           /\ new_received' = <<n>> \o new_received
           /\ calls' = IF ask THEN Append(calls, Synopsis(p, c, p, TRUE)) ELSE calls
           /\ fetch_sync' = (fetch_sync \/ (idle(c) /\ ~ask))
    /\ backlog' = trigger_process_backlog
    /\ UNCHANGED <<netVars, chainVars, normalVars, outbox, received, suspended>>

(***************************************************************************)
(* Handing blocks to the chain.                                            *)
(***************************************************************************)

(* The peers that have the block next in their list.                       *)
FirstFor(ps, n) == {p \in Active(ps) : ps[p].to_get # <<>> /\ Head(ps[p].to_get) = n}

(* The last item of a peer's list is done: ask whether we are in sync.     *)
NewlyEmpty(c) == c.to_get = <<>> /\ c.unfetched = 0 /\ c.processing = {}

(* A block that was already accepted is not being processed.               *)
Accepted(c, n) == [c EXCEPT !.processing = @ \ {n}]

(* One block of the backlog that is the next of some peer's list.          *)
BacklogStep(b, i) ==
    LET n == b.received[i]
        first == FirstFor(b.peer, n)
        popped == [p \in Peers |-> IF p \in first
                     THEN [b.peer[p] EXCEPT !.to_get = Tail(@), !.processing = @ \cup {n}]
                     ELSE b.peer[p]]
        known == {p \in Active(popped) : n \in popped[p].processing}
        dropped == [p \in Peers |-> IF p \in known THEN Accepted(popped[p], n) ELSE popped[p]]
    IN  IF Contains(accepted, n)
        THEN [b EXCEPT !.peer = dropped, !.more = FALSE,
                       !.ask = @ \cup {p \in known : NewlyEmpty(dropped[p])}]
        ELSE [b EXCEPT !.peer = popped, !.received = RemoveAt(@, i),
                       !.calls = Append(@, Push(n, "sync")), !.count = @ + 1]

(* As many blocks are in progress as may be.                               *)
Full(b) == b.count >= MaxHandled

(* The loop of process_backlog_of_sync_blocks.                             *)
RECURSIVE BacklogLoop(_)
BacklogLoop(b) ==
    LET next == {i \in DOMAIN b.received : FirstFor(b.peer, b.received[i]) # {}}
        after == IF next = {} THEN [b EXCEPT !.more = FALSE]
                 ELSE BacklogStep(b, CHOOSE i \in next : \A j \in next : i <= j)
    IN  CASE Full(after) ->
               [after EXCEPT !.suspended = @ \/ Len(after.received) >= MaxPrefetched]
          [] ~Full(after) /\ after.more -> BacklogLoop(after)
          [] OTHER -> after

process_backlog_of_sync_blocks ==
    /\ backlog = "scheduled"
    /\ \/ /\ Len(SyncCalls) >= MaxHandled
          /\ backlog' = "ready"
          /\ UNCHANGED <<received, new_received, suspended, peer, calls, fetch_sync>>
       \/ /\ Len(SyncCalls) < MaxHandled
          /\ \E b \in {BacklogLoop([received |-> Reverse(new_received) \o received, peer |-> peer,
                                    calls |-> calls, count |-> Len(SyncCalls), ask |-> {},
                                    suspended |-> FALSE, more |-> TRUE])} :
               /\ received' = b.received
               /\ peer' = b.peer
               /\ calls' = b.calls \o SynopsesFor(b.peer, b.ask, "backlog")
               /\ suspended' = b.suspended
               /\ backlog' = IF b.ask = {} THEN "ready" ELSE "waiting"
               /\ fetch_sync' = (fetch_sync \/ (b.ask = {} /\ ~b.suspended))
          /\ new_received' = <<>>
    /\ UNCHANGED <<netVars, normalVars, chainVars, inbox, outbox, active_sync_requests>>

(* The chain's thread pushes the next block it was given: one that follows *)
(* the head is applied, one it already has changes nothing, and another      *)
(* does not link.                                                          *)
Links(n) == n <= head_num + 1

handle_block(n) == head_num' = IF n = head_num + 1 THEN n ELSE head_num

(* send_sync_block_to_node_delegate, from the call to handle_block on.     *)
send_sync_block_to_node_delegate ==
    /\ calls # <<>>
    /\ Head(calls).job = "push"
    /\ Head(calls).by = "sync"
    /\ LET n == Head(calls).block
           active == Active(peer)
           offered == {p \in active : n \in peer[p].processing}
           emptied == {p \in active : peer[p].to_get = <<>> /\ peer[p].processing = {}}
           restart == {p \in emptied : ~peer[p].needs_from_us /\ ~peer[p].need}
           after == [p \in Peers |->
                        CASE p \in restart -> start_synchronizing_with_peer(peer[p])
                          [] p \in offered -> [peer[p] EXCEPT !.last = n, !.processing = @ \ {n}]
                          [] OTHER -> peer[p]]
           ask == restart \cup {p \in offered : NewlyEmpty(after[p])}
       IN  /\ handle_block(n)
           /\ accepted' = IF Links(n) THEN push_recent(accepted, n) ELSE accepted
           /\ peer' = IF Links(n) THEN after
                      ELSE [p \in Peers |-> IF p \in offered THEN disconnect_from_peer(peer[p]) ELSE peer[p]]
           /\ calls' = Tail(calls) \o IF Links(n) THEN SynopsesFor(after, ask, "sync") ELSE <<>>
           /\ backlog' = IF Links(n) /\ ask # {} THEN backlog ELSE trigger_process_backlog
    /\ UNCHANGED <<netVars, normalVars, being_processed, inbox, outbox, received, new_received,
                   suspended, active_sync_requests, fetch_sync>>

(***************************************************************************)
(* Normal operation: blocks are advertised, fetched and passed on.         *)
(***************************************************************************)

(* A peer advertises a block.  We want it unless we have it, are just      *)
(* processing it, or have asked for it.                                    *)
on_item_ids_inventory_message(p) ==
    /\ Receive(p, "inventory")
    /\ LET n == Head(inbox[p]).block
           skipped == \/ n \in being_processed \cup new_inventory
                      \/ \E q \in Active(peer) : n \in peer[q].told
           wanted == ~skipped /\ \A q \in Active(peer) : n \notin peer[q].normal
       IN  /\ peer' = IF skipped THEN peer ELSE [peer EXCEPT ![p].advertised = @ \cup {n}]
           /\ items_to_fetch' = IF wanted THEN items_to_fetch \cup {n} ELSE items_to_fetch
           /\ fetch_items' = (fetch_items \/ (wanted /\ n \notin items_to_fetch))
    /\ UNCHANGED <<netVars, chainVars, backlogVars, new_inventory, outbox, calls,
                   active_sync_requests, fetch_sync>>

(* One round of the loop: an item goes to an idle peer that advertised it, *)
(* one item per peer.                                                      *)
fetch_items_loop ==
    /\ fetch_items
    /\ fetch_items' = FALSE
    /\ LET ready == {p \in Active(peer) : idle(peer[p])}
           Fits(f) == /\ \A p \in ready : f[p] # 0 => f[p] \in items_to_fetch \cap peer[p].advertised
                      /\ \A p, q \in ready : p # q /\ f[p] = f[q] => f[p] = 0
           (* nothing that could be asked for is left out *)
           Covers(f) == \A n \in items_to_fetch, p \in ready :
                         f[p] = 0 /\ n \in peer[p].advertised => \E q \in ready : f[q] = n
       IN  \E f \in {g \in [ready -> items_to_fetch \cup {0}] : Fits(g) /\ Covers(g)} :
             /\ items_to_fetch' = items_to_fetch \ {f[p] : p \in ready}
             /\ peer' = [p \in Peers |-> IF p \in ready /\ f[p] # 0
                                         THEN [peer[p] EXCEPT !.normal = @ \cup {f[p]}] ELSE peer[p]]
             /\ outbox' = [p \in Peers |-> IF p \in ready /\ f[p] # 0
                             THEN Append(outbox[p], [type |-> "fetch_items", items |-> <<f[p]>>])
                             ELSE outbox[p]]
    /\ UNCHANGED <<netVars, chainVars, backlogVars, new_inventory, inbox, calls,
                   active_sync_requests, fetch_sync>>

(* What follows the push of a block in normal operation: the peers that    *)
(* advertised it are known to have it, and it is queued for the others.    *)
Validated(n, ps) ==
    [p \in Peers |-> IF p \in Active(ps) /\ n \in ps[p].advertised THEN [ps[p] EXCEPT !.last = n] ELSE ps[p]]

(* A block arrives that we asked for because it was advertised.  One that  *)
(* was accepted a moment ago is not pushed again.                          *)
process_block_during_normal_operation(p) ==
    /\ Receive(p, "block")
    /\ LET n == Head(inbox[p]).block
           ps == [peer EXCEPT ![p].normal = @ \ {n}]
       IN  /\ n \in peer[p].normal
           /\ \/ /\ Contains(accepted, n)
                 /\ peer' = Validated(n, ps)
                 /\ accepted' = push_recent(accepted, n)
                 /\ new_inventory' = new_inventory \cup {n}
                 /\ fetch_items' = (fetch_items \/ idle(ps[p]))
                 /\ UNCHANGED <<calls, being_processed>>
              \/ /\ ~Contains(accepted, n)
                 /\ peer' = ps
                 /\ calls' = Append(calls, Push(n, p))
                 /\ being_processed' = being_processed \cup {n}
                 /\ UNCHANGED <<accepted, new_inventory, fetch_items>>
    /\ UNCHANGED <<netVars, backlogVars, head_num, items_to_fetch, outbox, active_sync_requests, fetch_sync>>

(* The rest of it, from the call to handle_block on.  A block that does    *)
(* not link starts another synchronisation with the peer.                  *)
BlockPushed(p) ==
    /\ calls # <<>>
    /\ Head(calls).job = "push"
    /\ Head(calls).by = p
    /\ LET n == Head(calls).block
           again == start_synchronizing_with_peer(peer[p])
       IN  /\ handle_block(n)
           /\ \/ /\ Links(n)
                 /\ being_processed' = being_processed \ {n}
                 /\ accepted' = push_recent(push_recent(accepted, n), n)
                 /\ peer' = Validated(n, peer)
                 /\ new_inventory' = new_inventory \cup {n}
                 /\ calls' = Tail(calls)
              \/ /\ ~Links(n)
                 /\ peer' = [peer EXCEPT ![p] = again]
                 /\ calls' = Append(Tail(calls), Synopsis(p, again, p, TRUE))
                 /\ UNCHANGED <<being_processed, accepted, new_inventory>>
    /\ fetch_items' = (fetch_items \/ idle(peer[p]))
    /\ UNCHANGED <<netVars, backlogVars, items_to_fetch, inbox, outbox, active_sync_requests, fetch_sync>>

(* New blocks are advertised to the peers that are in sync with us and do  *)
(* not have them.                                                          *)
advertise_inventory_loop ==
    /\ new_inventory # {}
    /\ new_inventory' = {}
    /\ peer' = [p \in Peers |-> IF p \in Active(peer) /\ ~peer[p].needs_from_us
                 THEN [peer[p] EXCEPT !.told = @ \cup (new_inventory \ peer[p].advertised)] ELSE peer[p]]
    /\ UNCHANGED <<netVars, chainVars, backlogVars, fetch_items, items_to_fetch, inbox, outbox, calls,
                   active_sync_requests, fetch_sync>>

(* A peer fetches its next block from us, told of it or synchronising.     *)
on_fetch_items_message(p) ==
    /\ peer[p].conn = "active"
    /\ ReaderFree(p)
    /\ chain[p] < head_num
    /\ peer[p].needs_from_us \/ chain[p] + 1 \in peer[p].told
    /\ chain' = [chain EXCEPT ![p] = @ + 1]
    /\ peer' = [peer EXCEPT ![p].last = chain[p] + 1]
    /\ UNCHANGED <<behind, breaks, silent, chainVars, backlogVars, normalVars, inbox, outbox, calls,
                   active_sync_requests, fetch_sync>>

(* The synopsis a peer sends us of its own chain.                          *)
AskFromPeer(c) == [type |-> "ask", synopsis |-> get_blockchain_synopsis(c, 0, 0)]

(* A peer's chain grows.  If it thinks that we are in sync it advertises   *)
(* the block, or, when the block came to it while it was synchronising,    *)
(* starts to synchronise with us.                                          *)
Grow(p) ==
    /\ chain[p] < LastBlockNum
    /\ chain' = [chain EXCEPT ![p] = @ + 1]
    /\ \/ /\ peer[p].conn = "active"
          /\ ~behind[p]
          /\ \E m \in {[type |-> "inventory", block |-> chain[p] + 1], AskFromPeer(chain[p] + 1)} :
               inbox' = [inbox EXCEPT ![p] = Append(@, m)]
       \/ /\ peer[p].conn # "active" \/ behind[p]
          /\ UNCHANGED inbox
    /\ UNCHANGED <<behind, breaks, silent, peer, chainVars, backlogVars, normalVars, outbox, calls,
                   active_sync_requests, fetch_sync>>

(***************************************************************************)
(* Connections.                                                            *)
(***************************************************************************)

(* A connection is made: both sides start to synchronise.                  *)
new_peer_just_added(p) ==
    /\ peer[p].conn = "closed"
    /\ peer' = [peer EXCEPT ![p] = NewConnection]
    /\ behind' = [behind EXCEPT ![p] = TRUE]
    /\ inbox' = [inbox EXCEPT ![p] = <<AskFromPeer(chain[p])>>]
    /\ calls' = Append(calls, Synopsis(p, NewConnection, p, TRUE))
    /\ UNCHANGED <<chain, breaks, silent, chainVars, backlogVars, normalVars, outbox, active_sync_requests, fetch_sync>>

(* "A state we should never get into in the first place".                  *)
Stalled(p) ==
    /\ peer[p].conn = "active"
    /\ peer[p].need
    /\ ReaderFree(p)
    /\ peer[p].ids_requested = <<>>
    /\ peer[p].to_get = <<>>

(* One round of the loop, in the order of a hash table.  A peer that is    *)
(* slow with a block it advertised, or with which we are stalled, is cut   *)
(* off; the first peer that is slow with a block of the synchronisation    *)
(* ends the round before anything is done about it or the peers after it.  *)
IgnoresSync(p) == p \in silent /\ peer[p].requested # {}

Terminated(order) ==
    LET slow == {i \in DOMAIN order : IgnoresSync(order[i])}
        seen == {order[i] : i \in {j \in DOMAIN order : \A k \in slow : j < k}}
    IN  {p \in seen : Stalled(p) \/ (p \in silent /\ peer[p].normal # {})}

terminate_inactive_connections_loop ==
    \E order \in SetToSeqs(Active(peer)) :
        /\ Terminated(order) # {}
        /\ peer' = [p \in Peers |-> IF p \in Terminated(order) THEN [peer[p] EXCEPT !.conn = "terminating"]
                                                               ELSE peer[p]]
        /\ UNCHANGED <<netVars, chainVars, backlogVars, normalVars, inbox, outbox, calls,
                       active_sync_requests, fetch_sync>>

(* The requests that are left; mutant: all of them.                        *)
RequestsKept(p) == active_sync_requests

RequestsLeft(p) == active_sync_requests \ peer[p].requested

(* A connection is closed, by us or because it broke: what was asked of    *)
(* the peer can be asked of another.                                       *)
on_connection_closed(p) ==
    /\ ReaderFree(p)
    /\ \/ peer[p].conn \in {"closing", "terminating"} /\ UNCHANGED breaks
       \/ peer[p].conn = "active" /\ breaks > 0 /\ breaks' = breaks - 1
    /\ peer' = [peer EXCEPT ![p] = [NewConnection EXCEPT !.conn = "closed"]]
    /\ active_sync_requests' = RequestsLeft(p)
    /\ fetch_sync' = (fetch_sync \/ peer[p].requested # {})
    /\ items_to_fetch' = items_to_fetch \cup
           {n \in peer[p].normal : \E q \in Active(peer) \ {p} : n \in peer[q].advertised}
    /\ fetch_items' = (fetch_items \/ peer[p].normal # {})
    /\ inbox' = [inbox EXCEPT ![p] = <<>>]
    /\ outbox' = [outbox EXCEPT ![p] = <<>>]
    /\ calls' = [i \in DOMAIN calls |-> IF calls[i].job = "synopsis" /\ calls[i].peer = p
                                       THEN [calls[i] EXCEPT !.peer = "gone"] ELSE calls[i]]
    /\ UNCHANGED <<chain, behind, silent, chainVars, backlogVars, new_inventory>>

(***************************************************************************)
(* The specification.                                                      *)
(***************************************************************************)

BlockSyncInit ==
    /\ \E s \in Starts : head_num = s.head /\ chain = s.chain /\ breaks = s.breaks /\ silent = s.silent
    /\ behind = [p \in Peers |-> TRUE]
    /\ peer = [p \in Peers |-> [NewConnection EXCEPT !.conn = "closed"]]
    /\ inbox = [p \in Peers |-> <<>>]
    /\ outbox = [p \in Peers |-> <<>>]
    /\ calls = <<>>
    /\ active_sync_requests = {} /\ received = <<>> /\ new_received = <<>>
    /\ backlog = "ready" /\ fetch_sync = FALSE /\ fetch_items = FALSE /\ suspended = FALSE
    /\ accepted = <<>> /\ being_processed = {} /\ items_to_fetch = {} /\ new_inventory = {}

(* What our node and its peers do with a message they have.                *)
Handles(p) ==
    \/ PeerAnswersIds(p)
    \/ ReceiveAsk(p)
    \/ on_blockchain_item_ids_inventory_message(p)
    \/ PeerSendsItems(p)
    \/ process_block_during_sync(p)
    \/ on_item_ids_inventory_message(p)
    \/ process_block_during_normal_operation(p)

(* The chain's thread takes the next call.                                 *)
ChainThread ==
    \/ fetch_next_batch_of_item_ids_from_peer
    \/ send_sync_block_to_node_delegate
    \/ \E p \in Peers :
         \/ on_fetch_blockchain_item_ids_message(p)
         \/ ItemsKnown(p)
         \/ BlockPushed(p)

BlockSyncNext ==
    \/ \E p \in Peers :
         \/ Handles(p)
         \/ on_fetch_items_message(p)
         \/ Grow(p)
         \/ new_peer_just_added(p)
         \/ on_connection_closed(p)
    \/ fetch_sync_items_loop
    \/ process_backlog_of_sync_blocks
    \/ ChainThread
    \/ fetch_items_loop
    \/ advertise_inventory_loop
    \/ terminate_inactive_connections_loop

(* The node's fibers and the chain's thread run, messages arrive, closed   *)
(* connections are reported and made again.  Nothing makes chains grow.    *)
BlockSyncFairness ==
    /\ \A p \in Peers :
         /\ WF_syncVars(Handles(p))
         /\ WF_syncVars(p \in Seeds /\ new_peer_just_added(p))
         /\ WF_syncVars(peer[p].conn # "active" /\ on_connection_closed(p))
    /\ WF_syncVars(fetch_sync_items_loop)
    /\ WF_syncVars(process_backlog_of_sync_blocks)
    /\ WF_syncVars(ChainThread)
    /\ WF_syncVars(fetch_items_loop)
    /\ WF_syncVars(advertise_inventory_loop)
    /\ WF_syncVars(terminate_inactive_connections_loop)

(***************************************************************************)
(* Properties.                                                             *)
(***************************************************************************)

(* The bookkeeping of requests in fetch_sync_items_loop,                   *)
(* process_block_during_sync and on_connection_closed: whatever            *)
(* connections come and go, _active_sync_requests is what the peers have   *)
(* been asked for, and no block is asked of two peers at a time.  An entry *)
(* too many is a block nobody fetches any more.                            *)
RequestsMatch ==
    /\ active_sync_requests = UNION {peer[p].requested : p \in Peers}
    /\ \A p, q \in Peers : p # q => peer[p].requested \cap peer[q].requested = {}

(* process_block_message disconnects a peer for "a block that I didn't ask *)
(* for": a peer that only sends what it is asked for never gives cause.    *)
NoUnrequestedBlock ==
    \A p \in Peers : \A i \in DOMAIN inbox[p] :
        inbox[p][i].type = "block" => inbox[p][i].block \in peer[p].normal \cup peer[p].requested

(* Blocks come from several peers in any order, and those peers are cut    *)
(* off whose block does not link (send_sync_block_to_node_delegate):       *)
(* process_backlog_of_sync_blocks hands them over so that each one links   *)
(* when its turn comes.                                                    *)
NeverUnlinked ==
    \A i \in DOMAIN calls : i = 1 /\ calls[i].job = "push" /\ calls[i].by = "sync" => Links(calls[i].block)

(* A peer's list of items being processed holds only blocks that are on    *)
(* their way to the chain: the entry is erased when the block is done or   *)
(* was already accepted, else the peer would never count as in sync.       *)
ProcessingIsHandled ==
    \A p \in Active(peer) : \A n \in peer[p].processing :
        \E i \in DOMAIN calls : calls[i] = Push(n, "sync")

(* A synopsis is built after a wait, from a list of ids taken before it.   *)
(* It still ends with the last of them, as the comment in                  *)
(* create_blockchain_synopsis_for_peer asks, so that the answer continues  *)
(* the list.                                                               *)
SynopsisEnds ==
    \A i \in DOMAIN calls :
        i = 1 /\ calls[i].job = "synopsis" /\ calls[i].ids # <<>> =>
            Last(create_blockchain_synopsis_for_peer(head_num, calls[i].ref, calls[i].ids)) = Last(calls[i].ids)

(* process_backlog_of_sync_blocks never has more blocks in progress than   *)
(* _maximum_number_of_blocks_to_handle_at_one_time.                        *)
BoundedCalls == Len(SyncCalls) <= MaxHandled

(* With any number of connections that stay up the node gets the blocks of *)
(* all of them: "start iterating _received_sync_items from the beginning", *)
(* says process_backlog_of_sync_blocks, until none is left to hand over.   *)
SyncCompletes == []<>(\A p \in Peers : head_num >= chain[p])

(* What node_impl keeps of its peers agrees with what it asked of them and *)
(* with the calls it has in the chain, whatever arrives or breaks off.     *)
SyncSound ==
    /\ RequestsMatch /\ NoUnrequestedBlock
    /\ NeverUnlinked /\ ProcessingIsHandled /\ BoundedCalls
    /\ SynopsisEnds
=============================================================================
