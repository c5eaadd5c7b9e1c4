------------------------- MODULE MessageConnection -------------------------
(***************************************************************************)
(* Messages from one node to a peer: the queue of peer_connection.cpp and  *)
(* the task that empties it, the encrypted socket that takes and gives a   *)
(* few blocks of 16 bytes at a time (stcp_socket.cpp), and the loop that   *)
(* reads messages at the other end (message_oriented_connection.cpp).      *)
(*                                                                         *)
(* A message is a number, the place it had in the queue, and what it       *)
(* carries.  Bytes are left out but for their number: what is written and  *)
(* read are blocks, each with its message and its place in it.             *)
(***************************************************************************)
EXTENDS Naturals, Sequences, FiniteSets, SequencesExt

CONSTANTS Payloads,        \* ready messages,
          Items,             \* and blocks or transactions sent by their id
          SizeOf,            \* the size of each
          IdSize,            \* sizeof(item_id)
          HeaderBytes,       \* sizeof(message_header)
          BlockBytes,        \* the 16 bytes of a block of the cipher
          SizeModulus,       \* 2^32: sizes are uint32_t
          MaxMessageSize,    \* MAX_MESSAGE_SIZE
          MaxQueued,         \* GRAPHENE_NET_MAXIMUM_QUEUED_MESSAGES_IN_BYTES
          BufferBlocks,      \* blocks in the buffers of stcp_socket
          MaxSent,           \* bound: messages
          SocketFaults       \* bound: writes that fail

ASSUME MessageConnectionAssumption ==
    /\ SizeOf \in [Payloads \cup Items -> Nat] /\ IdSize \in Nat
    /\ BlockBytes \in Nat /\ HeaderBytes \in 1..BlockBytes - 1
    /\ BufferBlocks \in Nat \ {0} /\ SizeModulus \in Nat /\ MaxQueued \in Nat
    /\ \A x \in DOMAIN SizeOf : SizeOf[x] + BlockBytes < SizeModulus

VARIABLES queue,       \* _queued_messages
          queued_size,   \* _total_queued_messages_size
          task,          \* _send_queued_messages_done: "none" or "ready", "running", "canceled"
          writing,       \* for each call of the socket in progress the blocks left to write
          stream,        \* blocks on their way
          our_end,       \* our end: "open" or "closed"
          reader,        \* the peer's read_loop
          handled,       \* history: what the peer handled,
          taken,         \* what was taken from the queue to be sent,
          accepted_count,\* how many messages there were,
          available,     \* the items we can still send,
          faults         \* and how many writes failed

messageVars == <<queue, queued_size, task, writing, stream, our_end, reader, handled, taken,
                 accepted_count, available, faults>>

get_size_in_queue(m) == IF m.what \in Items THEN IdSize ELSE SizeOf[m.what]

\* An item is looked up when its turn comes.  One that is gone makes get_item throw an
\* assert_exception, which get_message_for_item does not catch.
get_message_throws(m) == m.what \in Items \ available

\* The blocks send_message pads a message to.
Padded(m) ==
    LET n == (HeaderBytes + SizeOf[m.what] + BlockBytes - 1) \div BlockBytes
    IN  [i \in 1..n |-> [no |-> m.no, what |-> m.what, at |-> i]]

\* What read_loop reads after the first block, in unsigned arithmetic.
RemainingBlocks(size) ==
    ((size + SizeModulus - (BlockBytes - HeaderBytes) + BlockBytes - 1) % SizeModulus) \div BlockBytes

(***************************************************************************)
(* peer_connection.                                                        *)
(***************************************************************************)
CloseOurEnd == our_end' = "closed"

\* The task is started unless it runs; a canceled one is never started again.
Started == IF task \in {"none", "ready"} THEN "running" ELSE task

\* A queue that got too long closes the connection and starts nothing; on a connection
\* that is shut down the call throws, with the message queued.
send_queueable_message(x) ==
    LET m == [no |-> accepted_count + 1, what |-> x]
        size == queued_size + get_size_in_queue(m)
    IN  /\ accepted_count < MaxSent
        /\ accepted_count' = m.no
        /\ queue' = Append(queue, m)
        /\ queued_size' = size
        /\ IF size > MaxQueued THEN CloseOurEnd /\ UNCHANGED task
           ELSE /\ UNCHANGED our_end
                /\ task' = Started
        /\ UNCHANGED <<writing, stream, reader, handled, taken, available, faults>>

\* send_queued_messages_task: the front message is handed to the socket...  The task
\* ends when there is none, and by the exception when it cannot be made: the message
\* stays in front, and the connection open.
send_queued_messages_task ==
    /\ task = "running" /\ writing = {}
    /\ IF queue = <<>> \/ get_message_throws(Head(queue))
       THEN task' = "ready" /\ UNCHANGED <<writing, taken>>
       ELSE /\ writing' = writing \cup {Padded(Head(queue))}
            /\ taken' = Append(taken, Head(queue))
            /\ UNCHANGED task
    /\ UNCHANGED <<queue, queued_size, stream, our_end, reader, handled, accepted_count, available, faults>>

\* A mutant: the size is taken from what was sent, not from what was queued.
SentSize(left) ==
    IF left # <<>> THEN UNCHANGED <<queue, queued_size>>
    ELSE /\ queued_size' = queued_size - SizeOf[Head(queue).what]
         /\ queue' = Tail(queue)

\* ... and leaves the queue when it has been written.
Sent(left) ==
    IF left # <<>> THEN UNCHANGED <<queue, queued_size>>
    ELSE /\ queued_size' = queued_size - get_size_in_queue(Head(queue))
         /\ queue' = Tail(queue)

\* stcp_socket::writesome, as long as our end is open: a buffer full at a time.
writesome(w) ==
    LET n == IF Len(w) < BufferBlocks THEN Len(w) ELSE BufferBlocks
        left == SubSeq(w, n + 1, Len(w))
    IN  /\ our_end = "open"
        /\ stream' = stream \o SubSeq(w, 1, n)
        /\ writing' = (writing \ {w}) \cup (IF left = <<>> THEN {} ELSE {left})
        /\ Sent(left)
        /\ UNCHANGED <<task, our_end, reader, handled, taken, accepted_count, available, faults>>

\* A write fails: always once the socket is closed.  The connection is closed and the
\* task ends; the message stays in the queue.
WriteFails(w) ==
    /\ our_end = "closed" \/ faults < SocketFaults
    /\ faults' = IF our_end = "closed" THEN faults ELSE faults + 1
    /\ writing' = writing \ {w}
    /\ task' = IF task = "running" THEN "ready" ELSE task
    /\ CloseOurEnd
    /\ UNCHANGED <<queue, queued_size, stream, reader, handled, taken, accepted_count, available>>

\* destroy: the connection is closed, and the task canceled and waited for.
destroy ==
    /\ task # "canceled"
    /\ CloseOurEnd
    /\ task' = "canceled" /\ writing' = {}
    /\ UNCHANGED <<queue, queued_size, stream, reader, handled, taken, accepted_count, available, faults>>

\* The cache forgets an item before its turn comes.
Forget(x) ==
    /\ available' = available \ {x} /\ x \in available
    /\ UNCHANGED <<queue, queued_size, task, writing, stream, our_end, reader, handled, taken,
                   accepted_count, faults>>

(***************************************************************************)
(* read_loop of the peer.                                                  *)
(***************************************************************************)
Idle == [on |-> TRUE, got |-> <<>>, want |-> 1]

\* Some of the blocks wanted arrive.  The first holds the header; once all are there the
\* message is handled, and if that fails the loop ends.
readsome(n, fails) ==
    LET got == reader.got \o SubSeq(stream, 1, n)
        size == SizeOf[got[1].what]
        want == 1 + RemainingBlocks(size)
        whole == [no |-> got[1].no, what |-> got[1].what, in_step |-> got[1].at = 1
                     /\ \A i \in DOMAIN got : got[i].no = got[1].no /\ got[i].at = i]
    IN  /\ reader.on
        /\ n \in 1..Len(stream) /\ Len(got) <= reader.want
        /\ stream' = SubSeq(stream, n + 1, Len(stream))
        /\ IF size > MaxMessageSize
           THEN ~fails /\ reader' = [reader EXCEPT !.on = FALSE] /\ UNCHANGED handled
           ELSE IF Len(got) < want
           THEN ~fails /\ reader' = [on |-> TRUE, got |-> got, want |-> want] /\ UNCHANGED handled
           ELSE /\ handled' = Append(handled, whole)
                /\ reader' = [Idle EXCEPT !.on = ~fails]
        /\ UNCHANGED <<queue, queued_size, task, writing, our_end, taken, accepted_count, available, faults>>

\* Nothing more can come, or the connection broke with what was on its way.
ReadFails ==
    /\ reader.on /\ our_end = "closed"
    /\ reader' = [reader EXCEPT !.on = FALSE]
    /\ UNCHANGED <<queue, queued_size, task, writing, stream, our_end, handled, taken,
                   accepted_count, available, faults>>

\* The peer hears nothing of a connection whose sender is stuck, and gives it up
\* (terminate_inactive_connections_loop).
peer_inactive ==
    /\ reader.on /\ stream = <<>> /\ writing = {}
    /\ queue # <<>> /\ get_message_throws(Head(queue))
    /\ reader' = [reader EXCEPT !.on = FALSE]
    /\ UNCHANGED <<queue, queued_size, task, writing, stream, our_end, handled, taken,
                   accepted_count, available, faults>>

\* Our own read_loop finds that the peer has closed, and destroys the connection.
peer_closed == ~reader.on /\ destroy

MessageConnectionInit ==
    /\ queue = <<>> /\ queued_size = 0 /\ task = "none" /\ writing = {} /\ stream = <<>>
    /\ our_end = "open" /\ reader = Idle /\ handled = <<>> /\ taken = <<>>
    /\ accepted_count = 0 /\ available = Items /\ faults = 0

MessageConnectionNext ==
    \/ \E x \in Payloads \cup Items : send_queueable_message(x)
    \/ send_queued_messages_task
    \/ \E w \in writing : writesome(w) \/ WriteFails(w)
    \/ \E x \in Items : Forget(x)
    \/ \E n \in 1..BufferBlocks, fails \in BOOLEAN : readsome(n, fails)
    \/ ReadFails
    \/ peer_inactive
    \/ peer_closed

MessageConnectionSpec == MessageConnectionInit /\ [][MessageConnectionNext]_messageVars

\* The task and the loops run on, and what is written arrives.
MessageConnectionFairness ==
    /\ WF_messageVars(send_queued_messages_task)
    /\ WF_messageVars(\E w \in writing : writesome(w) \/ WriteFails(w))
    /\ WF_messageVars(\E n \in 1..BufferBlocks : readsome(n, FALSE))
    /\ WF_messageVars(ReadFails) /\ WF_messageVars(peer_inactive) /\ WF_messageVars(peer_closed)

(***************************************************************************)
(* Properties.                                                             *)
(***************************************************************************)
\* The peer handles whole messages, in the order they were queued and none twice; its
\* loop never takes a block for the start of a message that is not
\* (the arithmetic of read_loop and of send_message agree on every size).
HandledInOrder ==
    /\ \A i \in DOMAIN handled : handled[i].in_step
    /\ IsPrefix([i \in DOMAIN handled |-> [no |-> handled[i].no, what |-> handled[i].what]], taken)

\* The size that decides whether a connection is too slow is that of what is queued,
\* through failures and items that changed meanwhile; an open one keeps the limit.
QueueCounted ==
    /\ queued_size = SumFunction([i \in DOMAIN queue |-> get_size_in_queue(queue[i])])
    /\ our_end = "open" => queued_size <= MaxQueued

MessagesSound == HandledInOrder /\ QueueCounted

\* What is queued is handled by the peer in the end, or the connection is given up: by us
\* when it is too slow or a write fails, and by the peer where our task ended at an item
\* that is gone, with that and all that was queued behind it unsent.
QueueEmpties == []<>(Len(handled) = accepted_count \/ our_end = "closed")
=============================================================================
