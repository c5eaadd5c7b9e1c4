---------------------------- MODULE Connections ----------------------------
(***************************************************************************)
(* How nodes find and keep their peers (libraries/net/node.cpp): dialling  *)
(* the endpoints they know, accepting, the handshake of hello, answer,     *)
(* request for addresses and addresses that both ends of a connection go   *)
(* through at once, and closing.  Every node runs this program: hellos are *)
(* well signed, and the check for clients too old for a hardfork compares  *)
(* with an empty list (application.cpp, sync_from) and never refuses one.  *)
(*                                                                         *)
(* A connection is <<n, m, k>>: the k-th that n opened to m.  Side 1 is    *)
(* its end at n, side 2 its end at m.  How long a node waits before it     *)
(* dials an endpoint again depends on the records of its peer database;    *)
(* here any time may pass, and the database is the set of endpoints.       *)
(***************************************************************************)
EXTENDS Naturals, Sequences, FiniteSets

CONSTANTS Nodes,        \* the nodes
          Firewalled,     \* the nodes that cannot be dialled
          ChainOf,        \* for each node the chain it is on
          Desired,        \* for each node _desired_number_of_connections
          Maximum,        \* for each node _maximum_number_of_connections
          Routes,         \* the pairs of nodes of which the first may dial the second
          MaxDials,       \* how often it does at most
          Worlds          \* how it begins: what the nodes know, whether the ports they
                          \* listen on can be used for dialling, whom they were told to
                          \* dial once, and how many dials, faults and further requests
                          \* for addresses there are

ASSUME ConnectionsAssumption ==
    /\ IsFiniteSet(Nodes) /\ Firewalled \subseteq Nodes /\ MaxDials \in Nat
    /\ Routes \subseteq Nodes \X (Nodes \ Firewalled)
    /\ Desired \in [Nodes -> Nat] /\ Maximum \in [Nodes -> Nat]
    /\ \A n \in Nodes : Desired[n] <= Maximum[n]
    /\ Worlds \subseteq [known : [Nodes -> SUBSET (Nodes \ Firewalled)], bound : BOOLEAN,
                        once : SUBSET Routes, dials : [Routes -> 0..MaxDials],
                        faults : Nat, requests : Nat]

VARIABLES ends,         \* what each side keeps of a connection (peer_connection)
          wire,           \* the messages on their way to each side
          socket,         \* "none", "dialled", "open" or "closed"
          known,          \* _potential_peer_db: the endpoints each node knows
          world           \* what is left of the dials, faults and requests

connVars == <<ends, wire, socket, known, world>>

Conns == {<<r[1], r[2], k>> : r \in Routes, k \in 1..MaxDials}
Sides == {1, 2}
Ends == Conns \X Sides
Other(s) == 3 - s

NoEnd ==
    [list |-> "none", our |-> "disconnected", their |-> "disconnected", id |-> FALSE,
     hello |-> FALSE, we_close |-> FALSE, they_close |-> FALSE, shut |-> FALSE,
     reachable |-> FALSE]

NewEnd == [NoEnd EXCEPT !.list = "handshaking"]

\* Both ends are in this state once keys are exchanged.
JustConnected(e) == [e EXCEPT !.our = "just_connected", !.their = "just_connected"]

EndsAt == [n \in Nodes |-> {x \in Ends : x[1][x[2]] = n}]
PeerOf(x) == x[1][Other(x[2])]
End(x) == ends[x[1]][x[2]]

(***************************************************************************)
(* What a node looks up in its lists of connections.                       *)
(***************************************************************************)
ListedAt(n) == {x \in EndsAt[n] : End(x).list \in {"handshaking", "active"}}

get_number_of_connections(n) == Cardinality(ListedAt(n))

is_accepting_new_connections(n) == get_number_of_connections(n) <= Maximum[n]

is_wanting_new_connections(n) == get_number_of_connections(n) < Desired[n]

\* A mutant: only active connections count.
AlreadyActive(n, m) ==
    m = n \/ \E x \in EndsAt[n] : End(x).list = "active" /\ PeerOf(x) = m /\ End(x).id

\* A node knows who is at the other end from its hello on.
is_already_connected_to_id(n, m) == m = n \/ \E x \in ListedAt(n) : PeerOf(x) = m /\ End(x).id

\* An inbound connection has the endpoint its dialler bound to, once it is accepted.
is_connection_to_endpoint_in_progress(n, m) ==
    \E x \in ListedAt(n) : /\ PeerOf(x) = m
                           /\ x[2] = 2 => world.bound /\ End(x).our # "disconnected"

(***************************************************************************)
(* Changes of one end.                                                     *)
(***************************************************************************)
\* The end becomes e, the first "read" messages to it are taken, out is sent and the
\* socket is closed or not.
Becomes(x, e, read, out) ==
    LET c == x[1]
        s == x[2]
    IN  /\ ends' = [ends EXCEPT ![c][s] = e]
        /\ wire' = [wire EXCEPT ![c][s] = SubSeq(@, read + 1, Len(@)),
                                ![c][Other(s)] = IF socket[c] = "open" THEN @ \o out ELSE @]
        /\ socket' = [socket EXCEPT ![c] = IF e.shut THEN "closed" ELSE @]

close_connection(e) == [e EXCEPT !.shut = TRUE]

\* The end after disconnect_from_peer, and what it sends.
disconnect_from_peer(e) ==
    LET closing == [e EXCEPT !.list = "closing"]
    IN  IF e.they_close THEN close_connection(closing) ELSE [closing EXCEPT !.we_close = TRUE]

Farewell(e) == IF e.they_close THEN <<>> ELSE <<[type |-> "closing"]>>

Reads(x, type) ==
    /\ End(x).list # "none" /\ End(x).our # "disconnected" /\ ~End(x).shut
    /\ wire[x[1]][x[2]] # <<>>
    /\ Head(wire[x[1]][x[2]]).type = type

Message(x) == Head(wire[x[1]][x[2]])

(***************************************************************************)
(* Opening a connection.                                                   *)
(***************************************************************************)
\* The loop dials an endpoint of the add-once list (the seed nodes), however many
\* connections there are, or one it knows while it wants more; initiate_connect_to adds
\* it to the handshaking connections before connect_to_task runs.
p2p_network_connect_loop(n, m) ==
    /\ <<n, m>> \in world.once \/ (m \in known[n] /\ is_wanting_new_connections(n))
    /\ ~is_connection_to_endpoint_in_progress(n, m)
    /\ LET k == world.dials[<<n, m>>]
           c == <<n, m, k>>
       IN  /\ k > 0
           /\ world' = [world EXCEPT !.dials[<<n, m>>] = k - 1, !.once = @ \ {<<n, m>>}]
           /\ ends' = [ends EXCEPT ![c][1] = NewEnd]
           /\ socket' = [socket EXCEPT ![c] = "dialled"]
    /\ UNCHANGED <<wire, known>>

accept_loop(c) ==
    /\ socket[c] = "dialled"
    /\ ends' = [ends EXCEPT ![c][2] = NewEnd]
    /\ socket' = [socket EXCEPT ![c] = "open"]
    /\ UNCHANGED <<wire, known, world>>

\* connect_to and accept_connection once keys are exchanged: the reader is started and
\* answers from now on.  Who dials takes the peer for one that can be reached.
accept_or_connect(x) ==
    /\ socket[x[1]] = "open"
    /\ End(x).list = "handshaking" /\ End(x).our = "disconnected"
    /\ Becomes(x, [JustConnected(End(x)) EXCEPT !.reachable = x[2] = 1], 0, <<>>)
    /\ UNCHANGED <<known, world>>

\* The hello tells of our head block: generate_hello_user_data waits for the thread of
\* the chain, and the handshake may be over at our end before it is sent.
send_hello_message(x) ==
    /\ End(x).our # "disconnected" /\ ~End(x).hello /\ ~End(x).shut
    /\ Becomes(x, [End(x) EXCEPT !.hello = TRUE], 0, <<[type |-> "hello"]>>)
    /\ UNCHANGED <<known, world>>

Fault == world.faults > 0 /\ world' = [world EXCEPT !.faults = @ - 1]

\* The connection fails before it is set up: connect_to_task removes it and knows the
\* endpoint from now on; at the other end the exception ends accept_connection_task,
\* and the connection stays in the handshaking list until it times out.
connect_to_task_fails(c) ==
    /\ ends[c][1].list = "handshaking" /\ ends[c][1].our = "disconnected"
    /\ \/ socket[c] = "dialled" /\ Fault
       \/ socket[c] = "closed" /\ UNCHANGED world
    /\ ends' = [ends EXCEPT ![c][1] = [NoEnd EXCEPT !.shut = TRUE]]
    /\ socket' = [socket EXCEPT ![c] = "closed"]
    /\ UNCHANGED <<wire, known>>

(***************************************************************************)
(* The messages of the handshake.                                          *)
(***************************************************************************)
Rejected(reason) == [type |-> "rejected", reason |-> reason]

\* A peer that is where it says it is can be dialled.
NotFirewalled(m) == m \notin Firewalled

on_hello_message(x) ==
    LET n == x[1][x[2]]
        m == PeerOf(x)
        e == [End(x) EXCEPT !.id = TRUE]
        no == [e EXCEPT !.their = "rejected"]
        foreign == ChainOf[m] # ChainOf[n]
        already == is_already_connected_to_id(n, m)
    IN  /\ Reads(x, "hello")
        /\ IF foreign
           THEN Becomes(x, disconnect_from_peer(no), 1,
                        <<Rejected("different_chain")>> \o Farewell(no))
           ELSE IF already
           THEN Becomes(x, no, 1, <<Rejected(IF m = n THEN "connected_to_self"
                                             ELSE "already_connected")>>)
           ELSE IF is_accepting_new_connections(n)
           THEN Becomes(x, [e EXCEPT !.their = "accepted", !.reachable = NotFirewalled(m)], 1,
                        <<[type |-> "accepted"]>>)
           ELSE Becomes(x, [no EXCEPT !.reachable = NotFirewalled(m)], 1,
                        <<Rejected("not_accepting_connections")>>)
        /\ known' = [known EXCEPT ![n] =
              IF foreign \/ already \/ ~NotFirewalled(m) THEN @ ELSE @ \cup {m}]
        /\ UNCHANGED world

AddressRequest == <<[type |-> "request"]>>

on_connection_accepted_message(x) ==
    /\ Reads(x, "accepted")
    /\ Becomes(x, [End(x) EXCEPT !.our = "accepted"], 1, AddressRequest)
    /\ UNCHANGED <<known, world>>

\* A node that reached itself forgets the endpoint and closes at once.
on_connection_rejected_message(x) ==
    LET n == x[1][x[2]]
        e == [End(x) EXCEPT !.our = "rejected"]
        self == Message(x).reason = "connected_to_self"
    IN  /\ Reads(x, "rejected")
        /\ IF self THEN Becomes(x, close_connection([e EXCEPT !.list = "closing"]), 1, <<>>)
           ELSE Becomes(x, e, 1, AddressRequest)
        /\ known' = [known EXCEPT ![n] = IF self THEN @ \ {n} ELSE @]
        /\ UNCHANGED world

\* The peers a node tells of: those of its active connections that can be dialled.
Advertised(n) == {PeerOf(x) : x \in {y \in EndsAt[n] : End(y).list = "active" /\ End(y).reachable}}

on_address_request_message(x) ==
    /\ Reads(x, "request")
    /\ Becomes(x, End(x), 1, <<[type |-> "addresses", of |-> Advertised(x[1][x[2]])]>>)
    /\ UNCHANGED <<known, world>>

\* The last step of a handshake; in an active connection only news of endpoints.
on_address_message(x) ==
    LET n == x[1][x[2]]
        e == End(x)
    IN  /\ Reads(x, "addresses")
        /\ known' = [known EXCEPT ![n] = @ \cup Message(x).of]
        /\ IF e.list # "handshaking" THEN Becomes(x, e, 1, <<>>)
           ELSE IF "rejected" \in {e.our, e.their}
           THEN Becomes(x, disconnect_from_peer(e), 1, Farewell(e))
           ELSE Becomes(x, [e EXCEPT !.list = "active"], 1, <<>>)
        /\ UNCHANGED world

fetch_updated_peer_lists_loop(x) ==
    /\ End(x).list = "active" /\ world.requests > 0
    /\ world' = [world EXCEPT !.requests = @ - 1]
    /\ Becomes(x, End(x), 0, AddressRequest)
    /\ UNCHANGED known

(***************************************************************************)
(* Closing.                                                                *)
(***************************************************************************)
\* An active connection is not closed by the peer's wish alone: the peer closes it.
on_closing_connection_message(x) ==
    LET e == [End(x) EXCEPT !.they_close = TRUE]
    IN  /\ Reads(x, "closing")
        /\ Becomes(x, IF e.we_close THEN close_connection(e) ELSE e, 1, <<>>)
        /\ UNCHANGED <<known, world>>

\* The node gives up an active connection, for what the peer sent or did not send.
GivesUp(x) ==
    /\ End(x).list = "active" /\ Fault
    /\ Becomes(x, disconnect_from_peer(End(x)), 0, Farewell(End(x)))
    /\ UNCHANGED known

\* The connection is lost.
Breaks(c) ==
    /\ socket[c] = "open" /\ Fault
    /\ socket' = [socket EXCEPT ![c] = "closed"]
    /\ UNCHANGED <<ends, wire, known>>

\* A mutant: only connections that close are looked at.
TooSlowClosing(x) == End(x).list = "closing"

\* A connection that takes too long: one whose set-up failed always does, another's
\* handshake may, and one that closes is cut off by who asked for it.
TooSlow(x) ==
    \/ End(x).list = "closing"
    \/ End(x).list = "handshaking" /\ End(x).our = "disconnected" /\ x[2] = 2
         /\ socket[x[1]] = "closed"

terminate_inactive_connections_loop(x) ==
    /\ ~End(x).shut
    /\ \/ TooSlow(x) /\ UNCHANGED world
       \/ End(x).list = "handshaking" /\ Fault
    /\ Becomes(x, close_connection([End(x) EXCEPT !.list = "terminating"]), 0, <<>>)
    /\ UNCHANGED known

\* The loop that reads finds the socket closed.  Where none was started nobody does.
on_connection_closed(x) ==
    /\ End(x).list # "none" /\ End(x).our # "disconnected"
    /\ socket[x[1]] = "closed"
    /\ ends' = [ends EXCEPT ![x[1]][x[2]] = [NoEnd EXCEPT !.shut = TRUE]]
    /\ UNCHANGED <<wire, socket, known, world>>

ConnectionsInit ==
    /\ ends = [c \in Conns |-> [s \in Sides |-> NoEnd]]
    /\ wire = [c \in Conns |-> [s \in Sides |-> <<>>]]
    /\ socket = [c \in Conns |-> "none"]
    /\ world \in Worlds
    /\ known = world.known

\* node_impl::on_message
HandlesMessage(x) ==
    \/ on_hello_message(x)
    \/ on_connection_accepted_message(x)
    \/ on_connection_rejected_message(x)
    \/ on_address_request_message(x)
    \/ on_address_message(x)
    \/ on_closing_connection_message(x)

\* What the nodes do by themselves.
ConnectionsSteps ==
    \/ \E r \in Routes : p2p_network_connect_loop(r[1], r[2])
    \/ \E c \in Conns : accept_loop(c) \/ (socket[c] = "closed" /\ connect_to_task_fails(c))
    \/ \E x \in Ends :
          \/ accept_or_connect(x)
          \/ send_hello_message(x)
          \/ HandlesMessage(x)
          \/ TooSlow(x) /\ terminate_inactive_connections_loop(x)
          \/ on_connection_closed(x)

ConnectionsNext ==
    \/ ConnectionsSteps
    \/ \E c \in Conns : connect_to_task_fails(c) \/ Breaks(c)
    \/ \E x \in Ends :
          \/ fetch_updated_peer_lists_loop(x)
          \/ GivesUp(x)
          \/ terminate_inactive_connections_loop(x)

\* The tasks of the nodes run on: what is dialled is accepted, what is received is
\* handled, what closes times out.  Dials and faults are bounded, so that every
\* behaviour comes to an end and fairness of all steps is fairness of each.
ConnectionsFairness == WF_connVars(ConnectionsSteps)

ConnectionsSpec == ConnectionsInit /\ [][ConnectionsNext]_connVars /\ ConnectionsFairness

(***************************************************************************)
(* Properties.                                                             *)
(***************************************************************************)
\* The active connections whose peer's hello a node has accepted.  A connection may be
\* active before the hello comes, and is not counted until it does.
Kept(n) == {x \in EndsAt[n] : End(x).list = "active" /\ End(x).their = "accepted"}

\* No node keeps two connections to one peer, however many were opened at once from
\* both sides (is_already_connected_to_id); none is ever active with itself.
OneConnectionPerPeer == \A n \in Nodes : \A x, y \in Kept(n) : PeerOf(x) = PeerOf(y) => x = y

NotWithItself == \A x \in Ends : End(x).list = "active" => PeerOf(x) # x[1][x[2]]

\* Handshakes under way are counted, so that no node keeps more connections than it may,
\* whichever end finishes first.
WithinMaximum == \A n \in Nodes : Cardinality(Kept(n)) <= Maximum[n]

\* What is active at one end was accepted by the other, on the same chain; the other
\* sees it rejected only where the late hello was, and what is active at both ends was
\* accepted by both: no half of a connection is left over from a handshake.
BothAccepted ==
    \A x \in Ends :
        LET far == ends[x[1]][Other(x[2])]
        IN  End(x).list = "active" =>
               /\ ChainOf[PeerOf(x)] = ChainOf[x[1][x[2]]]
               /\ far.list # "none" => far.their = "accepted"
               /\ far.our = "rejected" => End(x).their = "rejected"
               /\ far.list = "active" => End(x).their = "accepted"

\* Nodes behind a firewall are never offered for dialling.
KnownAreReachable == \A n \in Nodes : known[n] \cap Firewalled = {}

ConnectionsSound ==
    OneConnectionPerPeer /\ NotWithItself /\ WithinMaximum /\ BothAccepted /\ KnownAreReachable

\* A connection is not half made or half closed for ever: in the end each of its ends
\* is active, gone or cut off, and what is active is so at both ends, accepted by both:
\* one that was active before the hello and is refused then does not last.
ConnectionsSettle ==
    <>[](\A x \in Ends : /\ End(x).list \in {"none", "active", "terminating"}
                         /\ End(x).list = "active"
                              => /\ ends[x[1]][Other(x[2])].list = "active"
                                 /\ End(x).their = "accepted")
=============================================================================
