--------------------------- MODULE ServicesProofs ---------------------------
(***************************************************************************)
(* What is proved of the parts around the chain, each for every value of   *)
(* its constants: the connections between nodes, the messages that go      *)
(* through one, the history of operations, and transactions of clients on  *)
(* their way into blocks.                                                  *)
(***************************************************************************)
EXTENDS Connections, MessageConnection, History, Transactions, SumTheorems, SequenceTheorems

(***************************************************************************)
(* Connections, for every set of nodes, routes and limits: no node keeps   *)
(* two accepted connections to a peer, nor more than it may, none is       *)
(* active with itself, what is active at one end was accepted by the       *)
(* other, and nobody learns an endpoint that cannot be dialled.            *)
(*                                                                         *)
(* Both ends go through the handshake at once, so the invariant follows    *)
(* what is on the wire (PairRight): a hello comes only once, and late      *)
(* perhaps, then at most one answer, which is what the sender decided, and *)
(* addresses come only to an end that had its answer.  An end that was     *)
(* reset never speaks again, one that was not dialled has nothing on its   *)
(* wire, and nothing is ever accepted between nodes that do not suit each  *)
(* other.                                                                  *)
(***************************************************************************)
Answers == {"accepted", "rejected"}

Reachable == Nodes \ Firewalled

EndRecord ==
    [list : {"none", "handshaking", "active", "closing", "terminating"},
     our : {"disconnected", "just_connected"} \cup Answers,
     their : {"disconnected", "just_connected"} \cup Answers,
     id : BOOLEAN, hello : BOOLEAN, we_close : BOOLEAN, they_close : BOOLEAN, shut : BOOLEAN,
     reachable : BOOLEAN]

Reasons == {"different_chain", "connected_to_self", "already_connected", "not_accepting_connections"}

Messages ==
    [type : {"hello", "accepted", "request", "closing"}]
      \cup [type : {"rejected"}, reason : Reasons]
      \cup [type : {"addresses"}, of : SUBSET Reachable]

NodeOf(x) == x[1][x[2]]

ConnTypes ==
    /\ ends \in [Conns -> [Sides -> EndRecord]]
    /\ wire \in [Conns -> [Sides -> Seq(Messages)]]
    /\ socket \in [Conns -> {"none", "dialled", "open", "closed"}]
    /\ known \in [Nodes -> SUBSET Reachable]
    /\ world \in [known : [Nodes -> SUBSET Reachable], bound : BOOLEAN, once : SUBSET Routes,
                  dials : [Routes -> 0..MaxDials], faults : Int, requests : Int]

\* What one end tells by itself.
EndRight(x, e) ==
    /\ e.id <=> e.their \in Answers
    /\ "accepted" \in {e.our, e.their} =>
          ChainOf[PeerOf(x)] = ChainOf[NodeOf(x)] /\ PeerOf(x) # NodeOf(x)
    /\ e.reachable => PeerOf(x) \notin Firewalled
    /\ e.list = "active" => e.our = "accepted"
    /\ e.our = "disconnected" => e.their = "disconnected" /\ e.list \in {"none", "handshaking", "terminating"}
    /\ e.list = "none" => e.our = "disconnected"
    /\ e.our = "disconnected" => ~e.hello

\* An end e, the other end f and the messages w on their way from f to e.
HelloOnce(e, f, w) ==
    /\ ~e.shut /\ e.id => \A i \in 1..Len(w) : w[i].type # "hello"
    /\ ~e.shut => \A i, j \in 1..Len(w) : w[i].type = "hello" /\ w[j].type = "hello" => i = j
    /\ f.list # "none" /\ ~f.hello => ~e.id /\ \A i \in 1..Len(w) : w[i].type # "hello"

OneAnswer(e, f, w) ==
    /\ \A i \in 1..Len(w) : w[i].type \in Answers => f.list = "none" \/ f.their = w[i].type
    /\ e.our \in Answers => f.list = "none" \/ f.their = e.our
    /\ e.our \in Answers => \A i \in 1..Len(w) : w[i].type \notin Answers
    /\ \A i, j \in 1..Len(w) : w[i].type \in Answers /\ w[j].type \in Answers => i = j

\* Nothing is accepted between nodes that do not suit each other.
AcceptsFit(x, w) ==
    \A i \in 1..Len(w) : w[i].type = "accepted" =>
        ChainOf[PeerOf(x)] = ChainOf[NodeOf(x)] /\ PeerOf(x) # NodeOf(x)

AddressesLast(e, f, w) ==
    \A i \in 1..Len(w) :
        /\ w[i].type = "addresses" => e.list = "none" \/ e.our \in Answers
        /\ w[i].type = "request" => f.list = "none" \/ f.our \in Answers

PairRight(e, f, w) == HelloOnce(e, f, w) /\ OneAnswer(e, f, w) /\ AddressesLast(e, f, w)

ConnRight(c) ==
    /\ EndRight(<<c, 1>>, ends[c][1]) /\ EndRight(<<c, 2>>, ends[c][2])
    /\ AcceptsFit(<<c, 1>>, wire[c][1]) /\ AcceptsFit(<<c, 2>>, wire[c][2])
    /\ PairRight(ends[c][1], ends[c][2], wire[c][1])
    /\ PairRight(ends[c][2], ends[c][1], wire[c][2])
    /\ socket[c] = "none" => ends[c][1] = NoEnd
    /\ socket[c] \in {"none", "dialled"} =>
          wire[c][1] = <<>> /\ wire[c][2] = <<>> /\ ends[c][2] = NoEnd /\ ends[c][1].our = "disconnected"

\* What is left to dial was not dialled.
DialsLeft == \A r \in Routes : \A k \in 1..world.dials[r] : socket[<<r[1], r[2], k>>] = "none"

\* The connections a node has accepted and has not begun to close.
Taken(n) == {x \in ListedAt(n) : End(x).their = "accepted"}

OneTaken == \A n \in Nodes : \A x, y \in Taken(n) : PeerOf(x) = PeerOf(y) => x = y

TakenWithin == \A n \in Nodes : Cardinality(Taken(n)) <= Maximum[n]

ConnInv ==
    /\ ConnTypes /\ (\A c \in Conns : ConnRight(c)) /\ DialsLeft /\ OneTaken /\ TakenWithin

----------------------------------------------------------------------------
(* One end and its wire. *)

LEMMA TailParts ==
  ASSUME NEW w \in Seq(Messages), NEW read \in {0, 1}, read <= Len(w)
  PROVE  LET w2 == SubSeq(w, read + 1, Len(w))
         IN  /\ Len(w2) = Len(w) - read /\ Len(w) \in Nat
             /\ \A i \in 1..Len(w2) : w2[i] = w[i + read] /\ i + read \in 1..Len(w)
  <1> DEFINE m == read + 1
             n == Len(w)
  <1>1. m \in Int /\ n \in Int /\ n \in Nat /\ m <= n + 1 /\ \A i \in m .. n : w[i] \in Messages
    OBVIOUS
  <1>2. /\ Len(SubSeq(w, m, n)) = IF m <= n THEN n - m + 1 ELSE 0
        /\ \A i \in 1 .. n - m + 1 : SubSeq(w, m, n)[i] = w[m + i - 1]
    <2> HIDE DEF m, n
    <2> QED BY <1>1, SubSeqProperties
  <1> QED BY <1>1, <1>2

\* An end becomes e2 and may read a message.
LEMMA ReadKeeps ==
  ASSUME NEW e \in EndRecord, NEW f \in EndRecord, NEW w \in Seq(Messages), NEW e2 \in EndRecord,
         NEW read \in {0, 1}, read <= Len(w), PairRight(e, f, w),
         ~e2.shut => ~e.shut, read = 1 => ~e.shut,
         e2.id <=> e.id \/ (read = 1 /\ w[1].type = "hello"),
         \/ e2.our = e.our
         \/ e.our \notin Answers /\ e2.our \notin Answers
         \/ read = 1 /\ w[1].type \in Answers /\ e2.our = w[1].type,
         e.list # "none"
  PROVE  PairRight(e2, f, SubSeq(w, read + 1, Len(w)))
  <1> DEFINE w2 == SubSeq(w, read + 1, Len(w))
  <1>1. /\ Len(w2) = Len(w) - read /\ Len(w) \in Nat
        /\ \A i \in 1..Len(w2) : w2[i] = w[i + read] /\ i + read \in 1..Len(w)
    BY TailParts
  <1> HIDE DEF w2
  <1>2. HelloOnce(e2, f, w2)
    <2>1. CASE read = 0
      BY <2>1, <1>1 DEF PairRight, HelloOnce
    <2>2. CASE read = 1
      BY <2>2, <1>1 DEF PairRight, HelloOnce
    <2> QED BY <2>1, <2>2
  <1>3. OneAnswer(e2, f, w2)
    <2>1. CASE read = 0
      BY <2>1, <1>1 DEF PairRight, OneAnswer
    <2>2. CASE read = 1
      <3>1. /\ \A i \in 1..Len(w2) : w2[i] = w[i + 1] /\ i + 1 \in 1..Len(w) /\ i + 1 # 1
            /\ 1 \in 1..Len(w) /\ Len(w2) \in Nat
        BY <2>2, <1>1
      <3>2. \A i \in 1..Len(w) : w[i].type \in Answers => f.list = "none" \/ f.their = w[i].type
        BY DEF PairRight, OneAnswer
      <3>3. e.our \in Answers => (f.list = "none" \/ f.their = e.our) /\ \A i \in 1..Len(w) : w[i].type \notin Answers
        BY DEF PairRight, OneAnswer
      <3>4. \A i, j \in 1..Len(w) : w[i].type \in Answers /\ w[j].type \in Answers => i = j
        BY DEF PairRight, OneAnswer
      <3>5. e2.our \in Answers => f.list = "none" \/ f.their = e2.our
        BY <3>1, <3>2, <3>3
      <3>6. e2.our \in Answers => \A i \in 1..Len(w2) : w2[i].type \notin Answers
        BY <3>1, <3>3, <3>4
      <3>7. \A i \in 1..Len(w2) : w2[i].type \in Answers => f.list = "none" \/ f.their = w2[i].type
        BY <3>1, <3>2
      <3>8. ASSUME NEW i \in 1..Len(w2), NEW j \in 1..Len(w2), w2[i].type \in Answers, w2[j].type \in Answers
            PROVE  i = j
        <4>1. i + 1 = j + 1
          BY <3>1, <3>4, <3>8
        <4> QED BY <4>1
      <3> QED BY <3>5, <3>6, <3>7, <3>8 DEF OneAnswer
    <2> QED BY <2>1, <2>2
  <1>4. AddressesLast(e2, f, w2)
    BY <1>1 DEF PairRight, AddressesLast, OneAnswer
  <1> QED BY <1>2, <1>3, <1>4 DEF PairRight, w2

\* It sends its hello first, an answer as it decides, a request when it was answered
\* and addresses when it was asked.
SendFits(e, f, e2, out) ==
    /\ \/ /\ ~e.hello /\ e2.hello /\ e2.their = e.their
          /\ Len(out) = 1 /\ out[1].type = "hello"
       \/ /\ \A i \in 1..Len(out) : out[i].type # "hello"
          /\ e2.hello = e.hello
    /\ \A i \in 1..Len(out) : out[i].type \in Answers => e2.their = out[i].type /\ e.their \notin Answers
    /\ \A i, j \in 1..Len(out) : out[i].type \in Answers /\ out[j].type \in Answers => i = j
    /\ e.their \in Answers => e2.their = e.their
    /\ \A i \in 1..Len(out) : out[i].type = "request" => e2.our \in Answers
    /\ e.our \in Answers => e2.our \in Answers
    /\ \A i \in 1..Len(out) : out[i].type = "addresses" => f.list = "none" \/ f.our \in Answers

\* The end e becomes e2 and may send something to the end f.
LEMMA SendKeeps ==
  ASSUME NEW e \in EndRecord, NEW f \in EndRecord, NEW v \in Seq(Messages), NEW e2 \in EndRecord,
         NEW out \in Seq(Messages), NEW v2, v2 = v \/ v2 = v \o out, PairRight(f, e, v),
         e.list # "none",
         SendFits(e, f, e2, out)
  PROVE  PairRight(f, e2, v2)
  <1>. /\ \/ /\ ~e.hello /\ e2.hello /\ Len(out) = 1 /\ out[1].type = "hello"
          \/ /\ \A i \in 1..Len(out) : out[i].type # "hello"
             /\ e2.hello = e.hello
       /\ \A i \in 1..Len(out) : out[i].type \in Answers => e2.their = out[i].type /\ e.their \notin Answers
       /\ \A i, j \in 1..Len(out) : out[i].type \in Answers /\ out[j].type \in Answers => i = j
       /\ e.their \in Answers => e2.their = e.their
       /\ \A i \in 1..Len(out) : out[i].type = "request" => e2.our \in Answers
       /\ e.our \in Answers => e2.our \in Answers
       /\ \A i \in 1..Len(out) : out[i].type = "addresses" => f.list = "none" \/ f.our \in Answers
    BY DEF SendFits
  <1>1. CASE v2 = v
    BY <1>1 DEF PairRight, HelloOnce, OneAnswer, AddressesLast
  <1>2. CASE v2 = v \o out
    <2>1. /\ Len(v2) = Len(v) + Len(out) /\ Len(v) \in Nat /\ Len(out) \in Nat
          /\ \A i \in 1..Len(v2) : \/ i \in 1..Len(v) /\ v2[i] = v[i]
                                   \/ i > Len(v) /\ i - Len(v) \in 1..Len(out) /\ v2[i] = out[i - Len(v)]
          /\ \A i \in 1..Len(v) : i \in 1..Len(v2) /\ v2[i] = v[i]
      BY <1>2
    <2>2. HelloOnce(f, e2, v2)
      <3>1. CASE /\ ~e.hello /\ e2.hello /\ Len(out) = 1 /\ out[1].type = "hello"
        <4>1. ~f.id /\ \A i \in 1..Len(v) : v[i].type # "hello"
          BY <3>1 DEF PairRight, HelloOnce
        <4>2. \A i \in 1..Len(v2) : v2[i].type = "hello" => i = Len(v) + 1
          BY <3>1, <4>1, <2>1
        <4> QED BY <3>1, <4>1, <4>2 DEF HelloOnce
      <3>2. CASE (\A i \in 1..Len(out) : out[i].type # "hello") /\ e2.hello = e.hello
        <4>1. \A i \in 1..Len(v2) : v2[i].type = "hello" => i \in 1..Len(v) /\ v[i].type = "hello"
          BY <3>2, <2>1
        <4> QED BY <3>2, <4>1 DEF PairRight, HelloOnce
      <3> QED BY <3>1, <3>2
    <2>3. OneAnswer(f, e2, v2)
      <3>1. \A i \in 1..Len(out) : out[i].type \in Answers =>
               f.our \notin Answers /\ \A j \in 1..Len(v) : v[j].type \notin Answers
        BY DEF PairRight, OneAnswer
      <3>2. \A i \in 1..Len(v2) : v2[i].type \in Answers => e2.list = "none" \/ e2.their = v2[i].type
        <4> SUFFICES ASSUME NEW i \in 1..Len(v2), v2[i].type \in Answers
                     PROVE  e2.list = "none" \/ e2.their = v2[i].type
          OBVIOUS
        <4>1. CASE i \in 1..Len(v) /\ v2[i] = v[i]
          BY <4>1 DEF PairRight, OneAnswer
        <4>2. CASE i > Len(v) /\ i - Len(v) \in 1..Len(out) /\ v2[i] = out[i - Len(v)]
          BY <4>2
        <4> QED BY <4>1, <4>2, <2>1
      <3>3. f.our \in Answers => e2.list = "none" \/ e2.their = f.our
        BY DEF PairRight, OneAnswer
      <3>4. f.our \in Answers => \A i \in 1..Len(v2) : v2[i].type \notin Answers
        BY <2>1, <3>1 DEF PairRight, OneAnswer
      <3>5. \A i, j \in 1..Len(v2) : v2[i].type \in Answers /\ v2[j].type \in Answers => i = j
        <4> SUFFICES ASSUME NEW i \in 1..Len(v2), NEW j \in 1..Len(v2),
                            v2[i].type \in Answers, v2[j].type \in Answers
                     PROVE  i = j
          OBVIOUS
        <4>1. CASE i > Len(v) /\ j > Len(v)
          <5> DEFINE k == i - Len(v)
                     l == j - Len(v)
          <5>1. /\ k \in 1..Len(out) /\ l \in 1..Len(out) /\ v2[i] = out[k] /\ v2[j] = out[l]
                /\ i = Len(v) + k /\ j = Len(v) + l
            BY <4>1, <2>1
          <5> HIDE DEF k, l
          <5>2. k = l
            BY <5>1
          <5> QED BY <5>1, <5>2
        <4>2. CASE i \in 1..Len(v) /\ j \in 1..Len(v)
          BY <4>2, <2>1 DEF PairRight, OneAnswer
        <4>3. CASE (i > Len(v) /\ j \in 1..Len(v)) \/ (j > Len(v) /\ i \in 1..Len(v))
          <5>1. \A a \in 1..Len(v2), b \in 1..Len(v) :
                   a > Len(v) /\ v2[a].type \in Answers => v2[b].type \notin Answers
            <6> SUFFICES ASSUME NEW a \in 1..Len(v2), NEW b \in 1..Len(v), a > Len(v), v2[a].type \in Answers
                         PROVE  v2[b].type \notin Answers
              OBVIOUS
            <6>1. a - Len(v) \in 1..Len(out) /\ v2[a] = out[a - Len(v)]
              BY <2>1
            <6> QED BY <6>1, <2>1, <3>1
          <5> QED BY <4>3, <5>1
        <4> QED BY <4>1, <4>2, <4>3, <2>1
      <3> QED BY <3>2, <3>3, <3>4, <3>5 DEF OneAnswer
    <2>4. AddressesLast(f, e2, v2)
      BY <2>1 DEF PairRight, AddressesLast
    <2> QED BY <2>2, <2>3, <2>4 DEF PairRight
  <1> QED BY <1>1, <1>2

----------------------------------------------------------------------------
(* Ends and nodes. *)

LEMMA EndFacts ==
  ASSUME NEW x \in Ends
  PROVE  /\ x[1] \in Conns /\ x[2] \in Sides /\ x = <<x[1], x[2]>> /\ Other(x[2]) \in Sides
         /\ Other(x[2]) # x[2]
         /\ NodeOf(x) \in Nodes /\ PeerOf(x) \in Nodes /\ x \in EndsAt[NodeOf(x)]
         /\ x[2] = 1 => PeerOf(x) \notin Firewalled
  <1>1. x[1] \in Conns /\ x[2] \in Sides /\ x = <<x[1], x[2]>>
    BY DEF Ends
  <1>2. PICK r \in Routes, k \in 1..MaxDials : x[1] = <<r[1], r[2], k>>
    BY <1>1 DEF Conns
  <1>3. r[1] \in Nodes /\ r[2] \in Nodes /\ r[2] \notin Firewalled
    BY ConnectionsAssumption
  <1>4. Other(x[2]) \in Sides /\ Other(x[2]) # x[2] /\ (x[2] = 1 => Other(x[2]) = 2) /\ (x[2] = 2 => Other(x[2]) = 1)
    BY <1>1 DEF Other, Sides
  <1>5. x[1][1] = r[1] /\ x[1][2] = r[2]
    BY <1>2
  <1>6. NodeOf(x) \in Nodes /\ PeerOf(x) \in Nodes /\ (x[2] = 1 => PeerOf(x) \notin Firewalled)
    BY <1>1, <1>3, <1>4, <1>5 DEF NodeOf, PeerOf, Sides
  <1>7. x \in EndsAt[NodeOf(x)]
    BY <1>6 DEF EndsAt, NodeOf
  <1> QED BY <1>1, <1>4, <1>6, <1>7

LEMMA EndsFinite == IsFiniteSet(Ends) /\ \A n \in Nodes : EndsAt[n] \subseteq Ends /\ IsFiniteSet(EndsAt[n])
  <1>1. IsFiniteSet(Routes)
    BY ConnectionsAssumption, FS_Product, FS_Subset
  <1>2. IsFiniteSet(1..MaxDials)
    BY ConnectionsAssumption, FS_Interval
  <1> DEFINE S == Routes \X (1..MaxDials)
             f == [p \in S |-> <<p[1][1], p[1][2], p[2]>>]
  <1>3. IsFiniteSet(S)
    BY <1>1, <1>2, FS_Product
  <1>4. f \in Surjection(S, Conns)
    <2>1. \A p \in S : f[p] \in Conns
      BY DEF Conns
    <2>2. \A c \in Conns : \E p \in S : f[p] = c
      <3> TAKE c \in Conns
      <3>1. PICK r \in Routes, k \in 1..MaxDials : c = <<r[1], r[2], k>>
        BY DEF Conns
      <3>2. <<r, k>> \in S /\ f[<<r, k>>] = c
        BY <3>1
      <3> QED BY <3>2
    <2> HIDE DEF S
    <2>3. f \in [S -> Conns]
      BY <2>1
    <2> HIDE DEF f
    <2> QED BY <2>2, <2>3 DEF Surjection
  <1>5. IsFiniteSet(Conns)
    BY <1>3, <1>4, FS_Surjection
  <1>6. IsFiniteSet(Sides)
    <2>1. Sides = {1} \cup {2}
      BY DEF Sides
    <2> QED BY <2>1, FS_Singleton, FS_Union
  <1>7. IsFiniteSet(Ends)
    BY <1>5, <1>6, FS_Product DEF Ends
  <1>8. \A n \in Nodes : EndsAt[n] \subseteq Ends
    BY DEF EndsAt
  <1> QED BY <1>7, <1>8, FS_Subset

\* Only one end changes, and it becomes accepted only when there is room and no other.
LEMMA TakenKeeps ==
  ASSUME ConnInv, NEW x \in Ends, ends' \in [Conns -> [Sides -> EndRecord]],
         \A y \in Ends : y # x => ends'[y[1]][y[2]] = ends[y[1]][y[2]],
         LET e2 == ends'[x[1]][x[2]]
         IN  e2.list \in {"handshaking", "active"} /\ e2.their = "accepted" =>
                /\ End(x).list \in {"handshaking", "active"}
                /\ \/ End(x).their = "accepted"
                   \/ /\ ~is_already_connected_to_id(NodeOf(x), PeerOf(x))
                      /\ is_accepting_new_connections(NodeOf(x))
  PROVE  OneTaken' /\ TakenWithin'
  <1>t. ConnTypes /\ OneTaken /\ TakenWithin /\ \A c \in Conns : ConnRight(c)
    BY DEF ConnInv
  <1>1. \A n \in Nodes : EndsAt[n] \subseteq Ends /\ EndsAt[n]' = EndsAt[n] /\ \A y \in EndsAt[n] : NodeOf(y) = n
    BY DEF EndsAt, NodeOf
  <1>2. \A y \in Ends : y # x => End(y)' = End(y)
    BY DEF End
  <1>3. \A n \in Nodes : \A y \in Taken(n)' : y \in Taken(n) \/ (y = x /\ n = NodeOf(x) /\ x \in ListedAt(n) /\ x \notin Taken(n))
    BY <1>1, <1>2 DEF Taken, ListedAt, End
  <1>4. \A y \in Ends : End(y).their = "accepted" => End(y).id
    <2> TAKE y \in Ends
    <2>1. y[1] \in Conns /\ y[2] \in {1, 2} /\ ConnRight(y[1])
      BY EndFacts, <1>t DEF Sides
    <2> QED BY <2>1 DEF ConnRight, EndRight, Answers, End
  <1>5. ASSUME NEW n \in Nodes, x \in Taken(n)', x \notin Taken(n)
        PROVE  /\ n = NodeOf(x) /\ x \in ListedAt(n)
               /\ \A y \in Taken(n) : PeerOf(y) # PeerOf(x)
               /\ Cardinality(ListedAt(n)) <= Maximum[n]
    <2>1. n = NodeOf(x) /\ x \in ListedAt(n)
      BY <1>3, <1>5
    <2>2. ~is_already_connected_to_id(n, PeerOf(x)) /\ is_accepting_new_connections(n)
      BY <1>5, <2>1 DEF Taken, ListedAt, End
    <2>3. \A y \in Taken(n) : y \in ListedAt(n) /\ End(y).id
      BY <1>1, <1>4 DEF Taken, ListedAt
    <2> QED BY <2>1, <2>2, <2>3 DEF is_already_connected_to_id, is_accepting_new_connections, get_number_of_connections
  <1>6. OneTaken'
    <2> SUFFICES ASSUME NEW n \in Nodes, NEW y \in Taken(n)', NEW z \in Taken(n)', PeerOf(y) = PeerOf(z)
                 PROVE  y = z
      BY DEF OneTaken, PeerOf
    <2> QED BY <1>3, <1>5, <1>t DEF OneTaken
  <1>7. TakenWithin'
    <2> SUFFICES ASSUME NEW n \in Nodes PROVE Cardinality(Taken(n)') <= Maximum[n]
      BY DEF TakenWithin
    <2>1. ListedAt(n) \subseteq EndsAt[n] /\ IsFiniteSet(ListedAt(n)) /\ Taken(n) \subseteq ListedAt(n)
      BY EndsFinite, FS_Subset DEF ListedAt, Taken
    <2>2. CASE Taken(n)' \subseteq Taken(n)
      <3>1. Cardinality(Taken(n)') <= Cardinality(Taken(n)) /\ Cardinality(Taken(n)) <= Maximum[n]
        BY <2>1, <2>2, <1>t, FS_Subset DEF TakenWithin
      <3>2. Cardinality(Taken(n)') \in Nat /\ Cardinality(Taken(n)) \in Nat
        BY <2>1, <2>2, FS_Subset, FS_CardinalityType
      <3> QED BY <3>1, <3>2, ConnectionsAssumption
    <2>3. CASE x \in Taken(n)' /\ x \notin Taken(n)
      <3>1. Taken(n)' \subseteq ListedAt(n) /\ Cardinality(ListedAt(n)) <= Maximum[n]
        BY <2>1, <2>3, <1>3, <1>5
      <3>2. Cardinality(Taken(n)') <= Cardinality(ListedAt(n))
        BY <2>1, <3>1, FS_Subset
      <3>3. Cardinality(Taken(n)') \in Nat /\ Cardinality(ListedAt(n)) \in Nat
        BY <2>1, <3>1, FS_Subset, FS_CardinalityType
      <3> QED BY <3>1, <3>2, <3>3, ConnectionsAssumption
    <2> QED BY <2>2, <2>3, <1>3
  <1> QED BY <1>6, <1>7

----------------------------------------------------------------------------
(* The change of one end (Becomes), with what it reads and sends. *)

\* The end reads what it may, and knows who is there from the hello on.
ReadFits(e, w, e2, read) ==
    /\ read <= Len(w)
    /\ ~e2.shut => ~e.shut
    /\ read = 1 => ~e.shut
    /\ e2.id <=> e.id \/ (read = 1 /\ w[1].type = "hello")
    /\ \/ e2.our = e.our
       \/ e.our \notin Answers /\ e2.our \notin Answers
       \/ read = 1 /\ w[1].type \in Answers /\ e2.our = w[1].type

TakenFits(x, e2) ==
    e2.list \in {"handshaking", "active"} /\ e2.their = "accepted" =>
        /\ End(x).list \in {"handshaking", "active"}
        /\ \/ End(x).their = "accepted"
           \/ /\ ~is_already_connected_to_id(NodeOf(x), PeerOf(x))
              /\ is_accepting_new_connections(NodeOf(x))

OtherEnd(x) == ends[x[1]][Other(x[2])]

LEMMA BecomesEffect ==
  ASSUME ConnTypes, NEW x \in Ends, NEW e2 \in EndRecord, NEW read \in {0, 1}, NEW out \in Seq(Messages),
         Becomes(x, e2, read, out), read <= Len(wire[x[1]][x[2]])
  PROVE  LET c == x[1]
             s == x[2]
             o == Other(x[2])
         IN  /\ ends' \in [Conns -> [Sides -> EndRecord]]
             /\ wire' \in [Conns -> [Sides -> Seq(Messages)]]
             /\ socket' \in [Conns -> {"none", "dialled", "open", "closed"}]
             /\ ends'[c][s] = e2 /\ ends'[c][o] = ends[c][o]
             /\ wire'[c][s] = SubSeq(wire[c][s], read + 1, Len(wire[c][s]))
             /\ \/ wire'[c][o] = wire[c][o] \o out
                \/ socket[c] # "open" /\ wire'[c][o] = wire[c][o]
             /\ socket'[c] = IF e2.shut THEN "closed" ELSE socket[c]
             /\ \A d \in Conns : d # c => ends'[d] = ends[d] /\ wire'[d] = wire[d] /\ socket'[d] = socket[d]
  <1> DEFINE c == x[1]
             s == x[2]
             o == Other(x[2])
             w2 == SubSeq(wire[c][s], read + 1, Len(wire[c][s]))
             v2 == IF socket[c] = "open" THEN wire[c][o] \o out ELSE wire[c][o]
  <1>1. c \in Conns /\ s \in Sides /\ o \in Sides /\ s # o
    BY EndFacts
  <1>2. /\ ends' = [ends EXCEPT ![c][s] = e2]
        /\ wire' = [wire EXCEPT ![c][s] = SubSeq(@, read + 1, Len(@)),
                                ![c][o] = IF socket[c] = "open" THEN @ \o out ELSE @]
        /\ socket' = [socket EXCEPT ![c] = IF e2.shut THEN "closed" ELSE @]
    BY DEF Becomes
  <1> HIDE DEF c, s, o
  <1>3. wire[c][s] \in Seq(Messages) /\ wire[c][o] \in Seq(Messages)
    BY <1>1 DEF ConnTypes
  <1>4. w2 \in Seq(Messages) /\ v2 \in Seq(Messages)
    BY <1>3
  <1>5. /\ wire'[c][s] = w2 /\ wire'[c][o] = v2
        /\ \A d \in Conns : d # c => wire'[d] = wire[d]
        /\ \A t \in Sides : t = s \/ t = o \/ wire'[c][t] = wire[c][t]
    BY <1>1, <1>2 DEF ConnTypes
  <1>6. wire' \in [Conns -> [Sides -> Seq(Messages)]]
    BY <1>1, <1>2, <1>4 DEF ConnTypes
  <1>7. /\ ends' \in [Conns -> [Sides -> EndRecord]]
        /\ ends'[c][s] = e2 /\ ends'[c][o] = ends[c][o]
        /\ \A d \in Conns : d # c => ends'[d] = ends[d]
    BY <1>1, <1>2 DEF ConnTypes
  <1>8. /\ socket' \in [Conns -> {"none", "dialled", "open", "closed"}]
        /\ socket'[c] = IF e2.shut THEN "closed" ELSE socket[c]
        /\ \A d \in Conns : d # c => socket'[d] = socket[d]
    BY <1>1, <1>2 DEF ConnTypes
  <1> QED BY <1>5, <1>6, <1>7, <1>8 DEF c, s, o

WorldType ==
    [known : [Nodes -> SUBSET Reachable], bound : BOOLEAN, once : SUBSET Routes,
     dials : [Routes -> 0..MaxDials], faults : Int, requests : Int]

LEMMA DialsKeep ==
  ASSUME ConnInv, world'.dials = world.dials,
         \A d \in Conns : socket[d] = "none" => socket'[d] = "none"
  PROVE  DialsLeft'
  <1>t. ConnTypes /\ DialsLeft
    BY DEF ConnInv
  <1>1. \A r \in Routes : \A k \in 1..world.dials[r] : <<r[1], r[2], k>> \in Conns
    <2> TAKE r \in Routes
    <2>1. world.dials[r] \in 0..MaxDials /\ MaxDials \in Nat
      BY <1>t, ConnectionsAssumption DEF ConnTypes
    <2> TAKE k \in 1..world.dials[r]
    <2>2. k \in 1..MaxDials
      BY <2>1
    <2> QED BY <2>2 DEF Conns
  <1> QED BY <1>1, <1>t DEF DialsLeft

LEMMA BecomesInv ==
  ASSUME ConnInv, NEW x \in Ends, NEW e2 \in EndRecord, NEW read \in {0, 1}, NEW out \in Seq(Messages),
         Becomes(x, e2, read, out),
         known' \in [Nodes -> SUBSET Reachable], world' \in WorldType, world'.dials = world.dials,
         End(x).list # "none", EndRight(x, e2), socket[x[1]] = "dialled" => e2.shut,
         ReadFits(End(x), wire[x[1]][x[2]], e2, read),
         SendFits(End(x), OtherEnd(x), e2, out),
         TakenFits(x, e2)
  PROVE  ConnInv'
  <1> DEFINE c == x[1]
             s == x[2]
             o == Other(x[2])
  <1>t. ConnTypes /\ (\A d \in Conns : ConnRight(d)) /\ DialsLeft
    BY DEF ConnInv
  <1>1. c \in Conns /\ s \in Sides /\ o \in Sides /\ ((s = 1 /\ o = 2) \/ (s = 2 /\ o = 1)) /\ x = <<c, s>>
    BY EndFacts DEF Sides, Other
  <1>2. /\ ends' \in [Conns -> [Sides -> EndRecord]]
        /\ wire' \in [Conns -> [Sides -> Seq(Messages)]]
        /\ socket' \in [Conns -> {"none", "dialled", "open", "closed"}]
        /\ ends'[c][s] = e2 /\ ends'[c][o] = ends[c][o]
        /\ wire'[c][s] = SubSeq(wire[c][s], read + 1, Len(wire[c][s]))
        /\ \/ wire'[c][o] = wire[c][o] \o out
           \/ socket[c] # "open" /\ wire'[c][o] = wire[c][o]
        /\ socket'[c] = IF e2.shut THEN "closed" ELSE socket[c]
        /\ \A d \in Conns : d # c => ends'[d] = ends[d] /\ wire'[d] = wire[d] /\ socket'[d] = socket[d]
    BY <1>t, BecomesEffect DEF ReadFits
  <1>3. ConnTypes'
    BY <1>2 DEF ConnTypes, WorldType
  <1> HIDE DEF c, s, o
  <1>4. /\ End(x) = ends[c][s] /\ OtherEnd(x) = ends[c][o]
        /\ ends[c][s] \in EndRecord /\ ends[c][o] \in EndRecord
        /\ wire[c][s] \in Seq(Messages) /\ wire[c][o] \in Seq(Messages)
    BY <1>1, <1>t DEF ConnTypes, End, OtherEnd, c, s, o
  <1>5. /\ PairRight(ends[c][s], ends[c][o], wire[c][s]) /\ PairRight(ends[c][o], ends[c][s], wire[c][o])
        /\ EndRight(<<c, o>>, ends[c][o])
    BY <1>1, <1>t DEF ConnRight
  <1>6. PairRight(e2, ends[c][o], wire'[c][s])
    <2>1. ReadFits(ends[c][s], wire[c][s], e2, read) /\ ends[c][s].list # "none"
      BY <1>4 DEF c, s
    <2> QED BY <1>2, <1>4, <1>5, <2>1, ReadKeeps DEF ReadFits
  <1>7. PairRight(ends[c][o], e2, wire'[c][o])
    <2>1. SendFits(ends[c][s], ends[c][o], e2, out) /\ ends[c][s].list # "none"
      BY <1>4 DEF c
    <2>2. wire'[c][o] = wire[c][o] \/ wire'[c][o] = wire[c][o] \o out
      BY <1>2
    <2> DEFINE v2 == wire'[c][o]
               e == ends[c][s]
               f == ends[c][o]
               v == wire[c][o]
    <2>3. /\ e \in EndRecord /\ f \in EndRecord /\ v \in Seq(Messages) /\ e.list # "none"
          /\ (v2 = v \/ v2 = v \o out) /\ PairRight(f, e, v) /\ SendFits(e, f, e2, out)
      BY <1>4, <1>5, <2>1, <2>2
    <2> HIDE DEF v2, e, f, v
    <2>4. PairRight(f, e2, v2)
      BY <2>3, SendKeeps
    <2> QED BY <2>4 DEF v2, f
  <1>a. AcceptsFit(<<c, s>>, wire'[c][s]) /\ AcceptsFit(<<c, o>>, wire'[c][o])
    <2>1. AcceptsFit(<<c, s>>, wire[c][s]) /\ AcceptsFit(<<c, o>>, wire[c][o])
      BY <1>1, <1>t DEF ConnRight
    <2>2. AcceptsFit(<<c, s>>, wire'[c][s])
      <3> DEFINE w == wire[c][s]
                 w2 == SubSeq(w, read + 1, Len(w))
      <3>1. w \in Seq(Messages) /\ read <= Len(w) /\ wire'[c][s] = w2
        BY <1>2, <1>4 DEF ReadFits, c, s
      <3> HIDE DEF w
      <3>2. \A i \in 1..Len(w2) : w2[i] = w[i + read] /\ i + read \in 1..Len(w)
        BY <3>1, TailParts
      <3>3. \A i \in 1..Len(w) : w[i].type = "accepted" =>
               ChainOf[PeerOf(<<c, s>>)] = ChainOf[NodeOf(<<c, s>>)] /\ PeerOf(<<c, s>>) # NodeOf(<<c, s>>)
        BY <2>1 DEF AcceptsFit, w
      <3> HIDE DEF w2
      <3>4. \A i \in 1..Len(w2) : w2[i].type = "accepted" =>
               ChainOf[PeerOf(<<c, s>>)] = ChainOf[NodeOf(<<c, s>>)] /\ PeerOf(<<c, s>>) # NodeOf(<<c, s>>)
        BY <3>2, <3>3
      <3> QED BY <3>1, <3>4 DEF AcceptsFit
    <2>3. /\ PeerOf(<<c, o>>) = NodeOf(x) /\ NodeOf(<<c, o>>) = PeerOf(x)
      BY <1>1 DEF PeerOf, NodeOf, Other
    <2>4. \A i \in 1..Len(out) : out[i].type = "accepted" =>
             ChainOf[PeerOf(x)] = ChainOf[NodeOf(x)] /\ PeerOf(x) # NodeOf(x)
      BY DEF SendFits, EndRight, Answers
    <2>5. AcceptsFit(<<c, o>>, wire'[c][o])
      <3>1. CASE wire'[c][o] = wire[c][o]
        BY <2>1, <3>1
      <3>2. CASE wire'[c][o] = wire[c][o] \o out
        <4> DEFINE v == wire[c][o]
                   v2 == v \o out
        <4>1. v \in Seq(Messages)
          BY <1>4
        <4>2. \A i \in 1..Len(v) : v[i].type = "accepted" =>
                 ChainOf[PeerOf(<<c, o>>)] = ChainOf[NodeOf(<<c, o>>)] /\ PeerOf(<<c, o>>) # NodeOf(<<c, o>>)
          BY <2>1 DEF AcceptsFit
        <4> HIDE DEF v
        <4>3. \A i \in 1..Len(v2) : \/ i \in 1..Len(v) /\ v2[i] = v[i]
                                    \/ i - Len(v) \in 1..Len(out) /\ v2[i] = out[i - Len(v)]
          BY <4>1
        <4>4. wire'[c][o] = v2
          BY <3>2 DEF v
        <4> HIDE DEF v2
        <4>5. \A i \in 1..Len(v2) : v2[i].type = "accepted" =>
                 ChainOf[PeerOf(<<c, o>>)] = ChainOf[NodeOf(<<c, o>>)] /\ PeerOf(<<c, o>>) # NodeOf(<<c, o>>)
          BY <4>2, <4>3, <2>3, <2>4
        <4> QED BY <4>4, <4>5 DEF AcceptsFit
      <3> QED BY <1>2, <3>1, <3>2
    <2> QED BY <2>2, <2>5
  <1>8. socket[c] # "none" /\ (socket[c] = "dialled" => socket'[c] = "closed")
    <2>1. ends[c][s].list # "none" /\ NoEnd.list = "none"
      BY <1>4 DEF NoEnd
    <2>2. ConnRight(c)
      BY <1>1, <1>t
    <2> QED BY <1>1, <1>2, <2>1, <2>2 DEF ConnRight, c
  <1>9. ConnRight(c)'
    <2>1. socket'[c] \in {"open", "closed"}
      BY <1>1, <1>2, <1>8
    <2>2. EndRight(<<c, s>>, ends'[c][s]) /\ EndRight(<<c, o>>, ends'[c][o])
      BY <1>1, <1>2, <1>5
    <2>3. PairRight(ends'[c][s], ends'[c][o], wire'[c][s]) /\ PairRight(ends'[c][o], ends'[c][s], wire'[c][o])
      BY <1>2, <1>6, <1>7
    <2>4. /\ EndRight(<<c, 1>>, ends'[c][1]) /\ EndRight(<<c, 2>>, ends'[c][2])
          /\ AcceptsFit(<<c, 1>>, wire'[c][1]) /\ AcceptsFit(<<c, 2>>, wire'[c][2])
          /\ PairRight(ends'[c][1], ends'[c][2], wire'[c][1]) /\ PairRight(ends'[c][2], ends'[c][1], wire'[c][2])
      BY <1>1, <1>a, <2>2, <2>3
    <2> QED BY <2>1, <2>4 DEF ConnRight, EndRight, AcceptsFit, PeerOf, NodeOf, Other, c
  <1>10. \A d \in Conns : ConnRight(d)'
    <2> SUFFICES ASSUME NEW d \in Conns, d # c PROVE ConnRight(d)'
      BY <1>9
    <2>1. ends'[d] = ends[d] /\ wire'[d] = wire[d] /\ socket'[d] = socket[d] /\ ConnRight(d)
      BY <1>2, <1>t
    <2> QED BY <2>1 DEF ConnRight, EndRight, AcceptsFit, PeerOf, NodeOf, Other
  <1>11. DialsLeft'
    <2>1. \A d \in Conns : socket[d] = "none" => socket'[d] = "none"
      BY <1>2, <1>8
    <2> QED BY <2>1, DialsKeep
  <1>12. OneTaken' /\ TakenWithin'
    <2>1. \A y \in Ends : y # x => ends'[y[1]][y[2]] = ends[y[1]][y[2]]
      <3> TAKE y \in Ends
      <3>1. y[1] \in Conns /\ y[2] \in {1, 2} /\ y = <<y[1], y[2]>>
        BY EndFacts DEF Sides
      <3> QED BY <3>1, <1>1, <1>2
    <2>2. ends'[x[1]][x[2]] = e2
      BY <1>2 DEF c, s
    <2> QED BY <1>2, <2>1, <2>2, TakenKeeps DEF TakenFits
  <1> QED BY <1>3, <1>10, <1>11, <1>12 DEF ConnInv

----------------------------------------------------------------------------
(* The handlers. *)

LEMMA EndOfInv ==
  ASSUME ConnInv, NEW x \in Ends
  PROVE  /\ End(x) \in EndRecord /\ OtherEnd(x) \in EndRecord /\ EndRight(x, End(x))
         /\ wire[x[1]][x[2]] \in Seq(Messages)
         /\ PairRight(End(x), OtherEnd(x), wire[x[1]][x[2]]) /\ AcceptsFit(x, wire[x[1]][x[2]])
         /\ End(x).our # "disconnected" => socket[x[1]] # "dialled"
  <1>1. x[1] \in Conns /\ x = <<x[1], x[2]>> /\ ((x[2] = 1 /\ Other(x[2]) = 2) \/ (x[2] = 2 /\ Other(x[2]) = 1))
    BY EndFacts DEF Sides, Other
  <1>2. ConnTypes /\ ConnRight(x[1])
    BY <1>1 DEF ConnInv
  <1>3. /\ End(x) \in EndRecord /\ OtherEnd(x) \in EndRecord /\ wire[x[1]][x[2]] \in Seq(Messages)
    BY <1>1, <1>2 DEF ConnTypes, End, OtherEnd, Sides
  <1>4. /\ EndRight(x, End(x)) /\ PairRight(End(x), OtherEnd(x), wire[x[1]][x[2]])
        /\ AcceptsFit(x, wire[x[1]][x[2]])
    BY <1>1, <1>2 DEF ConnRight, End, OtherEnd
  <1>5. End(x).our # "disconnected" => socket[x[1]] # "dialled"
    BY <1>1, <1>2 DEF ConnRight, End, NoEnd
  <1> QED BY <1>3, <1>4, <1>5

LEMMA ReadsFacts ==
  ASSUME ConnInv, NEW x \in Ends, NEW type, Reads(x, type)
  PROVE  LET w == wire[x[1]][x[2]]
             e == End(x)
         IN  /\ e.list # "none" /\ e.our # "disconnected" /\ ~e.shut
             /\ 1 <= Len(w) /\ w[1].type = type /\ Message(x) = w[1] /\ w[1] \in Messages
             /\ type = "hello" => ~e.id
             /\ type = "accepted" => ChainOf[PeerOf(x)] = ChainOf[NodeOf(x)] /\ PeerOf(x) # NodeOf(x)
             /\ type = "addresses" => e.our \in Answers
             /\ type = "request" => OtherEnd(x).list = "none" \/ OtherEnd(x).our \in Answers
             /\ type \in Answers => e.our \notin Answers
  <1> DEFINE w == wire[x[1]][x[2]]
             e == End(x)
  <1>1. w \in Seq(Messages) /\ PairRight(e, OtherEnd(x), w) /\ AcceptsFit(x, w)
    BY EndOfInv
  <1>2. e.list # "none" /\ e.our # "disconnected" /\ ~e.shut /\ w # <<>> /\ Head(w).type = type /\ Message(x) = Head(w)
    BY DEF Reads, Message
  <1> HIDE DEF w, e
  <1>3. 1 \in 1..Len(w) /\ 1 <= Len(w) /\ w[1] = Head(w) /\ w[1] \in Messages
    BY <1>1, <1>2
  <1>4. /\ type = "hello" => ~e.id
        /\ type = "accepted" => ChainOf[PeerOf(x)] = ChainOf[NodeOf(x)] /\ PeerOf(x) # NodeOf(x)
    BY <1>1, <1>2, <1>3 DEF PairRight, HelloOnce, AcceptsFit
  <1>5. /\ type = "addresses" => e.our \in Answers
        /\ type = "request" => OtherEnd(x).list = "none" \/ OtherEnd(x).our \in Answers
        /\ type \in Answers => e.our \notin Answers
    BY <1>1, <1>2, <1>3 DEF PairRight, AddressesLast, OneAnswer
  <1> QED BY <1>2, <1>3, <1>4, <1>5 DEF w, e

\* A step that leaves the handshake where it is.
LEMMA QuietInv ==
  ASSUME ConnInv, NEW x \in Ends, NEW e2 \in EndRecord, NEW read \in {0, 1}, NEW out \in Seq(Messages),
         Becomes(x, e2, read, out),
         known' \in [Nodes -> SUBSET Reachable], world' \in WorldType, world'.dials = world.dials,
         End(x).list # "none",
         e2.our = End(x).our, e2.their = End(x).their, e2.id = End(x).id, e2.reachable = End(x).reachable,
         e2.hello = End(x).hello,
         e2.list # "none",
         e2.list \in {"handshaking", "active"} => End(x).list \in {"handshaking", "active"},
         e2.list = "handshaking" => End(x).list = "handshaking",
         e2.list = "active" => e2.our = "accepted",
         e2.our = "disconnected" => e2.list \in {"handshaking", "terminating"},
         End(x).shut => e2.shut, socket[x[1]] = "dialled" => e2.shut,
         read = 1 => ~End(x).shut /\ 1 <= Len(wire[x[1]][x[2]]) /\ wire[x[1]][x[2]][1].type # "hello",
         \A i \in 1..Len(out) :
            /\ out[i].type \in {"request", "addresses", "closing"} /\ e2.our # "disconnected"
            /\ out[i].type = "request" => e2.our \in Answers
            /\ out[i].type = "addresses" => OtherEnd(x).list = "none" \/ OtherEnd(x).our \in Answers
  PROVE  ConnInv'
  <1>1. End(x) \in EndRecord /\ EndRight(x, End(x)) /\ wire[x[1]][x[2]] \in Seq(Messages)
    BY EndOfInv
  <1>2. EndRight(x, e2)
    BY <1>1 DEF EndRight
  <1>3. ReadFits(End(x), wire[x[1]][x[2]], e2, read)
    BY <1>1 DEF ReadFits, EndRecord
  <1>4. SendFits(End(x), OtherEnd(x), e2, out)
    BY DEF SendFits, Answers
  <1>5. TakenFits(x, e2)
    BY DEF TakenFits
  <1> QED BY <1>2, <1>3, <1>4, <1>5, BecomesInv

\* The same where nothing is sent.
LEMMA SilentInv ==
  ASSUME ConnInv, NEW x \in Ends, NEW e2 \in EndRecord, NEW read \in {0, 1},
         Becomes(x, e2, read, <<>>),
         known' \in [Nodes -> SUBSET Reachable], world' \in WorldType, world'.dials = world.dials,
         End(x).list # "none",
         e2.our = End(x).our, e2.their = End(x).their, e2.id = End(x).id, e2.reachable = End(x).reachable,
         e2.hello = End(x).hello,
         e2.list # "none",
         e2.list \in {"handshaking", "active"} => End(x).list \in {"handshaking", "active"},
         e2.list = "handshaking" => End(x).list = "handshaking",
         e2.list = "active" => e2.our = "accepted",
         e2.our = "disconnected" => e2.list \in {"handshaking", "terminating"},
         End(x).shut => e2.shut, socket[x[1]] = "dialled" => e2.shut,
         read = 1 => ~End(x).shut /\ 1 <= Len(wire[x[1]][x[2]]) /\ wire[x[1]][x[2]][1].type # "hello"
  PROVE  ConnInv'
  <1> DEFINE out == <<>>
  <1>1. out \in Seq(Messages) /\ 1..Len(out) = {} /\ Becomes(x, e2, read, out)
    OBVIOUS
  <1> HIDE DEF out
  <1> QED BY <1>1, QuietInv

\* known and world where a step leaves them alone or counts something.
LEMMA WorldFacts ==
  ASSUME ConnInv
  PROVE  /\ known \in [Nodes -> SUBSET Reachable] /\ world \in WorldType
         /\ UNCHANGED known => known' \in [Nodes -> SUBSET Reachable]
         /\ UNCHANGED world \/ Fault => world' \in WorldType /\ world'.dials = world.dials
         /\ world' = [world EXCEPT !.requests = @ - 1] => world' \in WorldType /\ world'.dials = world.dials
  <1>1. known \in [Nodes -> SUBSET Reachable] /\ world \in WorldType
    BY DEF ConnInv, ConnTypes, WorldType
  <1>2. ASSUME NEW w \in WorldType
        PROVE  /\ [w EXCEPT !.faults = @ - 1] \in WorldType /\ [w EXCEPT !.faults = @ - 1].dials = w.dials
               /\ [w EXCEPT !.requests = @ - 1] \in WorldType /\ [w EXCEPT !.requests = @ - 1].dials = w.dials
    BY DEF WorldType
  <1> QED BY <1>1, <1>2 DEF Fault

LEMMA DisconnectFacts ==
  ASSUME NEW e \in EndRecord
  PROVE  /\ disconnect_from_peer(e) \in EndRecord
         /\ disconnect_from_peer(e).list = "closing"
         /\ disconnect_from_peer(e).our = e.our /\ disconnect_from_peer(e).their = e.their
         /\ disconnect_from_peer(e).id = e.id /\ disconnect_from_peer(e).reachable = e.reachable
         /\ disconnect_from_peer(e).hello = e.hello
         /\ e.shut => disconnect_from_peer(e).shut
         /\ Farewell(e) \in Seq(Messages) /\ Len(Farewell(e)) \in {0, 1}
         /\ \A i \in 1..Len(Farewell(e)) : Farewell(e)[i].type = "closing"
  <1>1. /\ disconnect_from_peer(e) \in EndRecord
        /\ disconnect_from_peer(e).list = "closing"
        /\ disconnect_from_peer(e).our = e.our /\ disconnect_from_peer(e).their = e.their
        /\ disconnect_from_peer(e).id = e.id /\ disconnect_from_peer(e).reachable = e.reachable
        /\ disconnect_from_peer(e).hello = e.hello
        /\ e.shut => disconnect_from_peer(e).shut
    BY DEF EndRecord, disconnect_from_peer, close_connection
  <1>2. [type |-> "closing"] \in Messages
    BY DEF Messages
  <1>3. /\ Farewell(e) \in Seq(Messages) /\ Len(Farewell(e)) \in {0, 1}
        /\ \A i \in 1..Len(Farewell(e)) : Farewell(e)[i].type = "closing"
    BY <1>2 DEF Farewell
  <1> QED BY <1>1, <1>3

LEMMA ConnectedInv ==
  ASSUME ConnInv, NEW x \in Ends, accept_or_connect(x)
  PROVE  ConnInv'
  <1> DEFINE e == End(x)
             e2 == [JustConnected(e) EXCEPT !.reachable = x[2] = 1]
             out == <<>>
  <1>1. e \in EndRecord /\ EndRight(x, e) /\ wire[x[1]][x[2]] \in Seq(Messages)
    BY EndOfInv
  <1>2. socket[x[1]] = "open" /\ e.list = "handshaking" /\ e.our = "disconnected" /\ Becomes(x, e2, 0, out)
    BY DEF accept_or_connect
  <1>3. out \in Seq(Messages) /\ Len(out) = 0 /\ 1..Len(out) = {}
    OBVIOUS
  <1>4. /\ e2 \in EndRecord /\ e2.our = "just_connected" /\ e2.their = "just_connected" /\ e2.hello = e.hello
        /\ e2.id = e.id /\ e2.list = "handshaking" /\ e2.shut = e.shut /\ (e2.reachable <=> x[2] = 1)
    BY <1>1, <1>2 DEF EndRecord, JustConnected
  <1> HIDE DEF e2, out
  <1>5. EndRight(x, e2)
    BY <1>1, <1>2, <1>4, EndFacts DEF EndRight, Answers
  <1>6. ReadFits(e, wire[x[1]][x[2]], e2, 0)
    BY <1>1, <1>2, <1>4 DEF ReadFits, Answers
  <1>7. SendFits(e, OtherEnd(x), e2, out)
    BY <1>1, <1>2, <1>3, <1>4 DEF SendFits, Answers, EndRight
  <1>8. TakenFits(x, e2)
    BY <1>4 DEF TakenFits
  <1>9. known' \in [Nodes -> SUBSET Reachable] /\ world' \in WorldType /\ world'.dials = world.dials
    BY WorldFacts DEF accept_or_connect
  <1> QED BY <1>2, <1>3, <1>4, <1>5, <1>6, <1>7, <1>8, <1>9, BecomesInv

LEMMA SendHelloInv ==
  ASSUME ConnInv, NEW x \in Ends, send_hello_message(x)
  PROVE  ConnInv'
  <1> DEFINE e == End(x)
             e2 == [e EXCEPT !.hello = TRUE]
             out == <<[type |-> "hello"]>>
  <1>1. e \in EndRecord /\ EndRight(x, e) /\ wire[x[1]][x[2]] \in Seq(Messages)
    BY EndOfInv
  <1>2. e.our # "disconnected" /\ ~e.hello /\ ~e.shut /\ Becomes(x, e2, 0, out)
    BY DEF send_hello_message
  <1>3. out \in Seq(Messages) /\ Len(out) = 1 /\ out[1].type = "hello"
    BY DEF Messages
  <1>4. /\ e2 \in EndRecord /\ e2.our = e.our /\ e2.their = e.their /\ e2.hello /\ e2.id = e.id
        /\ e2.list = e.list /\ e2.shut = e.shut /\ e2.reachable = e.reachable
    BY <1>1, <1>2 DEF EndRecord
  <1> HIDE DEF e2, out
  <1>5. EndRight(x, e2) /\ e.list # "none" /\ socket[x[1]] # "dialled"
    BY <1>1, <1>2, <1>4, EndOfInv DEF EndRight
  <1>6. ReadFits(e, wire[x[1]][x[2]], e2, 0)
    BY <1>1, <1>2, <1>4 DEF ReadFits, EndRecord
  <1>7. SendFits(e, OtherEnd(x), e2, out)
    <2>1. \A i \in 1..Len(out) : i = 1 /\ out[i].type = "hello"
      BY <1>3
    <2>2. \A i \in 1..Len(out) : out[i].type \notin Answers /\ out[i].type # "request" /\ out[i].type # "addresses"
      BY <2>1 DEF Answers
    <2> QED BY <1>2, <1>3, <1>4, <2>2 DEF SendFits
  <1>8. TakenFits(x, e2)
    BY <1>4 DEF TakenFits
  <1>9. known' \in [Nodes -> SUBSET Reachable] /\ world' \in WorldType /\ world'.dials = world.dials
    BY WorldFacts DEF send_hello_message
  <1> QED BY <1>2, <1>3, <1>4, <1>5, <1>6, <1>7, <1>8, <1>9, BecomesInv

LEMMA HelloInv ==
  ASSUME ConnInv, NEW x \in Ends, on_hello_message(x)
  PROVE  ConnInv'
  <1> DEFINE n == NodeOf(x)
             m == PeerOf(x)
             e0 == End(x)
             w == wire[x[1]][x[2]]
             e == [e0 EXCEPT !.id = TRUE]
             no == [e EXCEPT !.their = "rejected"]
             foreign == ChainOf[m] # ChainOf[n]
             already == is_already_connected_to_id(n, m)
             Self == IF m = n THEN "connected_to_self" ELSE "already_connected"
  <1>1. /\ e0 \in EndRecord /\ EndRight(x, e0) /\ w \in Seq(Messages) /\ socket[x[1]] # "dialled"
        /\ e0.list # "none" /\ e0.our # "disconnected" /\ ~e0.shut
        /\ 1 <= Len(w) /\ w[1].type = "hello" /\ ~e0.id
    BY EndOfInv, ReadsFacts DEF on_hello_message
  <1>2. n \in Nodes /\ m \in Nodes
    BY EndFacts
  <1>3. /\ known' \in [Nodes -> SUBSET Reachable] /\ world' \in WorldType /\ world'.dials = world.dials
    <2>1. known' = [known EXCEPT ![n] = IF foreign \/ already \/ ~NotFirewalled(m) THEN @ ELSE @ \cup {m}]
      BY DEF on_hello_message, NodeOf
    <2>2. ~NotFirewalled(m) \/ m \in Reachable
      BY <1>2 DEF NotFirewalled, Reachable
    <2>3. known' \in [Nodes -> SUBSET Reachable]
      BY <2>1, <2>2, WorldFacts
    <2> QED BY <2>3, WorldFacts DEF on_hello_message
  <1>4. /\ no \in EndRecord /\ no.id = TRUE /\ no.their = "rejected" /\ no.our = e0.our /\ no.list = e0.list
        /\ no.shut = e0.shut /\ no.reachable = e0.reachable /\ no.hello = e0.hello
    BY <1>1 DEF EndRecord, Answers
  <1>5. /\ \/ foreign /\ Becomes(x, disconnect_from_peer(no), 1, <<Rejected("different_chain")>> \o Farewell(no))
           \/ Becomes(x, no, 1, <<Rejected(Self)>>)
           \/ /\ ~foreign /\ ~already /\ is_accepting_new_connections(n)
              /\ Becomes(x, [e EXCEPT !.their = "accepted", !.reachable = NotFirewalled(m)], 1, <<[type |-> "accepted"]>>)
           \/ Becomes(x, [no EXCEPT !.reachable = NotFirewalled(m)], 1, <<Rejected("not_accepting_connections")>>)
    BY DEF on_hello_message, NodeOf
  <1> HIDE DEF e, no, foreign, already, n, m, w
  <1>6. ASSUME NEW e2 \in EndRecord, NEW out \in Seq(Messages), Becomes(x, e2, 1, out),
               e2.id = TRUE, e2.our = e0.our, e2.hello = e0.hello, e2.list \in {e0.list, "closing"},
               e2.reachable => m \notin Firewalled,
               Len(out) >= 1, out[1].type \in Answers, e2.their = out[1].type,
               \A i \in 1..Len(out) : i # 1 => out[i].type = "closing",
               e2.their = "accepted" => ~foreign /\ ~already /\ is_accepting_new_connections(n)
        PROVE  ConnInv'
    <2>1. EndRight(x, e2)
      BY <1>1, <1>6 DEF EndRight, is_already_connected_to_id, foreign, already, Answers, n, m
    <2>2. ReadFits(e0, w, e2, 1)
      BY <1>1, <1>6 DEF ReadFits
    <2>3. e0.their \notin Answers
      BY <1>1 DEF EndRight
    <2>4. SendFits(e0, OtherEnd(x), e2, out)
      BY <1>1, <1>6, <2>3 DEF SendFits, Answers
    <2>5. TakenFits(x, e2)
      BY <1>6 DEF TakenFits, already, n, m
    <2> QED BY <1>1, <1>3, <1>6, <2>1, <2>2, <2>4, <2>5, BecomesInv DEF w
  <1>7. \A reason \in Reasons : Rejected(reason) \in Messages /\ Rejected(reason).type = "rejected"
    BY DEF Rejected, Messages
  <1>8. CASE foreign /\ Becomes(x, disconnect_from_peer(no), 1, <<Rejected("different_chain")>> \o Farewell(no))
    <2> DEFINE e2 == disconnect_from_peer(no)
               out == <<Rejected("different_chain")>> \o Farewell(no)
    <2>1. /\ e2 \in EndRecord /\ e2.id = TRUE /\ e2.our = e0.our /\ e2.hello = e0.hello /\ e2.list = "closing" /\ e2.their = "rejected"
          /\ e2.reachable = e0.reachable
      BY <1>4, DisconnectFacts
    <2>2. Rejected("different_chain") \in Messages /\ Rejected("different_chain").type = "rejected"
      BY <1>7 DEF Reasons
    <2>3. out \in Seq(Messages) /\ Len(out) >= 1 /\ out[1].type = "rejected" /\ \A i \in 1..Len(out) : i # 1 => out[i].type = "closing"
      <3> DEFINE first == Rejected("different_chain")
                 bye == Farewell(no)
      <3>1. bye \in Seq(Messages) /\ Len(bye) \in Nat /\ \A i \in 1..Len(bye) : bye[i].type = "closing"
        BY <1>4, DisconnectFacts
      <3> HIDE DEF first, bye
      <3>2. <<first>> \in Seq(Messages) /\ Len(<<first>>) = 1 /\ <<first>>[1].type = "rejected"
        BY <2>2 DEF first
      <3>3. LET o == <<first>> \o bye
            IN  /\ o \in Seq(Messages) /\ Len(o) = 1 + Len(bye) /\ o[1] = first
                /\ \A i \in 1..Len(o) : i # 1 => i - 1 \in 1..Len(bye) /\ o[i] = bye[i - 1]
        BY <3>1, <3>2
      <3> QED BY <3>1, <3>2, <3>3 DEF first, bye
    <2>4. e0.reachable => m \notin Firewalled
      BY <1>1 DEF EndRight, m
    <2> HIDE DEF e2, out
    <2> QED BY <1>6, <1>8, <2>1, <2>3, <2>4 DEF e2, out, Answers
  <1>9. CASE Becomes(x, no, 1, <<Rejected(Self)>>)
    <2> DEFINE out == <<Rejected(Self)>>
    <2>1. out \in Seq(Messages) /\ Len(out) = 1 /\ out[1].type = "rejected"
      <3>1. Rejected(Self) \in Messages /\ Rejected(Self).type = "rejected"
        BY <1>7 DEF Reasons
      <3> QED BY <3>1
    <2>2. e0.reachable => m \notin Firewalled
      BY <1>1 DEF EndRight, m
    <2>9. Becomes(x, no, 1, out)
      BY <1>9
    <2> HIDE DEF out
    <2>8. Len(out) >= 1 /\ out[1].type \in Answers /\ \A i \in 1..Len(out) : i # 1 => out[i].type = "closing"
      BY <2>1 DEF Answers
    <2> QED BY <1>4, <1>6, <2>1, <2>2, <2>8, <2>9
  <1>10. CASE /\ ~foreign /\ ~already /\ is_accepting_new_connections(n)
              /\ Becomes(x, [e EXCEPT !.their = "accepted", !.reachable = NotFirewalled(m)], 1, <<[type |-> "accepted"]>>)
    <2> DEFINE e2 == [e EXCEPT !.their = "accepted", !.reachable = NotFirewalled(m)]
               out == <<[type |-> "accepted"]>>
    <2>1. /\ e2 \in EndRecord /\ e2.id = TRUE /\ e2.our = e0.our /\ e2.hello = e0.hello /\ e2.list = e0.list /\ e2.their = "accepted"
          /\ e2.reachable => m \notin Firewalled
      BY <1>1 DEF EndRecord, Answers, NotFirewalled, e
    <2>2. out \in Seq(Messages) /\ Len(out) = 1 /\ out[1].type = "accepted"
      BY DEF Messages
    <2>9. Becomes(x, e2, 1, out)
      BY <1>10
    <2> HIDE DEF e2, out
    <2>8. Len(out) >= 1 /\ out[1].type \in Answers /\ \A i \in 1..Len(out) : i # 1 => out[i].type = "closing"
      BY <2>2 DEF Answers
    <2> QED BY <1>10, <1>6, <2>1, <2>2, <2>8, <2>9
  <1>11. CASE Becomes(x, [no EXCEPT !.reachable = NotFirewalled(m)], 1, <<Rejected("not_accepting_connections")>>)
    <2> DEFINE e2 == [no EXCEPT !.reachable = NotFirewalled(m)]
               out == <<Rejected("not_accepting_connections")>>
    <2>1. /\ e2 \in EndRecord /\ e2.id = TRUE /\ e2.our = e0.our /\ e2.hello = e0.hello /\ e2.list = e0.list /\ e2.their = "rejected"
          /\ e2.reachable => m \notin Firewalled
      BY <1>4 DEF EndRecord, NotFirewalled
    <2>2. out \in Seq(Messages) /\ Len(out) = 1 /\ out[1].type = "rejected"
      <3>1. Rejected("not_accepting_connections") \in Messages /\ Rejected("not_accepting_connections").type = "rejected"
        BY <1>7 DEF Reasons
      <3> QED BY <3>1
    <2>9. Becomes(x, e2, 1, out)
      BY <1>11
    <2> HIDE DEF e2, out
    <2>8. Len(out) >= 1 /\ out[1].type \in Answers /\ \A i \in 1..Len(out) : i # 1 => out[i].type = "closing"
      BY <2>2 DEF Answers
    <2> QED BY <1>11, <1>6, <2>1, <2>2, <2>8, <2>9
  <1> QED BY <1>5, <1>8, <1>9, <1>10, <1>11

LEMMA RequestFacts ==
  /\ AddressRequest \in Seq(Messages) /\ Len(AddressRequest) = 1 /\ AddressRequest[1].type = "request"
  /\ <<>> \in Seq(Messages) /\ Len(<<>>) = 0
  BY DEF AddressRequest, Messages

LEMMA AcceptedInv ==
  ASSUME ConnInv, NEW x \in Ends, on_connection_accepted_message(x)
  PROVE  ConnInv'
  <1> DEFINE e == End(x)
             w == wire[x[1]][x[2]]
             e2 == [e EXCEPT !.our = "accepted"]
             out == AddressRequest
  <1>1. /\ e \in EndRecord /\ EndRight(x, e) /\ w \in Seq(Messages) /\ socket[x[1]] # "dialled"
        /\ e.list # "none" /\ e.our # "disconnected" /\ ~e.shut
        /\ 1 <= Len(w) /\ w[1].type = "accepted" /\ e.our \notin Answers
        /\ ChainOf[PeerOf(x)] = ChainOf[NodeOf(x)] /\ PeerOf(x) # NodeOf(x)
    BY EndOfInv, ReadsFacts DEF on_connection_accepted_message, Answers
  <1>2. Becomes(x, e2, 1, out)
    BY DEF on_connection_accepted_message
  <1>3. /\ e2 \in EndRecord /\ e2.our = "accepted" /\ e2.their = e.their /\ e2.id = e.id
        /\ e2.list = e.list /\ e2.shut = e.shut /\ e2.reachable = e.reachable /\ e2.hello = e.hello
    BY <1>1 DEF EndRecord, Answers
  <1> HIDE DEF e2, out, w
  <1>4. out \in Seq(Messages) /\ Len(out) = 1 /\ out[1].type = "request"
    BY RequestFacts DEF out
  <1>5. EndRight(x, e2)
    BY <1>1, <1>3 DEF EndRight
  <1>6. ReadFits(e, w, e2, 1)
    BY <1>1, <1>3 DEF ReadFits, Answers
  <1>7. SendFits(e, OtherEnd(x), e2, out)
    BY <1>1, <1>3, <1>4 DEF SendFits, Answers
  <1>8. TakenFits(x, e2)
    BY <1>3 DEF TakenFits
  <1>9. known' \in [Nodes -> SUBSET Reachable] /\ world' \in WorldType /\ world'.dials = world.dials
    BY WorldFacts DEF on_connection_accepted_message
  <1> QED BY <1>1, <1>2, <1>3, <1>4, <1>5, <1>6, <1>7, <1>8, <1>9, BecomesInv DEF w

LEMMA RejectedInv ==
  ASSUME ConnInv, NEW x \in Ends, on_connection_rejected_message(x)
  PROVE  ConnInv'
  <1> DEFINE e0 == End(x)
             w == wire[x[1]][x[2]]
             e == [e0 EXCEPT !.our = "rejected"]
             self == Message(x).reason = "connected_to_self"
             gone == close_connection([e EXCEPT !.list = "closing"])
  <1>1. /\ e0 \in EndRecord /\ EndRight(x, e0) /\ w \in Seq(Messages) /\ socket[x[1]] # "dialled"
        /\ e0.list # "none" /\ e0.our # "disconnected" /\ ~e0.shut
        /\ 1 <= Len(w) /\ w[1].type = "rejected" /\ e0.our \notin Answers
    BY EndOfInv, ReadsFacts DEF on_connection_rejected_message, Answers
  <1>2. \/ Becomes(x, gone, 1, <<>>)
        \/ Becomes(x, e, 1, AddressRequest)
    BY DEF on_connection_rejected_message
  <1>3. known' \in [Nodes -> SUBSET Reachable] /\ world' \in WorldType /\ world'.dials = world.dials
    <2>1. known' = [known EXCEPT ![x[1][x[2]]] = IF self THEN @ \ {x[1][x[2]]} ELSE @] /\ UNCHANGED world
      BY DEF on_connection_rejected_message
    <2> HIDE DEF self
    <2>2. known' \in [Nodes -> SUBSET Reachable]
      BY <2>1, WorldFacts
    <2> QED BY <2>1, <2>2, WorldFacts
  <1>4. /\ e \in EndRecord /\ e.our = "rejected" /\ e.their = e0.their /\ e.id = e0.id
        /\ e.list = e0.list /\ e.shut = e0.shut /\ e.reachable = e0.reachable /\ e.hello = e0.hello
    BY <1>1 DEF EndRecord, Answers
  <1> HIDE DEF e
  <1>5. /\ gone \in EndRecord /\ gone.our = "rejected" /\ gone.their = e0.their /\ gone.id = e0.id
        /\ gone.list = "closing" /\ gone.reachable = e0.reachable /\ gone.hello = e0.hello
    BY <1>4 DEF EndRecord, close_connection
  <1> HIDE DEF gone, w
  <1>6. ASSUME NEW e2 \in EndRecord, NEW out \in Seq(Messages), Becomes(x, e2, 1, out),
               e2.our = "rejected", e2.their = e0.their, e2.id = e0.id, e2.list \in {e0.list, "closing"},
               e2.reachable = e0.reachable, e2.hello = e0.hello, \A i \in 1..Len(out) : out[i].type = "request"
        PROVE  ConnInv'
    <2>0. e0.list # "active"
      BY <1>1 DEF EndRight, Answers
    <2>1. EndRight(x, e2)
      BY <1>1, <1>6, <2>0 DEF EndRight
    <2>2. ReadFits(e0, w, e2, 1)
      BY <1>1, <1>6 DEF ReadFits, Answers
    <2>3. SendFits(e0, OtherEnd(x), e2, out)
      BY <1>1, <1>6 DEF SendFits, Answers
    <2>4. TakenFits(x, e2)
      BY <1>6 DEF TakenFits
    <2> QED BY <1>1, <1>3, <1>6, <2>1, <2>2, <2>3, <2>4, BecomesInv DEF w
  <1>7. \A i \in 1..Len(AddressRequest) : AddressRequest[i].type = "request"
    BY RequestFacts
  <1>8. CASE Becomes(x, gone, 1, <<>>)
    <2>1. \A i \in 1..Len(<<>>) : <<>>[i].type = "request"
      BY RequestFacts
    <2> QED BY <1>5, <1>6, <1>8, <2>1, RequestFacts
  <1>9. CASE Becomes(x, e, 1, AddressRequest)
    BY <1>4, <1>6, <1>7, <1>9, RequestFacts
  <1> QED BY <1>2, <1>8, <1>9

LEMMA AddressRequestInv ==
  ASSUME ConnInv, NEW x \in Ends, on_address_request_message(x)
  PROVE  ConnInv'
  <1> DEFINE out == <<[type |-> "addresses", of |-> Advertised(x[1][x[2]])]>>
  <1>1. /\ End(x) \in EndRecord /\ EndRight(x, End(x)) /\ socket[x[1]] # "dialled"
        /\ End(x).list # "none" /\ End(x).our # "disconnected" /\ ~End(x).shut
        /\ 1 <= Len(wire[x[1]][x[2]]) /\ wire[x[1]][x[2]][1].type = "request"
        /\ OtherEnd(x).list = "none" \/ OtherEnd(x).our \in Answers
    BY EndOfInv, ReadsFacts DEF on_address_request_message
  <1>2. Advertised(x[1][x[2]]) \in SUBSET Reachable
    <2>1. \A y \in Ends : End(y).reachable => PeerOf(y) \in Reachable
      BY EndOfInv, EndFacts DEF EndRight, Reachable
    <2>2. x[1][x[2]] \in Nodes /\ EndsAt[x[1][x[2]]] \subseteq Ends
      BY EndFacts, EndsFinite DEF NodeOf
    <2> QED BY <2>1, <2>2 DEF Advertised
  <1>3. out \in Seq(Messages) /\ Len(out) = 1 /\ out[1].type = "addresses"
    BY <1>2 DEF Messages
  <1>4. Becomes(x, End(x), 1, out)
    BY DEF on_address_request_message
  <1>5. known' \in [Nodes -> SUBSET Reachable] /\ world' \in WorldType /\ world'.dials = world.dials
    BY WorldFacts DEF on_address_request_message
  <1> HIDE DEF out
  <1>6. \A i \in 1..Len(out) : out[i].type = "addresses"
    BY <1>3
  <1> QED BY <1>1, <1>3, <1>4, <1>5, <1>6, QuietInv DEF EndRight

LEMMA AddressInv ==
  ASSUME ConnInv, NEW x \in Ends, on_address_message(x)
  PROVE  ConnInv'
  <1> DEFINE n == x[1][x[2]]
             e == End(x)
  <1>1. /\ e \in EndRecord /\ EndRight(x, e) /\ socket[x[1]] # "dialled"
        /\ e.list # "none" /\ e.our # "disconnected" /\ ~e.shut
        /\ 1 <= Len(wire[x[1]][x[2]]) /\ wire[x[1]][x[2]][1].type = "addresses"
        /\ Message(x) = wire[x[1]][x[2]][1] /\ Message(x) \in Messages /\ e.our \in Answers
    BY EndOfInv, ReadsFacts DEF on_address_message
  <1>2. known' \in [Nodes -> SUBSET Reachable] /\ world' \in WorldType /\ world'.dials = world.dials
    <2>1. Message(x).of \in SUBSET Reachable
      BY <1>1 DEF Messages
    <2>2. known' = [known EXCEPT ![n] = @ \cup Message(x).of] /\ UNCHANGED world
      BY DEF on_address_message
    <2> QED BY <2>1, <2>2, WorldFacts
  <1>3. CASE e.list # "handshaking" /\ Becomes(x, e, 1, <<>>)
    BY <1>1, <1>2, <1>3, SilentInv DEF EndRight
  <1>4. CASE Becomes(x, disconnect_from_peer(e), 1, Farewell(e))
    BY <1>1, <1>2, <1>4, DisconnectFacts, QuietInv
  <1>5. CASE "rejected" \notin {e.our, e.their} /\ e.list = "handshaking" /\ Becomes(x, [e EXCEPT !.list = "active"], 1, <<>>)
    <2> DEFINE e2 == [e EXCEPT !.list = "active"]
    <2>1. /\ e2 \in EndRecord /\ e2.list = "active" /\ e2.our = e.our /\ e2.their = e.their /\ e2.id = e.id
          /\ e2.reachable = e.reachable /\ e2.shut = e.shut /\ e2.hello = e.hello
      BY <1>1 DEF EndRecord
    <2>2. e.our = "accepted"
      BY <1>1, <1>5 DEF EndRight, Answers
    <2>3. Becomes(x, e2, 1, <<>>)
      BY <1>5
    <2> HIDE DEF e2
    <2> QED BY <1>1, <1>2, <1>5, <2>1, <2>2, <2>3, SilentInv
  <1> QED BY <1>3, <1>4, <1>5 DEF on_address_message

LEMMA ClosingInv ==
  ASSUME ConnInv, NEW x \in Ends, on_closing_connection_message(x)
  PROVE  ConnInv'
  <1> DEFINE e == [End(x) EXCEPT !.they_close = TRUE]
             e2 == IF e.we_close THEN close_connection(e) ELSE e
  <1>1. /\ End(x) \in EndRecord /\ EndRight(x, End(x)) /\ socket[x[1]] # "dialled"
        /\ End(x).list # "none" /\ End(x).our # "disconnected" /\ ~End(x).shut
        /\ 1 <= Len(wire[x[1]][x[2]]) /\ wire[x[1]][x[2]][1].type = "closing"
    BY EndOfInv, ReadsFacts DEF on_closing_connection_message
  <1>2. /\ e2 \in EndRecord /\ e2.list = End(x).list /\ e2.our = End(x).our /\ e2.their = End(x).their
        /\ e2.id = End(x).id /\ e2.reachable = End(x).reachable /\ e2.hello = End(x).hello
    BY <1>1 DEF EndRecord, close_connection
  <1>3. Becomes(x, e2, 1, <<>>)
    BY DEF on_closing_connection_message
  <1>4. known' \in [Nodes -> SUBSET Reachable] /\ world' \in WorldType /\ world'.dials = world.dials
    BY WorldFacts DEF on_closing_connection_message
  <1> HIDE DEF e2
  <1> QED BY <1>1, <1>2, <1>3, <1>4, SilentInv DEF EndRight

LEMMA FetchInv ==
  ASSUME ConnInv, NEW x \in Ends, fetch_updated_peer_lists_loop(x)
  PROVE  ConnInv'
  <1>1. /\ End(x) \in EndRecord /\ EndRight(x, End(x)) /\ End(x).list = "active"
        /\ End(x).our = "accepted" /\ socket[x[1]] # "dialled"
    BY EndOfInv DEF fetch_updated_peer_lists_loop, EndRight
  <1>2. Becomes(x, End(x), 0, AddressRequest)
    BY DEF fetch_updated_peer_lists_loop
  <1>3. known' \in [Nodes -> SUBSET Reachable] /\ world' \in WorldType /\ world'.dials = world.dials
    BY WorldFacts DEF fetch_updated_peer_lists_loop
  <1>4. \A i \in 1..Len(AddressRequest) : AddressRequest[i].type = "request"
    BY RequestFacts
  <1>5. "accepted" \in Answers
    BY DEF Answers
  <1> QED BY <1>1, <1>2, <1>3, <1>4, <1>5, RequestFacts, QuietInv

LEMMA GivesUpInv ==
  ASSUME ConnInv, NEW x \in Ends, GivesUp(x)
  PROVE  ConnInv'
  <1>1. /\ End(x) \in EndRecord /\ End(x).list = "active"
        /\ End(x).our = "accepted" /\ socket[x[1]] # "dialled"
    BY EndOfInv DEF GivesUp, EndRight
  <1>2. Becomes(x, disconnect_from_peer(End(x)), 0, Farewell(End(x)))
    BY DEF GivesUp
  <1>3. known' \in [Nodes -> SUBSET Reachable] /\ world' \in WorldType /\ world'.dials = world.dials
    BY WorldFacts DEF GivesUp
  <1> QED BY <1>1, <1>2, <1>3, DisconnectFacts, QuietInv

LEMMA TerminateInv ==
  ASSUME ConnInv, NEW x \in Ends, terminate_inactive_connections_loop(x)
  PROVE  ConnInv'
  <1> DEFINE e2 == close_connection([End(x) EXCEPT !.list = "terminating"])
  <1>1. End(x) \in EndRecord /\ End(x).list \in {"closing", "handshaking"}
    BY EndOfInv DEF terminate_inactive_connections_loop, TooSlow
  <1>2. /\ e2 \in EndRecord /\ e2.list = "terminating" /\ e2.our = End(x).our /\ e2.their = End(x).their
        /\ e2.id = End(x).id /\ e2.reachable = End(x).reachable /\ e2.shut = TRUE /\ e2.hello = End(x).hello
    BY <1>1 DEF EndRecord, close_connection
  <1>3. Becomes(x, e2, 0, <<>>)
    BY DEF terminate_inactive_connections_loop
  <1>4. known' \in [Nodes -> SUBSET Reachable] /\ world' \in WorldType /\ world'.dials = world.dials
    BY WorldFacts DEF terminate_inactive_connections_loop
  <1> HIDE DEF e2
  <1> QED BY <1>1, <1>2, <1>3, <1>4, SilentInv

----------------------------------------------------------------------------
(* Opening, losing and forgetting a connection. *)

LEMMA OneConnInv ==
  ASSUME ConnInv, NEW x \in Ends, ConnTypes', ConnRight(x[1])', DialsLeft',
         \A d \in Conns : d # x[1] => ends'[d] = ends[d] /\ wire'[d] = wire[d] /\ socket'[d] = socket[d],
         ends'[x[1]][Other(x[2])] = ends[x[1]][Other(x[2])],
         ends'[x[1]][x[2]].their # "accepted"
  PROVE  ConnInv'
  <1>t. ConnTypes /\ \A d \in Conns : ConnRight(d)
    BY DEF ConnInv
  <1>1. \A d \in Conns : ConnRight(d)'
    <2> SUFFICES ASSUME NEW d \in Conns, d # x[1] PROVE ConnRight(d)'
      OBVIOUS
    <2>1. ends'[d] = ends[d] /\ wire'[d] = wire[d] /\ socket'[d] = socket[d] /\ ConnRight(d)
      BY <1>t
    <2> QED BY <2>1 DEF ConnRight, EndRight, AcceptsFit, PeerOf, NodeOf, Other
  <1>2. \A y \in Ends : y # x => ends'[y[1]][y[2]] = ends[y[1]][y[2]]
    <2> TAKE y \in Ends
    <2>1. y[1] \in Conns /\ y[2] \in {1, 2} /\ y = <<y[1], y[2]>> /\ x = <<x[1], x[2]>>
          /\ ((x[2] = 1 /\ Other(x[2]) = 2) \/ (x[2] = 2 /\ Other(x[2]) = 1))
      BY EndFacts DEF Sides, Other
    <2> QED BY <2>1
  <1>3. OneTaken' /\ TakenWithin'
    <2>1. ends' \in [Conns -> [Sides -> EndRecord]]
      BY DEF ConnTypes
    <2> QED BY <2>1, <1>2, TakenKeeps
  <1> QED BY <1>1, <1>3 DEF ConnInv

LEMMA NewEndFacts ==
  /\ NoEnd \in EndRecord /\ NewEnd \in EndRecord /\ [NoEnd EXCEPT !.shut = TRUE] \in EndRecord
  /\ \A e \in {NoEnd, NewEnd, [NoEnd EXCEPT !.shut = TRUE]} :
        /\ e.our = "disconnected" /\ e.their = "disconnected" /\ ~e.id /\ ~e.reachable /\ ~e.hello
        /\ \A x : EndRight(x, e)
  /\ NoEnd.list = "none" /\ ~NoEnd.shut /\ NewEnd.list = "handshaking" /\ ~NewEnd.shut
  /\ [NoEnd EXCEPT !.shut = TRUE].list = "none" /\ [NoEnd EXCEPT !.shut = TRUE].shut
  <1> DEFINE Gone == [NoEnd EXCEPT !.shut = TRUE]
  <1>1. NoEnd \in EndRecord /\ NewEnd \in EndRecord /\ Gone \in EndRecord
    BY DEF NoEnd, NewEnd, EndRecord
  <1>2. /\ NoEnd.our = "disconnected" /\ NoEnd.their = "disconnected" /\ NoEnd.id = FALSE
        /\ NoEnd.reachable = FALSE /\ NoEnd.hello = FALSE /\ NoEnd.list = "none" /\ NoEnd.shut = FALSE
    BY DEF NoEnd
  <1>3. /\ NewEnd.our = "disconnected" /\ NewEnd.their = "disconnected" /\ NewEnd.id = FALSE
        /\ NewEnd.reachable = FALSE /\ NewEnd.hello = FALSE /\ NewEnd.list = "handshaking" /\ NewEnd.shut = FALSE
    BY DEF NewEnd, NoEnd
  <1>4. /\ Gone.our = "disconnected" /\ Gone.their = "disconnected" /\ Gone.id = FALSE
        /\ Gone.reachable = FALSE /\ Gone.hello = FALSE /\ Gone.list = "none" /\ Gone.shut = TRUE
    BY DEF NoEnd
  <1> HIDE DEF Gone
  <1>5. \A e \in {NoEnd, NewEnd, Gone} : \A x : EndRight(x, e)
    BY <1>2, <1>3, <1>4 DEF EndRight, Answers
  <1> QED BY <1>1, <1>2, <1>3, <1>4, <1>5 DEF Gone

LEMMA ConnectInv ==
  ASSUME ConnInv, NEW r \in Routes, p2p_network_connect_loop(r[1], r[2])
  PROVE  ConnInv'
  <1>0. PICK k : k = world.dials[r]
    OBVIOUS
  <1> DEFINE c == <<r[1], r[2], k>>
             x == <<c, 1>>
  <1>t. ConnTypes /\ (\A d \in Conns : ConnRight(d)) /\ DialsLeft
    BY DEF ConnInv
  <1>r. r = <<r[1], r[2]>> /\ \A q \in Routes : q = <<q[1], q[2]>>
    BY ConnectionsAssumption
  <1>1. /\ k \in 1..MaxDials /\ k > 0 /\ c \in Conns
        /\ world' = [world EXCEPT !.dials[r] = k - 1, !.once = @ \ {r}]
        /\ ends' = [ends EXCEPT ![c][1] = NewEnd]
        /\ socket' = [socket EXCEPT ![c] = "dialled"]
        /\ UNCHANGED <<wire, known>>
    <2>1. k \in 0..MaxDials
      BY <1>0, <1>t DEF ConnTypes
    <2>2. /\ k > 0
          /\ world' = [world EXCEPT !.dials[r] = k - 1, !.once = @ \ {r}]
          /\ ends' = [ends EXCEPT ![c][1] = NewEnd]
          /\ socket' = [socket EXCEPT ![c] = "dialled"]
          /\ UNCHANGED <<wire, known>>
      BY <1>0, <1>r DEF p2p_network_connect_loop
    <2>3. k \in 1..MaxDials
      BY <2>1, <2>2
    <2> QED BY <2>2, <2>3 DEF Conns
  <1>2. /\ world' \in WorldType /\ world'.dials = [world.dials EXCEPT ![r] = k - 1]
    <2>1. world \in WorldType /\ k - 1 \in 0..MaxDials
      BY <1>1, <1>t, ConnectionsAssumption DEF ConnTypes, WorldType
    <2> QED BY <1>1, <2>1 DEF WorldType
  <1>3. socket[c] = "none"
    <2>1. k \in 1..world.dials[r]
      BY <1>0, <1>1
    <2> QED BY <2>1, <1>t DEF DialsLeft
  <1> HIDE DEF c
  <1>4. /\ ConnTypes'
        /\ ends'[c][1] = NewEnd /\ ends'[c][2] = ends[c][2] /\ socket'[c] = "dialled"
        /\ \A d \in Conns : d # c => ends'[d] = ends[d] /\ wire'[d] = wire[d] /\ socket'[d] = socket[d]
    <2>1. 1 \in Sides /\ 2 \in Sides
      BY DEF Sides
    <2>2. /\ ends'[c][1] = NewEnd /\ ends'[c][2] = ends[c][2] /\ socket'[c] = "dialled"
          /\ \A d \in Conns : d # c => ends'[d] = ends[d] /\ wire'[d] = wire[d] /\ socket'[d] = socket[d]
      BY <1>1, <1>t, <2>1 DEF ConnTypes
    <2>3. ends' \in [Conns -> [Sides -> EndRecord]]
      BY <1>1, <1>t, <2>1, NewEndFacts DEF ConnTypes
    <2>4. ConnTypes'
      BY <1>1, <1>2, <1>t, <2>3 DEF ConnTypes, WorldType
    <2> QED BY <2>2, <2>4
  <1>5. wire[c][1] = <<>> /\ wire[c][2] = <<>> /\ ends[c][2] = NoEnd
    BY <1>1, <1>3, <1>t DEF ConnRight
  <1>6. PairRight(NewEnd, NoEnd, <<>>) /\ PairRight(NoEnd, NewEnd, <<>>)
    BY NewEndFacts DEF PairRight, HelloOnce, OneAnswer, AddressesLast, Answers
  <1>7. ConnRight(c)'
    <2>1. EndRight(<<c, 1>>, ends'[c][1]) /\ EndRight(<<c, 2>>, ends'[c][2])
      BY <1>4, <1>5, NewEndFacts
    <2> QED BY <1>1, <1>4, <1>5, <1>6, <2>1, NewEndFacts DEF ConnRight, EndRight, AcceptsFit, PeerOf, NodeOf, Other, c
  <1>8. DialsLeft'
    <2> SUFFICES ASSUME NEW q \in Routes, NEW l \in 1..world'.dials[q]
                 PROVE  socket'[<<q[1], q[2], l>>] = "none"
      BY DEF DialsLeft
    <2>1. world'.dials[q] = IF q = r THEN k - 1 ELSE world.dials[q]
      BY <1>2, <1>t DEF ConnTypes
    <2>2. k \in Nat /\ world.dials[q] \in 0..MaxDials /\ k = world.dials[r] /\ MaxDials \in Nat
      BY <1>0, <1>1, <1>t, ConnectionsAssumption DEF ConnTypes
    <2>3. l \in 1..world.dials[q] /\ l \in 1..MaxDials /\ (q = r => l # k)
      BY <2>1, <2>2
    <2>4. <<q[1], q[2], l>> # c
      BY <2>3, <1>r DEF c
    <2>5. <<q[1], q[2], l>> \in Conns
      BY <2>3 DEF Conns
    <2> QED BY <2>3, <2>4, <2>5, <1>4, <1>t DEF DialsLeft
  <1>9. x \in Ends /\ x[1] = c /\ x[2] = 1 /\ Other(x[2]) = 2
    BY <1>1 DEF Ends, Sides, Other
  <1> QED BY <1>4, <1>7, <1>8, <1>9, NewEndFacts, OneConnInv

LEMMA AcceptInv ==
  ASSUME ConnInv, NEW c \in Conns, accept_loop(c)
  PROVE  ConnInv'
  <1> DEFINE x == <<c, 2>>
  <1>t. ConnTypes /\ (\A d \in Conns : ConnRight(d)) /\ DialsLeft
    BY DEF ConnInv
  <1>1. /\ socket[c] = "dialled" /\ ends' = [ends EXCEPT ![c][2] = NewEnd]
        /\ socket' = [socket EXCEPT ![c] = "open"] /\ UNCHANGED <<wire, known, world>>
    BY DEF accept_loop
  <1>4. /\ ConnTypes'
        /\ ends'[c][2] = NewEnd /\ ends'[c][1] = ends[c][1] /\ socket'[c] = "open"
        /\ \A d \in Conns : d # c => ends'[d] = ends[d] /\ wire'[d] = wire[d] /\ socket'[d] = socket[d]
    BY <1>1, <1>t, NewEndFacts DEF ConnTypes, Sides
  <1>5. /\ wire[c][1] = <<>> /\ wire[c][2] = <<>> /\ ends[c][1].our = "disconnected"
        /\ EndRight(<<c, 1>>, ends[c][1])
    BY <1>1, <1>t DEF ConnRight
  <1>6. PairRight(NewEnd, ends[c][1], <<>>) /\ PairRight(ends[c][1], NewEnd, <<>>)
    BY <1>5, NewEndFacts DEF PairRight, HelloOnce, OneAnswer, AddressesLast, Answers, EndRight
  <1>7. ConnRight(c)'
    <2>1. EndRight(<<c, 1>>, ends'[c][1]) /\ EndRight(<<c, 2>>, ends'[c][2])
      BY <1>4, <1>5, NewEndFacts
    <2> QED BY <1>1, <1>4, <1>5, <1>6, <2>1 DEF ConnRight, EndRight, AcceptsFit, PeerOf, NodeOf, Other
  <1>8. DialsLeft'
    <2>1. \A d \in Conns : socket[d] = "none" => socket'[d] = "none"
      BY <1>1, <1>t DEF ConnTypes
    <2> QED BY <2>1, <1>1, DialsKeep
  <1>9. x \in Ends /\ x[1] = c /\ x[2] = 2 /\ Other(x[2]) = 1
    BY DEF Ends, Sides, Other
  <1> QED BY <1>4, <1>7, <1>8, <1>9, NewEndFacts, OneConnInv

LEMMA EndsExcept ==
  ASSUME NEW f \in [Conns -> [Sides -> EndRecord]], NEW c \in Conns, NEW s \in Sides, NEW e \in EndRecord
  PROVE  [f EXCEPT ![c][s] = e] \in [Conns -> [Sides -> EndRecord]]
  OBVIOUS

\* An end forgets the connection: nothing it left on the wire matters any more.
LEMMA ResetInv ==
  ASSUME ConnInv, NEW x \in Ends, End(x).list # "none",
         ends' = [ends EXCEPT ![x[1]][x[2]] = [NoEnd EXCEPT !.shut = TRUE]],
         socket' = [socket EXCEPT ![x[1]] = "closed"],
         UNCHANGED <<wire, known>>, world' \in WorldType, world'.dials = world.dials
  PROVE  ConnInv'
  <1> DEFINE Gone == [NoEnd EXCEPT !.shut = TRUE]
             c == x[1]
             s == x[2]
             o == Other(x[2])
  <1>t. ConnTypes /\ \A d \in Conns : ConnRight(d)
    BY DEF ConnInv
  <1>0. /\ Gone \in EndRecord /\ Gone.our = "disconnected" /\ Gone.their = "disconnected" /\ ~Gone.id
        /\ Gone.list = "none" /\ Gone.shut /\ (\A y : EndRight(y, Gone))
    BY NewEndFacts
  <1>1. c \in Conns /\ s \in Sides /\ o \in Sides /\ ((s = 1 /\ o = 2) \/ (s = 2 /\ o = 1)) /\ x = <<c, s>>
    BY EndFacts DEF Sides, Other
  <1>2. ends' = [ends EXCEPT ![c][s] = Gone] /\ socket' = [socket EXCEPT ![c] = "closed"]
    OBVIOUS
  <1> HIDE DEF Gone, c, s, o
  <1>3. /\ ends'[c][s] = Gone /\ ends'[c][o] = ends[c][o] /\ socket'[c] = "closed"
        /\ \A d \in Conns : d # c => ends'[d] = ends[d] /\ wire'[d] = wire[d] /\ socket'[d] = socket[d]
    BY <1>1, <1>2, <1>t DEF ConnTypes
  <1>4. ConnTypes'
    <2>0. Gone \in EndRecord /\ ends \in [Conns -> [Sides -> EndRecord]]
      BY <1>0, <1>t DEF ConnTypes
    <2>1. ends' \in [Conns -> [Sides -> EndRecord]]
      <3> DEFINE f == [ends EXCEPT ![c][s] = Gone]
      <3>1. f \in [Conns -> [Sides -> EndRecord]]
        BY ONLY <2>0, <1>1, EndsExcept
      <3>2. ends' = f
        BY <1>2
      <3> QED BY ONLY <3>1, <3>2
    <2>2. socket' \in [Conns -> {"none", "dialled", "open", "closed"}]
      BY <1>1, <1>2, <1>t DEF ConnTypes
    <2> QED BY <2>1, <2>2, <1>t DEF ConnTypes, WorldType
  <1>5. /\ PairRight(ends[c][s], ends[c][o], wire[c][s]) /\ PairRight(ends[c][o], ends[c][s], wire[c][o])
        /\ EndRight(<<c, o>>, ends[c][o])
    BY <1>1, <1>t DEF ConnRight
  <1>a. AcceptsFit(<<c, 1>>, wire'[c][1]) /\ AcceptsFit(<<c, 2>>, wire'[c][2])
    BY <1>1, <1>t DEF ConnRight, AcceptsFit, PeerOf, NodeOf, Other
  <1>6. PairRight(Gone, ends[c][o], wire[c][s])
    BY <1>0, <1>5 DEF PairRight, HelloOnce, OneAnswer, AddressesLast, Answers
  <1>7. PairRight(ends[c][o], Gone, wire[c][o])
    BY <1>0, <1>5 DEF PairRight, HelloOnce, OneAnswer, AddressesLast, Answers
  <1>8. ConnRight(c)'
    <2>1. /\ EndRight(<<c, s>>, ends'[c][s]) /\ EndRight(<<c, o>>, ends'[c][o])
          /\ PairRight(ends'[c][s], ends'[c][o], wire'[c][s]) /\ PairRight(ends'[c][o], ends'[c][s], wire'[c][o])
      BY <1>0, <1>3, <1>5, <1>6, <1>7
    <2>2. /\ EndRight(<<c, 1>>, ends'[c][1]) /\ EndRight(<<c, 2>>, ends'[c][2])
          /\ PairRight(ends'[c][1], ends'[c][2], wire'[c][1]) /\ PairRight(ends'[c][2], ends'[c][1], wire'[c][2])
      BY <1>1, <2>1
    <2> QED BY <1>3, <1>a, <2>2 DEF ConnRight, EndRight, AcceptsFit, PeerOf, NodeOf, Other, c
  <1>9. socket[c] # "none"
    <2>1. ends[c][s].list # "none" /\ NoEnd.list = "none"
      BY NewEndFacts DEF End, c, s
    <2>2. ConnRight(c)
      BY <1>1, <1>t
    <2> QED BY <1>1, <2>1, <2>2 DEF ConnRight
  <1>10. DialsLeft'
    <2>1. \A d \in Conns : socket[d] = "none" => socket'[d] = "none"
      BY <1>3, <1>9
    <2> QED BY <2>1, DialsKeep
  <1> QED BY <1>0, <1>3, <1>4, <1>8, <1>10, OneConnInv DEF c, s, o

LEMMA ConnectFailsInv ==
  ASSUME ConnInv, NEW c \in Conns, connect_to_task_fails(c)
  PROVE  ConnInv'
  <1> DEFINE x == <<c, 1>>
  <1>1. x \in Ends /\ x[1] = c /\ x[2] = 1
    BY DEF Ends, Sides
  <1>2. /\ End(x).list # "none"
        /\ ends' = [ends EXCEPT ![c][1] = [NoEnd EXCEPT !.shut = TRUE]]
        /\ socket' = [socket EXCEPT ![c] = "closed"]
        /\ UNCHANGED <<wire, known>>
    BY DEF connect_to_task_fails, End
  <1>3. world' \in WorldType /\ world'.dials = world.dials
    BY WorldFacts DEF connect_to_task_fails
  <1> QED BY <1>1, <1>2, <1>3, ResetInv

LEMMA ClosedInv ==
  ASSUME ConnInv, NEW x \in Ends, on_connection_closed(x)
  PROVE  ConnInv'
  <1>1. x[1] \in Conns /\ socket \in [Conns -> {"none", "dialled", "open", "closed"}]
    BY EndFacts DEF ConnInv, ConnTypes
  <1>2. /\ End(x).list # "none" /\ socket[x[1]] = "closed" /\ UNCHANGED <<wire, socket, known, world>>
        /\ ends' = [ends EXCEPT ![x[1]][x[2]] = [NoEnd EXCEPT !.shut = TRUE]]
    BY DEF on_connection_closed
  <1>3. socket' = [socket EXCEPT ![x[1]] = "closed"]
    BY <1>1, <1>2
  <1>4. world' \in WorldType /\ world'.dials = world.dials
    BY <1>2, WorldFacts
  <1> QED BY <1>2, <1>3, <1>4, ResetInv

LEMMA BreaksInv ==
  ASSUME ConnInv, NEW c \in Conns, Breaks(c)
  PROVE  ConnInv'
  <1>t. ConnTypes /\ (\A d \in Conns : ConnRight(d)) /\ OneTaken /\ TakenWithin
    BY DEF ConnInv
  <1>1. socket[c] = "open" /\ socket' = [socket EXCEPT ![c] = "closed"] /\ UNCHANGED <<ends, wire, known>>
    BY DEF Breaks
  <1>2. world' \in WorldType /\ world'.dials = world.dials
    BY WorldFacts DEF Breaks
  <1>3. ConnTypes'
    BY <1>1, <1>2, <1>t DEF ConnTypes, WorldType
  <1>4. \A d \in Conns : socket'[d] = IF d = c THEN "closed" ELSE socket[d]
    BY <1>1, <1>t DEF ConnTypes
  <1>5. \A d \in Conns : ConnRight(d)'
    <2> TAKE d \in Conns
    <2>1. ConnRight(d) /\ socket'[d] = IF d = c THEN "closed" ELSE socket[d]
      BY <1>4, <1>t
    <2> QED BY <1>1, <2>1 DEF ConnRight, EndRight, AcceptsFit, PeerOf, NodeOf, Other
  <1>6. DialsLeft'
    BY <1>1, <1>2, <1>4, DialsKeep
  <1>7. OneTaken' /\ TakenWithin'
    <2>1. \A n \in Nodes : Taken(n)' = Taken(n)
      BY <1>1 DEF Taken, ListedAt, End, EndsAt
    <2> QED BY <2>1, <1>t DEF OneTaken, TakenWithin, PeerOf
  <1> QED BY <1>3, <1>5, <1>6, <1>7 DEF ConnInv

----------------------------------------------------------------------------
(* All steps, and what the invariant says. *)

LEMMA InitInv == ConnectionsInit => ConnInv
  <1> SUFFICES ASSUME ConnectionsInit PROVE ConnInv
    OBVIOUS
  <1>1. /\ ends = [c \in Conns |-> [s \in Sides |-> NoEnd]] /\ wire = [c \in Conns |-> [s \in Sides |-> <<>>]]
        /\ socket = [c \in Conns |-> "none"] /\ world \in Worlds /\ known = world.known
    BY DEF ConnectionsInit
  <1>2. ConnTypes
    <2>1. world \in [known : [Nodes -> SUBSET Reachable], bound : BOOLEAN, once : SUBSET Routes,
                     dials : [Routes -> 0..MaxDials], faults : Nat, requests : Nat]
      BY <1>1, ConnectionsAssumption DEF Reachable
    <2>2. ends \in [Conns -> [Sides -> EndRecord]] /\ wire \in [Conns -> [Sides -> Seq(Messages)]]
      BY <1>1, NewEndFacts
    <2> QED BY <1>1, <2>1, <2>2 DEF ConnTypes
  <1>3. PairRight(NoEnd, NoEnd, <<>>)
    BY NewEndFacts DEF PairRight, HelloOnce, OneAnswer, AddressesLast, Answers
  <1>4. \A c \in Conns : ConnRight(c)
    <2> TAKE c \in Conns
    <2>1. ends[c][1] = NoEnd /\ ends[c][2] = NoEnd /\ wire[c][1] = <<>> /\ wire[c][2] = <<>>
      BY <1>1 DEF Sides
    <2>2. AcceptsFit(<<c, 1>>, <<>>) /\ AcceptsFit(<<c, 2>>, <<>>)
      BY DEF AcceptsFit
    <2> QED BY <1>3, <2>1, <2>2, NewEndFacts DEF ConnRight
  <1>5. DialsLeft
    <2> SUFFICES ASSUME NEW r \in Routes, NEW k \in 1..world.dials[r] PROVE socket[<<r[1], r[2], k>>] = "none"
      BY DEF DialsLeft
    <2>1. world.dials[r] \in 0..MaxDials /\ MaxDials \in Nat
      BY <1>2, ConnectionsAssumption DEF ConnTypes
    <2>2. k \in 1..MaxDials
      BY <2>1
    <2>3. <<r[1], r[2], k>> \in Conns
      BY <2>2 DEF Conns
    <2> QED BY <1>1, <2>3
  <1>6. \A n \in Nodes : Taken(n) = {}
    <2>1. \A x \in Ends : End(x) = NoEnd
      BY <1>1, EndFacts DEF End
    <2> QED BY <2>1, NewEndFacts, EndsFinite DEF Taken, ListedAt
  <1>7. OneTaken /\ TakenWithin
    <2>1. \A n \in Nodes : Maximum[n] \in Nat
      BY ConnectionsAssumption
    <2> QED BY <1>6, <2>1, FS_EmptySet DEF OneTaken, TakenWithin
  <1> QED BY <1>2, <1>4, <1>5, <1>7 DEF ConnInv

LEMMA NextInv == ConnInv /\ [ConnectionsNext]_connVars => ConnInv'
  <1> SUFFICES ASSUME ConnInv, [ConnectionsNext]_connVars PROVE ConnInv'
    OBVIOUS
  <1>1. ASSUME NEW r \in Routes, p2p_network_connect_loop(r[1], r[2]) PROVE ConnInv'
    BY <1>1, ConnectInv
  <1>2. ASSUME NEW c \in Conns, accept_loop(c) \/ connect_to_task_fails(c) \/ Breaks(c) PROVE ConnInv'
    BY <1>2, AcceptInv, ConnectFailsInv, BreaksInv
  <1>3. ASSUME NEW x \in Ends, accept_or_connect(x) \/ send_hello_message(x) \/ HandlesMessage(x)
        PROVE  ConnInv'
    BY <1>3, ConnectedInv, SendHelloInv, HelloInv, AcceptedInv, RejectedInv, AddressRequestInv, AddressInv, ClosingInv
       DEF HandlesMessage
  <1>4. ASSUME NEW x \in Ends,
               \/ fetch_updated_peer_lists_loop(x) \/ GivesUp(x) \/ terminate_inactive_connections_loop(x)
               \/ on_connection_closed(x)
        PROVE  ConnInv'
    BY <1>4, FetchInv, GivesUpInv, TerminateInv, ClosedInv
  <1>5. CASE UNCHANGED connVars
    <2>1. ends' = ends /\ wire' = wire /\ socket' = socket /\ known' = known /\ world' = world
      BY <1>5 DEF connVars
    <2>2. ConnTypes' /\ DialsLeft'
      BY <2>1 DEF ConnInv, ConnTypes, DialsLeft
    <2>3. \A c \in Conns : ConnRight(c)'
      <3> TAKE c \in Conns
      <3>1. ConnRight(c)
        BY DEF ConnInv
      <3> QED BY <2>1, <3>1 DEF ConnRight, EndRight, AcceptsFit, PeerOf, NodeOf, Other
    <2>4. \A n \in Nodes : Taken(n)' = Taken(n)
      BY <2>1 DEF Taken, ListedAt, End, EndsAt
    <2>5. OneTaken' /\ TakenWithin'
      BY <2>4 DEF ConnInv, OneTaken, TakenWithin, PeerOf
    <2> QED BY <2>2, <2>3, <2>5 DEF ConnInv
  <1> QED BY <1>1, <1>2, <1>3, <1>4, <1>5 DEF ConnectionsNext, ConnectionsSteps

LEMMA InvSound == ConnInv => ConnectionsSound
  <1> SUFFICES ASSUME ConnInv PROVE ConnectionsSound
    OBVIOUS
  <1>t. ConnTypes /\ OneTaken /\ TakenWithin
    BY DEF ConnInv
  <1>1. \A x \in Ends : EndRight(x, End(x)) /\ PairRight(End(x), OtherEnd(x), wire[x[1]][x[2]])
    BY EndOfInv
  <1>2. \A n \in Nodes : Kept(n) \subseteq Taken(n)
    BY DEF Kept, Taken, ListedAt
  <1>3. OneConnectionPerPeer
    BY <1>2, <1>t DEF OneConnectionPerPeer, OneTaken
  <1>4. NotWithItself
    BY <1>1 DEF NotWithItself, EndRight, NodeOf
  <1>5. WithinMaximum
    <2> SUFFICES ASSUME NEW n \in Nodes PROVE Cardinality(Kept(n)) <= Maximum[n]
      BY DEF WithinMaximum
    <2>1. IsFiniteSet(Taken(n)) /\ Kept(n) \subseteq Taken(n)
      BY <1>2, EndsFinite, FS_Subset DEF Taken, ListedAt
    <2>2. Cardinality(Kept(n)) <= Cardinality(Taken(n)) /\ IsFiniteSet(Kept(n))
      BY <2>1, FS_Subset
    <2>3. Cardinality(Kept(n)) \in Nat /\ Cardinality(Taken(n)) \in Nat /\ Cardinality(Taken(n)) <= Maximum[n]
      BY <2>1, <2>2, <1>t, FS_CardinalityType DEF TakenWithin
    <2> QED BY <2>2, <2>3, ConnectionsAssumption
  <1>6. BothAccepted
    <2> SUFFICES ASSUME NEW x \in Ends, End(x).list = "active"
                 PROVE  /\ ChainOf[PeerOf(x)] = ChainOf[x[1][x[2]]]
                        /\ OtherEnd(x).list # "none" => OtherEnd(x).their = "accepted"
                        /\ OtherEnd(x).our = "rejected" => End(x).their = "rejected"
                        /\ OtherEnd(x).list = "active" => End(x).their = "accepted"
      BY DEF BothAccepted, OtherEnd
    <2>1. End(x).our = "accepted" /\ ChainOf[PeerOf(x)] = ChainOf[x[1][x[2]]]
      BY <1>1 DEF EndRight, NodeOf
    <2>2. OtherEnd(x).list = "none" \/ OtherEnd(x).their = "accepted"
      BY <1>1, <2>1 DEF PairRight, OneAnswer, Answers
    <2> DEFINE y == <<x[1], Other(x[2])>>
    <2>3. y \in Ends /\ End(y) = OtherEnd(x) /\ OtherEnd(y) = End(x)
      <3>1. x[1] \in Conns /\ x[2] \in {1, 2}
        BY EndFacts DEF Sides
      <3>2. Other(x[2]) \in Sides /\ Other(Other(x[2])) = x[2]
        BY <3>1 DEF Other, Sides
      <3> QED BY <3>1, <3>2 DEF Ends, End, OtherEnd
    <2>4. OtherEnd(x).our \in Answers => End(x).their = OtherEnd(x).our
      BY <1>1, <2>3 DEF PairRight, OneAnswer, Answers
    <2>5. OtherEnd(x).list = "active" => OtherEnd(x).our = "accepted"
      BY <1>1, <2>3 DEF EndRight
    <2> QED BY <2>1, <2>2, <2>4, <2>5 DEF Answers
  <1>7. KnownAreReachable
    BY <1>t DEF KnownAreReachable, ConnTypes, Reachable
  <1> QED BY <1>3, <1>4, <1>5, <1>6, <1>7 DEF ConnectionsSound

\* However many connections nodes open to each other at once, whatever breaks, whoever
\* gives up and however late a hello is sent: a node keeps one accepted connection per
\* peer and no more than allowed, none is active with itself, what is active at one end
\* was accepted by the other, and no unreachable endpoint is known.
THEOREM ConnectionsAlwaysSound == ConnectionsSpec => []ConnectionsSound
  <1>1. ConnectionsInit => ConnInv
    BY InitInv
  <1>2. ConnInv /\ [ConnectionsNext]_connVars => ConnInv'
    BY NextInv
  <1>3. ConnInv => ConnectionsSound
    BY InvSound
  <1> QED BY <1>1, <1>2, <1>3, PTL DEF ConnectionsSpec

-----------------------------------------------------------------------------
(***************************************************************************)
(* Messages, for every set of messages, sizes and buffers.                 *)
(*                                                                         *)
(* The invariant follows every block (ReaderRight): what the peer has got, *)
(* what is on its way and what is being written are, end to end, the       *)
(* blocks of the messages taken from the queue, each followed by the next  *)
(* of its message or by the first of the next message, and they start      *)
(* right after the last message handled.  The reader is in step because    *)
(* its unsigned arithmetic asks for as many blocks as the writer padded    *)
(* the message to (BlocksPositive).                                        *)
(***************************************************************************)
Contents == Payloads \cup Items
Queued == [no : Nat, what : Contents]
CipherBlock == [no : Nat, what : Contents, at : Nat]

\* The number of blocks a message takes.
BlocksOf(x) == (HeaderBytes + SizeOf[x] + BlockBytes - 1) \div BlockBytes

\* A block, and the one that is sent after it.
Follows(a, b) ==
    \/ a.at < BlocksOf(a.what) /\ b.no = a.no /\ b.what = a.what /\ b.at = a.at + 1
    \/ a.at = BlocksOf(a.what) /\ b.no = a.no + 1 /\ b.at = 1

\* What the peer has and what is on its way to it.
Arriving == reader.got \o stream

Busy == IF writing = {} THEN 0 ELSE 1

MessageTypes ==
    /\ queue \in Seq(Queued) /\ queued_size \in Nat
    /\ task \in {"none", "ready", "running", "canceled"}
    /\ writing \in SUBSET Seq(CipherBlock) /\ stream \in Seq(CipherBlock)
    /\ our_end \in {"open", "closed"}
    /\ reader \in [on : BOOLEAN, got : Seq(CipherBlock), want : Nat]
    /\ handled \in Seq([no : Nat, what : Contents, in_step : BOOLEAN])
    /\ taken \in Seq(Queued) /\ accepted_count \in Nat
    /\ \A v, w \in writing : v = w

\* While our end is open messages are taken in the order of their numbers, and what is
\* being written is the rest of the last one taken.
NumbersRight ==
    our_end = "open" =>
        /\ \A j \in 1..Len(taken) : taken[j].no = j
        /\ \A i \in 1..Len(queue) : queue[i].no = Len(taken) - Busy + i
        /\ accepted_count = Len(taken) - Busy + Len(queue)
        /\ writing # {} => queue # <<>> /\ taken # <<>>
        /\ \A w \in writing :
              /\ Len(w) \in 1..BlocksOf(taken[Len(taken)].what)
              /\ \A i \in 1..Len(w) :
                    w[i] = [no |-> Len(taken), what |-> taken[Len(taken)].what,
                            at |-> BlocksOf(taken[Len(taken)].what) - Len(w) + i]

HandledRight ==
    /\ Len(handled) <= Len(taken)
    /\ \A i \in 1..Len(handled) :
          handled[i].in_step /\ handled[i].no = taken[i].no /\ handled[i].what = taken[i].what

\* What arrives are blocks of messages that were taken, one after the other from the one
\* after the last handled,
Framed(r, h) ==
    /\ \A i \in 1..Len(r) :
          /\ r[i].no \in 1..Len(taken) /\ r[i].at \in 1..BlocksOf(r[i].what)
          /\ taken[r[i].no] = [no |-> r[i].no, what |-> r[i].what]
    /\ r # <<>> => r[1].no = h + 1 /\ r[1].at = 1
    /\ \A i \in 1..Len(r) - 1 : Follows(r[i], r[i + 1])

\* and what is being written comes next.
Continued(r, h) ==
    /\ writing = {} => IF r = <<>> THEN h = Len(taken)
                       ELSE r[Len(r)].no = Len(taken) /\ r[Len(r)].at = BlocksOf(r[Len(r)].what)
    /\ \A w \in writing : IF r = <<>> THEN w[1].no = h + 1 /\ w[1].at = 1
                          ELSE Follows(r[Len(r)], w[1])

ReaderRight ==
    reader.on =>
        /\ Framed(Arriving, Len(handled))
        /\ our_end = "open" => Continued(Arriving, Len(handled))
        /\ IF reader.got = <<>> THEN reader.want = 1
           ELSE /\ reader.want = BlocksOf(reader.got[1].what)
                /\ Len(reader.got) < reader.want

MessageInv == MessageTypes /\ NumbersRight /\ HandledRight /\ ReaderRight /\ QueueCounted

-----------------------------------------------------------------------------
LEMMA BlocksPositive ==
  ASSUME NEW x \in Contents
  PROVE  /\ SizeOf[x] \in Nat /\ BlocksOf(x) \in Nat \ {0}
         /\ 1 + RemainingBlocks(SizeOf[x]) = BlocksOf(x)
  <1>1. SizeOf[x] \in Nat /\ SizeOf[x] + BlockBytes < SizeModulus /\ HeaderBytes >= 1
        /\ HeaderBytes < BlockBytes /\ HeaderBytes \in Nat /\ BlockBytes \in Nat /\ SizeModulus \in Nat
    BY MessageConnectionAssumption DEF Contents
  <1> DEFINE n == SizeOf[x] + HeaderBytes - 1
  <1>2. n \in Nat /\ n < SizeModulus /\ BlockBytes >= 1
    BY <1>1
  <1>3. HeaderBytes + SizeOf[x] + BlockBytes - 1 = n + BlockBytes
    BY <1>1
  <1>4. SizeOf[x] + SizeModulus - (BlockBytes - HeaderBytes) + BlockBytes - 1 = n + SizeModulus
    BY <1>1
  <1> HIDE DEF n
  <1>5. (n + SizeModulus) % SizeModulus = n
    <2> DEFINE one == 1
    <2>0. one \in Nat /\ SizeModulus >= 1 /\ n \in 0 .. SizeModulus - 1
      BY <1>1, <1>2
    <2> HIDE DEF one
    <2>1. (one * SizeModulus + n) % SizeModulus = n
      BY <1>1, <2>0, DivMod
    <2>2. one * SizeModulus + n = n + SizeModulus
      BY <1>1, <1>2 DEF one
    <2> QED BY <2>1, <2>2
  <1>6. n \div BlockBytes \in Nat /\ n % BlockBytes \in 0 .. BlockBytes - 1
        /\ n = (n \div BlockBytes) * BlockBytes + (n % BlockBytes)
    BY <1>1, <1>2, Divided
  <1>7. (n + BlockBytes) \div BlockBytes = (n \div BlockBytes) + 1
    <2> DEFINE q == n \div BlockBytes
               r == n % BlockBytes
    <2>1. q \in Nat /\ r \in 0 .. BlockBytes - 1 /\ n = q * BlockBytes + r
      BY <1>6
    <2> HIDE DEF q, r
    <2> DEFINE p == q + 1
    <2>2. p \in Nat /\ p * BlockBytes + r = n + BlockBytes
      BY <1>1, <2>1
    <2> HIDE DEF p
    <2>3. (p * BlockBytes + r) \div BlockBytes = p
      BY <1>1, <1>2, <2>1, <2>2, DivMod
    <2> QED BY <2>2, <2>3 DEF p, q
  <1>8. BlocksOf(x) = (n \div BlockBytes) + 1
    BY <1>3, <1>7 DEF BlocksOf
  <1>9. RemainingBlocks(SizeOf[x]) = n \div BlockBytes
    BY <1>4, <1>5 DEF RemainingBlocks
  <1> QED BY <1>1, <1>6, <1>8, <1>9

\* The blocks of the first message that arrives have its number and their places.
LEMMA FirstMessage ==
  ASSUME NEW r \in Seq(CipherBlock), NEW h \in Nat, Framed(r, h), NEW i \in 1..Len(r), i <= BlocksOf(r[1].what)
  PROVE  r[i] = [no |-> r[1].no, what |-> r[1].what, at |-> i]
  <1> DEFINE G == {k \in Nat : k + 1 <= Len(r) /\ k + 1 <= BlocksOf(r[1].what) =>
                      r[k + 1].no = r[1].no /\ r[k + 1].what = r[1].what /\ r[k + 1].at = k + 1}
  <1>0. Len(r) \in Nat /\ \A k \in 1..Len(r) : r[k] \in CipherBlock
    OBVIOUS
  <1>1. 0 \in G
    BY <1>0 DEF Framed
  <1>a. r[1] \in CipherBlock
    BY <1>0
  <1>b. BlocksOf(r[1].what) \in Nat
    BY <1>a, BlocksPositive DEF CipherBlock
  <1>2. ASSUME NEW k \in Nat, k \in G PROVE k + 1 \in G
    <2>1. SUFFICES ASSUME k + 2 <= Len(r), k + 2 <= BlocksOf(r[1].what)
                   PROVE  r[k + 2].no = r[1].no /\ r[k + 2].what = r[1].what /\ r[k + 2].at = k + 2
      OBVIOUS
    <2>2. r[k + 1].no = r[1].no /\ r[k + 1].what = r[1].what /\ r[k + 1].at = k + 1
      BY <1>0, <1>2, <1>b, <2>1
    <2>3. Follows(r[k + 1], r[k + 2])
      <3>1. k + 1 \in 1..Len(r) - 1
        BY <1>0, <2>1
      <3>2. Follows(r[k + 1], r[(k + 1) + 1])
        BY <3>1 DEF Framed
      <3> QED BY <3>2
    <2> QED BY <1>b, <2>1, <2>2, <2>3 DEF Follows
  <1>3. Nat \subseteq G
    <2> HIDE DEF G
    <2> QED BY <1>1, <1>2, NatSetInduction
  <1>c. i - 1 \in Nat
    BY <1>0
  <1>4. i - 1 \in G
    BY <1>3, <1>c
  <1>5. r[i].no = r[1].no /\ r[i].what = r[1].what /\ r[i].at = i
    BY <1>0, <1>4
  <1>6. r[i] \in CipherBlock
    BY <1>0
  <1> QED BY <1>5, <1>6 DEF CipherBlock

-----------------------------------------------------------------------------
(* The size of what is queued. *)

SizesOf(q) == [i \in DOMAIN q |-> get_size_in_queue(q[i])]

LEMMA SizeInQueue ==
  ASSUME NEW m \in Queued PROVE get_size_in_queue(m) \in Nat
  BY MessageConnectionAssumption DEF get_size_in_queue, Queued, Contents

\* The sum over a row is the first entry and the sum over the rest.
LEMMA SumFirst ==
  ASSUME NEW n \in Nat, NEW f \in [1..n + 1 -> Nat], NEW g \in [1..n -> Nat],
         \A i \in 1..n : g[i] = f[i + 1]
  PROVE  SumFunctionOnSet(f, 1..n + 1) = f[1] + SumFunctionOnSet(g, 1..n)
  <1> DEFINE G == {k \in Nat : k <= n => SumFunctionOnSet(f, 1..k + 1) = f[1] + SumFunctionOnSet(g, 1..k)}
  <1>1. 0 \in G
    <2>1. 1..0 + 1 = {1} /\ 1..0 = {} /\ f[1] \in Int
      OBVIOUS
    <2>2. SumFunctionOnSet(f, {1}) = f[1]
      BY <2>1, SumOfOne
    <2>3. SumFunctionOnSet(g, {}) = 0
      BY SumEmpty
    <2> QED BY <2>1, <2>2, <2>3
  <1>2. ASSUME NEW k \in Nat, k \in G PROVE k + 1 \in G
    <2>1. SUFFICES ASSUME k + 1 <= n
                   PROVE  SumFunctionOnSet(f, 1..(k + 1) + 1) = f[1] + SumFunctionOnSet(g, 1..k + 1)
      OBVIOUS
    <2>2. SumFunctionOnSet(f, 1..k + 1) = f[1] + SumFunctionOnSet(g, 1..k)
      BY <1>2, <2>1
    <2>3. 1..(k + 1) + 1 = (1..k + 1) \cup {(k + 1) + 1} /\ (k + 1) + 1 \notin 1..k + 1
          /\ 1..k + 1 = (1..k) \cup {k + 1} /\ k + 1 \notin 1..k
      OBVIOUS
    <2>4. IsFiniteSet(1..k + 1) /\ IsFiniteSet(1..k)
      <3>1. 1 \in Int /\ k \in Int /\ k + 1 \in Int
        OBVIOUS
      <3> QED BY <3>1, FS_Interval
    <2>5. \A i \in (1..k + 1) \cup {(k + 1) + 1} : f[i] \in Int
      BY <2>1
    <2>6. \A i \in (1..k) \cup {k + 1} : g[i] \in Int
      BY <2>1
    <2>7. SumFunctionOnSet(f, (1..k + 1) \cup {(k + 1) + 1}) = f[(k + 1) + 1] + SumFunctionOnSet(f, 1..k + 1)
      BY <2>3, <2>4, <2>5, SumAdd
    <2>8. SumFunctionOnSet(g, (1..k) \cup {k + 1}) = g[k + 1] + SumFunctionOnSet(g, 1..k)
      BY <2>3, <2>4, <2>6, SumAdd
    <2>9. g[k + 1] = f[(k + 1) + 1] /\ g[k + 1] \in Int /\ f[1] \in Int
      BY <2>1
    <2>10. SumFunctionOnSet(g, 1..k) \in Int
      BY <2>4, <2>6, SumInteger
    <2>11. SumFunctionOnSet(f, 1..(k + 1) + 1) = f[(k + 1) + 1] + SumFunctionOnSet(f, 1..k + 1)
      BY <2>3, <2>7
    <2>12. SumFunctionOnSet(g, 1..k + 1) = g[k + 1] + SumFunctionOnSet(g, 1..k)
      BY <2>3, <2>8
    <2> QED BY <2>2, <2>9, <2>10, <2>11, <2>12
  <1>3. Nat \subseteq G
    <2> HIDE DEF G
    <2> QED BY <1>1, <1>2, NatSetInduction
  <1> QED BY <1>3

\* A message more, at the end, and one less, at the front.
LEMMA QueueGrows ==
  ASSUME NEW q \in Seq(Queued), NEW m \in Queued
  PROVE  SumFunction(SizesOf(Append(q, m))) = SumFunction(SizesOf(q)) + get_size_in_queue(m)
  <1> DEFINE n == Len(q)
             f == SizesOf(q)
             g == SizesOf(Append(q, m))
  <1>1. n \in Nat /\ DOMAIN f = 1..n /\ DOMAIN g = (1..n) \cup {n + 1} /\ n + 1 \notin 1..n
    BY DEF SizesOf
  <1>2. \A i \in 1..n : f[i] = get_size_in_queue(q[i]) /\ g[i] = get_size_in_queue(q[i]) /\ q[i] \in Queued
    BY DEF SizesOf
  <1>3. g[n + 1] = get_size_in_queue(m)
    BY DEF SizesOf
  <1>4. IsFiniteSet(1..n)
    BY <1>1, FS_Interval
  <1> HIDE DEF f, g
  <1>5. \A i \in 1..n : f[i] \in Int /\ f[i] = g[i]
    BY <1>2, SizeInQueue
  <1>6. \A i \in (1..n) \cup {n + 1} : g[i] \in Int
    BY <1>3, <1>5, SizeInQueue
  <1>7. SumFunction(g) = g[n + 1] + SumFunctionOnSet(g, 1..n)
    BY <1>1, <1>4, <1>6, SumAdd, SumIs
  <1>8. SumFunctionOnSet(g, 1..n) = SumFunctionOnSet(f, 1..n)
    BY <1>4, <1>5, SumAgree
  <1>9. SumFunction(f) = SumFunctionOnSet(f, 1..n)
    BY <1>1, SumIs
  <1>10. SumFunctionOnSet(f, 1..n) \in Int /\ g[n + 1] \in Int
    BY <1>4, <1>5, <1>6, SumInteger
  <1> QED BY <1>3, <1>7, <1>8, <1>9, <1>10 DEF f, g

LEMMA QueueShrinks ==
  ASSUME NEW q \in Seq(Queued), q # <<>>
  PROVE  /\ SumFunction(SizesOf(q)) = get_size_in_queue(Head(q)) + SumFunction(SizesOf(Tail(q)))
         /\ SumFunction(SizesOf(Tail(q))) \in Nat
  <1> DEFINE n == Len(q) - 1
             f == SizesOf(q)
             g == SizesOf(Tail(q))
  <1>1. n \in Nat /\ DOMAIN f = 1..n + 1 /\ DOMAIN g = 1..n
    BY DEF SizesOf
  <1>2. \A i \in 1..n + 1 : f[i] = get_size_in_queue(q[i]) /\ q[i] \in Queued
    BY DEF SizesOf
  <1>3. \A i \in 1..n : g[i] = get_size_in_queue(q[i + 1])
    BY DEF SizesOf
  <1>4. f \in [1..n + 1 -> Nat]
    BY <1>2, SizeInQueue DEF SizesOf
  <1>5. g \in [1..n -> Nat] /\ \A i \in 1..n : g[i] = f[i + 1]
    <2>1. \A i \in 1..n : g[i] = f[i + 1] /\ g[i] \in Nat
      BY <1>1, <1>2, <1>3, SizeInQueue
    <2> QED BY <1>1, <2>1 DEF SizesOf
  <1>6. f[1] = get_size_in_queue(Head(q))
    BY <1>1, <1>2
  <1> HIDE DEF f, g, n
  <1>7. SumFunctionOnSet(f, 1..n + 1) = f[1] + SumFunctionOnSet(g, 1..n)
    BY <1>1, <1>4, <1>5, SumFirst
  <1>8. SumFunction(f) = SumFunctionOnSet(f, 1..n + 1) /\ SumFunction(g) = SumFunctionOnSet(g, 1..n)
    BY <1>1, SumIs
  <1>9. IsFiniteSet(1..n)
    BY <1>1, FS_Interval
  <1>10. SumFunction(g) \in Nat
    BY <1>5, <1>9, SumType
  <1> QED BY <1>6, <1>7, <1>8, <1>10 DEF f, g

-----------------------------------------------------------------------------
(* The steps. *)

LEMMA MessageInit == MessageConnectionInit => MessageInv
  <1> SUFFICES ASSUME MessageConnectionInit PROVE MessageInv
    OBVIOUS
  <1> USE DEF MessageConnectionInit
  <1>1. MessageTypes
    BY DEF MessageTypes, Idle
  <1>2. NumbersRight /\ HandledRight
    BY DEF NumbersRight, HandledRight, Busy
  <1>3. ReaderRight
    <2>1. Arriving = <<>>
      BY DEF Arriving, Idle
    <2> QED BY <2>1 DEF ReaderRight, Framed, Continued, Idle
  <1>4. QueueCounted
    <2>1. queued_size = SumFunctionOnSet([i \in DOMAIN queue |-> get_size_in_queue(queue[i])], {})
      BY SumEmpty
    <2>2. SumFunction([i \in DOMAIN queue |-> get_size_in_queue(queue[i])])
            = SumFunctionOnSet([i \in DOMAIN queue |-> get_size_in_queue(queue[i])], {})
      BY SumIs
    <2> QED BY <2>1, <2>2, MessageConnectionAssumption DEF QueueCounted
  <1> QED BY <1>1, <1>2, <1>3, <1>4 DEF MessageInv

LEMMA FramedKept ==
  ASSUME MessageTypes, Framed(Arriving, Len(handled)), UNCHANGED <<stream, reader, handled>>,
         MessageTypes', Len(taken) <= Len(taken'), \A j \in 1..Len(taken) : taken'[j] = taken[j]
  PROVE  Framed(Arriving, Len(handled))' /\ Arriving' = Arriving /\ Arriving \in Seq(CipherBlock)
  <1>1. Arriving' = Arriving /\ Len(handled)' = Len(handled)
    BY DEF Arriving
  <1>2. Arriving \in Seq(CipherBlock)
    BY DEF Arriving, MessageTypes
  <1>3. Len(taken) \in Nat /\ Len(taken') \in Nat
    BY DEF MessageTypes
  <1> QED BY <1>1, <1>2, <1>3 DEF Framed

LEMMA SendInv ==
  ASSUME MessageInv, NEW x \in Payloads \cup Items, send_queueable_message(x)
  PROVE  MessageInv'
  <1> DEFINE m == [no |-> accepted_count + 1, what |-> x]
             size == queued_size + get_size_in_queue(m)
  <1>1. m \in Queued /\ size \in Nat /\ m.no = accepted_count + 1
    <2>1. m \in Queued
      BY DEF MessageInv, MessageTypes, Queued, Contents
    <2>2. get_size_in_queue(m) \in Nat
      BY <2>1, SizeInQueue
    <2> QED BY <2>1, <2>2 DEF MessageInv, MessageTypes
  <1>2. /\ accepted_count' = accepted_count + 1 /\ queue' = Append(queue, m) /\ queued_size' = size
        /\ IF size > MaxQueued THEN our_end' = "closed" /\ task' = task
           ELSE our_end' = our_end /\ task' = Started
        /\ UNCHANGED <<writing, stream, reader, handled, taken>>
    BY DEF send_queueable_message, CloseOurEnd
  <1> HIDE DEF m, size
  <1>3. MessageTypes'
    BY <1>1, <1>2 DEF MessageInv, MessageTypes, Started
  <1>4. our_end' = "open" => our_end = "open" /\ size <= MaxQueued
    BY <1>1, <1>2, MessageConnectionAssumption
  <1>5. NumbersRight'
    <2> SUFFICES ASSUME our_end' = "open" PROVE NumbersRight'
      BY DEF NumbersRight
    <2>1. NumbersRight /\ our_end = "open" /\ Busy' = Busy /\ Busy \in {0, 1}
      BY <1>2, <1>4 DEF MessageInv, Busy
    <2>2. queue \in Seq(Queued) /\ Len(queue') = Len(queue) + 1 /\ Len(queue) \in Nat /\ Len(taken) \in Nat
          /\ queue'[Len(queue) + 1] = m /\ \A i \in 1..Len(queue) : queue'[i] = queue[i]
      BY <1>1, <1>2 DEF MessageInv, MessageTypes
    <2>3. \A i \in 1..Len(queue') : queue'[i].no = Len(taken') - Busy' + i
      <3>1. \A i \in 1..Len(queue) : queue'[i].no = Len(taken) - Busy + i
        BY <2>1, <2>2 DEF NumbersRight
      <3>2. queue'[Len(queue) + 1].no = Len(taken) - Busy + (Len(queue) + 1)
        BY <1>1, <2>1, <2>2 DEF NumbersRight
      <3> QED BY <1>2, <2>1, <2>2, <3>1, <3>2
    <2>4. accepted_count' = Len(taken') - Busy' + Len(queue')
      BY <1>2, <2>1, <2>2 DEF NumbersRight
    <2>5. queue' # <<>>
      BY <2>2
    <2> QED BY <1>2, <2>1, <2>3, <2>4, <2>5 DEF NumbersRight
  <1>6. HandledRight'
    BY <1>2 DEF MessageInv, HandledRight
  <1>7. ReaderRight'
    <2> SUFFICES ASSUME reader.on PROVE ReaderRight'
      BY <1>2 DEF ReaderRight
    <2>1. Framed(Arriving, Len(handled))' /\ Arriving' = Arriving
      BY <1>2, <1>3, FramedKept DEF MessageInv, ReaderRight, MessageTypes
    <2>2. our_end' = "open" => Continued(Arriving, Len(handled))'
      BY <1>2, <1>4, <2>1 DEF MessageInv, ReaderRight, Continued
    <2> QED BY <1>2, <2>1, <2>2 DEF MessageInv, ReaderRight
  <1>8. QueueCounted'
    <2>1. SumFunction(SizesOf(queue')) = SumFunction(SizesOf(queue)) + get_size_in_queue(m)
      BY <1>1, <1>2, QueueGrows DEF MessageInv, MessageTypes
    <2>2. queued_size = SumFunction(SizesOf(queue))
      BY DEF MessageInv, QueueCounted, SizesOf
    <2>3. queued_size' = SumFunction(SizesOf(queue'))
      BY <1>2, <2>1, <2>2 DEF size
    <2> QED BY <1>2, <1>4, <2>3 DEF QueueCounted, SizesOf
  <1> QED BY <1>3, <1>5, <1>6, <1>7, <1>8 DEF MessageInv

\* Nothing is written any more, and what was taken stays.
LEMMA MessageClosedInv ==
  ASSUME MessageInv, MessageTypes', our_end' = "closed", UNCHANGED <<queue, queued_size, stream, reader, handled, taken>>
  PROVE  MessageInv'
  <1>1. NumbersRight' /\ HandledRight'
    BY DEF MessageInv, NumbersRight, HandledRight
  <1>2. ReaderRight'
    <2> SUFFICES ASSUME reader.on PROVE ReaderRight'
      BY DEF ReaderRight
    <2>1. Framed(Arriving, Len(handled))'
      BY FramedKept DEF MessageInv, ReaderRight, MessageTypes
    <2> QED BY <2>1 DEF MessageInv, ReaderRight
  <1>3. QueueCounted'
    BY DEF MessageInv, QueueCounted, get_size_in_queue
  <1> QED BY <1>1, <1>2, <1>3 DEF MessageInv

LEMMA FailsInv ==
  ASSUME MessageInv, NEW w \in writing, WriteFails(w) PROVE MessageInv'
  <1>1. MessageTypes'
    BY DEF MessageInv, MessageTypes, WriteFails, CloseOurEnd
  <1> QED BY <1>1, MessageClosedInv DEF WriteFails, CloseOurEnd

LEMMA DestroyInv == ASSUME MessageInv, destroy PROVE MessageInv'
  <1>1. MessageTypes'
    BY DEF MessageInv, MessageTypes, destroy, CloseOurEnd
  <1> QED BY <1>1, MessageClosedInv DEF destroy, CloseOurEnd

LEMMA ReadFailsInv == ASSUME MessageInv, ReadFails \/ peer_inactive PROVE MessageInv'
  <1>1. reader' = [reader EXCEPT !.on = FALSE] /\ UNCHANGED <<queue, queued_size, task, writing, stream, our_end, handled,
           taken, accepted_count>>
    BY DEF ReadFails, peer_inactive
  <1>2. MessageTypes' /\ reader'.on = FALSE
    BY <1>1 DEF MessageInv, MessageTypes
  <1>3. NumbersRight' /\ HandledRight' /\ ReaderRight' /\ QueueCounted'
    BY <1>1, <1>2 DEF MessageInv, NumbersRight, HandledRight, ReaderRight, QueueCounted, get_size_in_queue, Busy
  <1> QED BY <1>2, <1>3 DEF MessageInv

\* All but what the messages are about is left alone.
LEMMA SameInv ==
  ASSUME MessageInv, task' \in {"none", "ready", "running", "canceled"},
         UNCHANGED <<queue, queued_size, writing, stream, our_end, reader, handled, taken, accepted_count>>
  PROVE  MessageInv'
  <1>1. MessageTypes'
    BY DEF MessageInv, MessageTypes
  <1>2. NumbersRight' /\ HandledRight' /\ QueueCounted'
    BY DEF MessageInv, NumbersRight, HandledRight, QueueCounted, get_size_in_queue, Busy
  <1>3. ReaderRight'
    BY DEF MessageInv, ReaderRight, Framed, Continued, Arriving
  <1> QED BY <1>1, <1>2, <1>3 DEF MessageInv

LEMMA TaskInv ==
  ASSUME MessageInv, send_queued_messages_task, queue # <<>>, ~get_message_throws(Head(queue))
  PROVE  MessageInv'
  <1> DEFINE m == Head(queue)
             n == BlocksOf(m.what)
             t == [no |-> m.no, what |-> m.what]
  <1>1. writing = {} /\ writing' = {Padded(m)} /\ taken' = Append(taken, m)
        /\ UNCHANGED <<queue, queued_size, task, stream, our_end, reader, handled, accepted_count>>
    BY DEF send_queued_messages_task
  <1>2. MessageTypes /\ Head(queue) = queue[1] /\ Head(queue) \in Queued /\ Len(queue) \in Nat /\ Len(queue) >= 1
    BY DEF MessageInv, MessageTypes
  <1>3. m.no = queue[1].no /\ m.no \in Nat /\ m.what \in Contents /\ m = t
    BY <1>2 DEF Queued
  <1>4. n \in Nat \ {0}
    BY <1>3, BlocksPositive
  <1>5. Padded(m) = [i \in 1..n |-> [no |-> m.no, what |-> m.what, at |-> i]]
    BY DEF Padded, BlocksOf
  <1> HIDE DEF m, n
  <1>6. Padded(m) \in Seq(CipherBlock) /\ Len(Padded(m)) = n
        /\ \A i \in 1..n : Padded(m)[i] = [no |-> m.no, what |-> m.what, at |-> i]
    <2>1. \A i \in 1..n : [no |-> m.no, what |-> m.what, at |-> i] \in CipherBlock
      BY <1>3 DEF CipherBlock
    <2> QED BY <1>4, <1>5, <2>1, IsASeq
  <1>7. t \in Queued /\ taken' \in Seq(Queued) /\ Len(taken') = Len(taken) + 1 /\ taken'[Len(taken) + 1] = t
        /\ (\A j \in 1..Len(taken) : taken'[j] = taken[j]) /\ Len(taken) \in Nat
    BY <1>1, <1>2, <1>3 DEF MessageTypes, Queued
  <1>8. MessageTypes'
    BY <1>1, <1>2, <1>6, <1>7 DEF MessageTypes
  <1>9. our_end = "open" => m.no = Len(taken) + 1 /\ Busy = 0 /\ Busy' = 1
    BY <1>1, <1>2, <1>3, <1>7 DEF MessageInv, NumbersRight, Busy
  <1>10. NumbersRight'
    <2> SUFFICES ASSUME our_end = "open" PROVE NumbersRight'
      BY <1>1 DEF NumbersRight
    <2>1. NumbersRight /\ accepted_count = Len(taken) + Len(queue)
      BY <1>2, <1>7, <1>9 DEF MessageInv, NumbersRight
    <2>2. \A j \in 1..Len(taken') : taken'[j].no = j
      BY <1>7, <1>9, <2>1 DEF NumbersRight
    <2>3. \A i \in 1..Len(queue') : queue'[i].no = Len(taken') - Busy' + i
      BY <1>1, <1>2, <1>7, <1>9, <2>1 DEF NumbersRight
    <2>4. accepted_count' = Len(taken') - Busy' + Len(queue')
      BY <1>1, <1>2, <1>7, <1>9, <2>1
    <2>5. taken'[Len(taken')].what = m.what
      BY <1>7
    <2>6. \A i \in 1..n : Padded(m)[i] = [no |-> Len(taken'), what |-> m.what, at |-> n - n + i]
      <3>1. \A i \in 1..n : n - n + i = i
        BY <1>4
      <3>2. m.no = Len(taken')
        BY <1>7, <1>9
      <3> QED BY <1>6, <3>1, <3>2
    <2>7. BlocksOf(taken'[Len(taken')].what) = n
      BY <2>5 DEF n
    <2>8. taken' # <<>> /\ queue' # <<>>
      BY <1>1, <1>7
    <2>9. ASSUME NEW w \in writing'
          PROVE  /\ Len(w) \in 1..BlocksOf(taken'[Len(taken')].what)
                 /\ \A i \in 1..Len(w) :
                       w[i] = [no |-> Len(taken'), what |-> taken'[Len(taken')].what,
                               at |-> BlocksOf(taken'[Len(taken')].what) - Len(w) + i]
      <3>1. w = Padded(m) /\ Len(w) = n
        BY <1>1, <1>6, <2>9
      <3>2. Len(w) \in 1..n
        BY <1>4, <3>1
      <3> QED BY <2>5, <2>6, <2>7, <3>1, <3>2
    <2> QED BY <2>2, <2>3, <2>4, <2>8, <2>9 DEF NumbersRight
  <1>11. HandledRight'
    BY <1>1, <1>7 DEF MessageInv, HandledRight, MessageTypes
  <1>12. ReaderRight'
    <2> SUFFICES ASSUME reader.on PROVE ReaderRight'
      BY <1>1 DEF ReaderRight
    <2>1. Framed(Arriving, Len(handled))' /\ Arriving' = Arriving /\ Arriving \in Seq(CipherBlock)
      BY <1>1, <1>2, <1>7, <1>8, FramedKept DEF MessageInv, ReaderRight
    <2>2. ASSUME our_end = "open" PROVE Continued(Arriving, Len(handled))'
      <3>1. Continued(Arriving, Len(handled))
        BY <2>2 DEF MessageInv, ReaderRight
      <3>2. Padded(m)[1].no = Len(taken) + 1 /\ Padded(m)[1].at = 1
        BY <1>4, <1>6, <1>9, <2>2
      <3>3. Arriving # <<>> => Follows(Arriving[Len(Arriving)], Padded(m)[1])
        BY <1>1, <3>1, <3>2 DEF Continued, Follows
      <3>4. Arriving = <<>> => Padded(m)[1].no = Len(handled) + 1
        BY <1>1, <3>1, <3>2 DEF Continued
      <3> QED BY <1>1, <2>1, <3>2, <3>3, <3>4 DEF Continued
    <2> QED BY <1>1, <2>1, <2>2 DEF MessageInv, ReaderRight
  <1>13. QueueCounted'
    BY <1>1 DEF MessageInv, QueueCounted, get_size_in_queue
  <1> QED BY <1>8, <1>10, <1>11, <1>12, <1>13 DEF MessageInv

\* q is r with the first n blocks of w after it.
Grown(r, q, w, n) ==
    /\ r \in Seq(CipherBlock) /\ q \in Seq(CipherBlock) /\ Len(q) = Len(r) + n /\ q # <<>>
    /\ (\A i \in 1..Len(r) : q[i] = r[i]) /\ (\A j \in 1..n : q[Len(r) + j] = w[j])

\* What is added at the end arrives after the rest.
LEMMA ArrivingGrows ==
  ASSUME NEW g \in Seq(CipherBlock), NEW s \in Seq(CipherBlock), NEW w \in Seq(CipherBlock),
         NEW n \in 1..Len(w)
  PROVE  Grown(g \o s, g \o (s \o SubSeq(w, 1, n)), w, n)
  <1> DEFINE u == SubSeq(w, 1, n)
             r == g \o s
             q == g \o (s \o u)
  <1>1. u \in Seq(CipherBlock) /\ Len(u) = n /\ \A j \in 1..n : u[j] = w[j]
    OBVIOUS
  <1> HIDE DEF u
  <1>2. r \in Seq(CipherBlock) /\ Len(r) = Len(g) + Len(s) /\ Len(g) \in Nat /\ Len(s) \in Nat /\ n \in Nat /\ n >= 1
    OBVIOUS
  <1>a. s \o u \in Seq(CipherBlock) /\ Len(s \o u) = Len(s) + n
        /\ \A i \in 1..Len(s) + n : (s \o u)[i] = IF i <= Len(s) THEN s[i] ELSE u[i - Len(s)]
    <2>1. s \o u \in Seq(CipherBlock) /\ Len(s \o u) = Len(s) + Len(u)
          /\ \A i \in 1..Len(s) + Len(u) : (s \o u)[i] = IF i <= Len(s) THEN s[i] ELSE u[i - Len(s)]
      BY <1>1, ConcatProperties
    <2> QED BY <1>1, <2>1
  <1>b. q \in Seq(CipherBlock) /\ Len(q) = Len(g) + (Len(s) + n)
        /\ \A i \in 1..Len(g) + (Len(s) + n) : q[i] = IF i <= Len(g) THEN g[i] ELSE (s \o u)[i - Len(g)]
    <2> DEFINE t == s \o u
    <2> HIDE DEF t
    <2>1. t \in Seq(CipherBlock) /\ Len(t) = Len(s) + n
      BY <1>a DEF t
    <2>2. g \o t \in Seq(CipherBlock) /\ Len(g \o t) = Len(g) + Len(t)
          /\ \A i \in 1..Len(g) + Len(t) : (g \o t)[i] = IF i <= Len(g) THEN g[i] ELSE t[i - Len(g)]
      BY <2>1, ConcatProperties
    <2> QED BY <2>1, <2>2 DEF t
  <1>c. \A i \in 1..Len(r) : r[i] = IF i <= Len(g) THEN g[i] ELSE s[i - Len(g)]
    OBVIOUS
  <1> HIDE DEF r, q
  <1>d. ASSUME NEW i \in 1..Len(r) PROVE q[i] = r[i]
    <2>1. CASE i <= Len(g)
      <3>1. i \in 1..Len(g) + (Len(s) + n)
        BY <1>2
      <3> QED BY <1>b, <1>c, <2>1, <3>1
    <2>2. CASE ~(i <= Len(g))
      <3>1. i \in 1..Len(g) + (Len(s) + n) /\ i - Len(g) \in 1..Len(s) + n /\ i - Len(g) <= Len(s)
        BY <1>2, <2>2
      <3> QED BY <1>a, <1>b, <1>c, <2>2, <3>1
    <2> QED BY <2>1, <2>2
  <1>e. ASSUME NEW j \in 1..n PROVE q[Len(r) + j] = u[j]
    <2>1. /\ Len(r) + j \in 1..Len(g) + (Len(s) + n) /\ ~(Len(r) + j <= Len(g))
          /\ (Len(r) + j) - Len(g) = Len(s) + j
          /\ Len(s) + j \in 1..Len(s) + n /\ ~(Len(s) + j <= Len(s)) /\ (Len(s) + j) - Len(s) = j
      BY <1>2
    <2>2. q[Len(r) + j] = (s \o u)[Len(s) + j]
      BY <1>b, <2>1
    <2> QED BY <1>a, <2>1, <2>2
  <1>4. q \in Seq(CipherBlock) /\ Len(q) = Len(r) + n /\ (\A i \in 1..Len(r) : q[i] = r[i])
        /\ \A j \in 1..n : q[Len(r) + j] = u[j]
    BY <1>2, <1>b, <1>d, <1>e
  <1>5. q # <<>>
    BY <1>2, <1>4
  <1>6. \A j \in 1..n : q[Len(r) + j] = w[j]
    BY <1>1, <1>4
  <1> QED BY <1>2, <1>4, <1>5, <1>6 DEF r, q, u, Grown

LEMMA WriteInv ==
  ASSUME MessageInv, NEW w \in writing, writesome(w) PROVE MessageInv'
  <1> DEFINE n == IF Len(w) < BufferBlocks THEN Len(w) ELSE BufferBlocks
             left == SubSeq(w, n + 1, Len(w))
             L == Len(taken)
             x == taken[L].what
             b == BlocksOf(x)
  <1>1. /\ our_end = "open" /\ stream' = stream \o SubSeq(w, 1, n)
        /\ writing' = (writing \ {w}) \cup (IF left = <<>> THEN {} ELSE {left})
        /\ Sent(left)
        /\ UNCHANGED <<task, our_end, reader, handled, taken, accepted_count>>
    BY DEF writesome
  <1>2. MessageTypes /\ NumbersRight /\ w \in Seq(CipherBlock) /\ writing = {w} /\ Len(w) \in Nat
    BY DEF MessageInv, MessageTypes
  <1>3. /\ L \in Nat /\ L >= 1 /\ x \in Contents /\ Len(w) \in 1..b /\ queue # <<>> /\ Busy = 1
        /\ \A i \in 1..Len(w) : w[i] = [no |-> L, what |-> x, at |-> b - Len(w) + i]
    <2>1. taken \in Seq(Queued) /\ taken # <<>>
      BY <1>1, <1>2 DEF NumbersRight, MessageTypes
    <2>2. L \in Nat /\ L >= 1 /\ taken[L] \in Queued
      BY <2>1
    <2> QED BY <1>1, <1>2, <2>2 DEF NumbersRight, Queued, Busy
  <1>4. b \in Nat \ {0}
    BY <1>3, BlocksPositive
  <1>5. n \in 1..Len(w) /\ BufferBlocks \in Nat \ {0}
    BY <1>2, <1>3, MessageConnectionAssumption
  <1> HIDE DEF n, x, b
  <1>6. left \in Seq(CipherBlock) /\ Len(left) = Len(w) - n /\ (left = <<>> <=> n = Len(w))
        /\ \A i \in 1..Len(left) : left[i] = w[n + i]
    <2>1. left \in Seq(CipherBlock) /\ Len(left) = Len(w) - n
      BY <1>2, <1>5
    <2>2. \A i \in 1..Len(left) : left[i] = w[n + i]
      BY <1>2, <1>5, <2>1
    <2>3. left = <<>> <=> Len(left) = 0
      BY <2>1, EmptySeq
    <2> QED BY <1>2, <1>5, <2>1, <2>2, <2>3
  <1> HIDE DEF left, L
  <1>7. writing' = IF n = Len(w) THEN {} ELSE {left}
    BY <1>1, <1>2, <1>6
  <1>8. IF n = Len(w) THEN queued_size' = queued_size - get_size_in_queue(Head(queue)) /\ queue' = Tail(queue)
        ELSE UNCHANGED <<queue, queued_size>>
    BY <1>1, <1>6 DEF Sent
  <1>9. queue \in Seq(Queued) /\ SumFunction(SizesOf(queue)) = queued_size
    BY <1>2 DEF MessageTypes, MessageInv, QueueCounted, SizesOf
  <1>10. /\ SumFunction(SizesOf(queue)) = get_size_in_queue(Head(queue)) + SumFunction(SizesOf(Tail(queue)))
         /\ SumFunction(SizesOf(Tail(queue))) \in Nat /\ get_size_in_queue(Head(queue)) \in Nat
    <2>1. Head(queue) \in Queued
      BY <1>3, <1>9
    <2> QED BY <1>3, <1>9, <2>1, QueueShrinks, SizeInQueue
  <1>11. queue' \in Seq(Queued) /\ queued_size' = SumFunction(SizesOf(queue')) /\ queued_size' \in Nat
         /\ queued_size' <= queued_size
    <2>1. CASE n = Len(w)
      <3>1. queue' = Tail(queue) /\ Tail(queue) \in Seq(Queued)
        BY <1>3, <1>8, <1>9, <2>1
      <3>2. queued_size' = queued_size - get_size_in_queue(Head(queue))
        BY <1>8, <2>1
      <3> DEFINE k == get_size_in_queue(Head(queue))
                 l == SumFunction(SizesOf(Tail(queue)))
      <3>3. queued_size = k + l /\ k \in Nat /\ l \in Nat
        BY <1>9, <1>10
      <3> HIDE DEF k, l
      <3>4. queued_size' = l /\ l <= queued_size
        BY <3>2, <3>3 DEF k
      <3> QED BY <3>1, <3>3, <3>4 DEF l
    <2>2. CASE n # Len(w)
      BY <1>2, <1>8, <1>9, <2>2 DEF MessageTypes
    <2> QED BY <2>1, <2>2
  <1> DEFINE r == Arriving
             q == Arriving'
  <1>12. /\ r \in Seq(CipherBlock) /\ q \in Seq(CipherBlock) /\ Len(q) = Len(r) + n /\ q # <<>>
         /\ (\A i \in 1..Len(r) : q[i] = r[i]) /\ (\A j \in 1..n : q[Len(r) + j] = w[j])
    <2>1. reader.got \in Seq(CipherBlock) /\ stream \in Seq(CipherBlock)
      BY <1>2 DEF MessageTypes
    <2>2. Arriving' = reader.got \o (stream \o SubSeq(w, 1, n))
      BY <1>1 DEF Arriving
    <2>3. Grown(reader.got \o stream, reader.got \o (stream \o SubSeq(w, 1, n)), w, n)
      BY <1>2, <1>5, <2>1, ArrivingGrows
    <2>4. Grown(Arriving, Arriving', w, n)
      BY <2>2, <2>3 DEF Arriving
    <2> QED BY <2>4 DEF Grown
  <1>13. MessageTypes'
    <2>1. stream' \in Seq(CipherBlock)
      BY <1>1, <1>2, <1>5 DEF MessageTypes
    <2>2. writing' \in SUBSET Seq(CipherBlock) /\ \A u, v \in writing' : u = v
      BY <1>6, <1>7
    <2> QED BY <1>1, <1>2, <1>11, <2>1, <2>2 DEF MessageTypes
  <1>14. NumbersRight'
    <2>1. taken' = taken /\ accepted_count' = accepted_count
      BY <1>1
    <2>2. CASE n = Len(w)
      <3>1. writing' = {} /\ Busy' = 0 /\ queue' = Tail(queue)
        BY <1>7, <1>8, <2>2 DEF Busy
      <3>2. Len(queue') = Len(queue) - 1 /\ Len(queue) \in Nat /\ \A i \in 1..Len(queue') : queue'[i] = queue[i + 1]
        BY <1>3, <1>9, <3>1
      <3>3. \A i \in 1..Len(queue') : queue'[i].no = Len(taken') - Busy' + i
        <4>1. ASSUME NEW i \in 1..Len(queue') PROVE queue'[i].no = L + i
          <5>1. i + 1 \in 1..Len(queue) /\ queue'[i] = queue[i + 1]
            BY <3>2
          <5>2. queue[i + 1].no = L - 1 + (i + 1)
            BY <1>1, <1>2, <1>3, <5>1 DEF NumbersRight, L
          <5> QED BY <1>3, <3>2, <5>1, <5>2
        <4> QED BY <1>3, <2>1, <3>1, <3>2, <4>1 DEF L
      <3>4. accepted_count' = Len(taken') - Busy' + Len(queue')
        <4>1. accepted_count = L - 1 + Len(queue)
          BY <1>1, <1>2, <1>3 DEF NumbersRight, L
        <4> QED BY <1>3, <2>1, <3>1, <3>2, <4>1 DEF L
      <3>5. \A j \in 1..Len(taken') : taken'[j].no = j
        BY <1>1, <1>2, <2>1 DEF NumbersRight
      <3> QED BY <3>1, <3>3, <3>4, <3>5 DEF NumbersRight
    <2>3. CASE n # Len(w)
      <3>1. writing' = {left} /\ Busy' = 1 /\ queue' = queue
        BY <1>7, <1>8, <2>3 DEF Busy
      <3>2. Len(left) \in 1..b
        BY <1>2, <1>3, <1>4, <1>5, <1>6, <2>3
      <3>3. \A i \in 1..Len(left) : left[i] = [no |-> L, what |-> x, at |-> b - Len(left) + i]
        <4>1. ASSUME NEW i \in 1..Len(left) PROVE left[i] = [no |-> L, what |-> x, at |-> b - Len(left) + i]
          <5>1. n + i \in 1..Len(w) /\ b - Len(w) + (n + i) = b - Len(left) + i
            BY <1>2, <1>4, <1>5, <1>6
          <5> QED BY <1>3, <1>6, <5>1
        <4> QED BY <4>1
      <3> QED BY <1>1, <1>2, <1>3, <2>1, <3>1, <3>2, <3>3 DEF NumbersRight, L, x, b
    <2> QED BY <2>2, <2>3
  <1>15. HandledRight'
    BY <1>1 DEF MessageInv, HandledRight
  <1>16. ReaderRight'
    <2> SUFFICES ASSUME reader.on PROVE ReaderRight'
      BY <1>1 DEF ReaderRight
    <2>1. Framed(r, Len(handled)) /\ Continued(r, Len(handled)) /\ ReaderRight
      BY <1>1 DEF MessageInv, ReaderRight
    <2> HIDE DEF r, q
    <2>a. Len(r) \in Nat /\ n \in Nat /\ n >= 1 /\ Len(handled) \in Nat
      BY <1>2, <1>5, <1>12 DEF MessageTypes
    <2>2. \A j \in 1..n : /\ w[j].no = L /\ w[j].what = x /\ w[j].at = b - Len(w) + j
                          /\ w[j].at \in 1..b /\ taken[L] = [no |-> L, what |-> x]
      <3>1. taken[L] = [no |-> L, what |-> x]
        <4>1. taken[L] \in Queued /\ taken[L].no = L /\ taken[L].what = x
          <5>1. L \in 1..Len(taken) /\ taken \in Seq(Queued)
            BY <1>2, <1>3 DEF MessageTypes, L
          <5>2. taken[L] \in Queued
            BY <5>1
          <5> QED BY <1>1, <1>2, <5>1, <5>2 DEF NumbersRight, x
        <4> QED BY <4>1 DEF Queued
      <3>2. ASSUME NEW j \in 1..n
            PROVE  w[j].no = L /\ w[j].what = x /\ w[j].at = b - Len(w) + j /\ w[j].at \in 1..b
        <4>1. j \in 1..Len(w)
          BY <1>2, <1>5
        <4>2. w[j] = [no |-> L, what |-> x, at |-> b - Len(w) + j]
          BY <1>3, <4>1
        <4>3. b - Len(w) + j \in 1..b
          BY <1>2, <1>3, <1>4, <4>1
        <4> QED BY <4>2, <4>3
      <3> QED BY <3>1, <3>2
    <2>3. \A i \in 1..Len(q) : /\ q[i].no \in 1..Len(taken') /\ q[i].at \in 1..BlocksOf(q[i].what)
                               /\ taken'[q[i].no] = [no |-> q[i].no, what |-> q[i].what]
      <3>1. ASSUME NEW i \in 1..Len(q), i <= Len(r) PROVE q[i] = r[i] /\ i \in 1..Len(r)
        BY <1>12, <2>a, <3>1
      <3>2. ASSUME NEW i \in 1..Len(q), ~(i <= Len(r)) PROVE q[i] = w[i - Len(r)] /\ i - Len(r) \in 1..n
        <4>1. i - Len(r) \in 1..n /\ Len(r) + (i - Len(r)) = i
          BY <1>12, <2>a, <3>2
        <4> QED BY <1>12, <4>1
      <3>3. L \in 1..Len(taken)
        BY <1>3 DEF L
      <3>4. ASSUME NEW i \in 1..Len(q)
            PROVE  /\ q[i].no \in 1..Len(taken) /\ q[i].at \in 1..BlocksOf(q[i].what)
                   /\ taken[q[i].no] = [no |-> q[i].no, what |-> q[i].what]
        <4>1. CASE i <= Len(r)
          BY <2>1, <3>1, <4>1 DEF Framed
        <4>2. CASE ~(i <= Len(r))
          BY <2>2, <3>2, <3>3, <4>2 DEF b
        <4> QED BY <4>1, <4>2
      <3> QED BY <1>1, <3>4
    <2>4. q[1].no = Len(handled) + 1 /\ q[1].at = 1
      <3>1. CASE r = <<>>
        <4>1. q[1] = w[1]
          BY <1>12, <2>a, <3>1
        <4> QED BY <2>1, <3>1, <4>1 DEF Continued
      <3>2. CASE r # <<>>
        <4>1. q[1] = r[1]
          BY <1>12, <2>a, <3>2
        <4> QED BY <2>1, <3>2, <4>1 DEF Framed
      <3> QED BY <3>1, <3>2
    <2>5. \A i \in 1..Len(q) - 1 : Follows(q[i], q[i + 1])
      <3>1. ASSUME NEW i \in 1..Len(q) - 1 PROVE Follows(q[i], q[i + 1])
        <4>0. Len(q) = Len(r) + n
          BY <1>12
        <4>1. CASE i < Len(r)
          <5>1. i \in 1..Len(r) - 1 /\ i \in 1..Len(r) /\ i + 1 \in 1..Len(r)
            BY <2>a, <4>0, <4>1
          <5> QED BY <1>12, <2>1, <5>1 DEF Framed
        <4>2. CASE i = Len(r)
          <5>1. i \in 1..Len(r) /\ 1 \in 1..n /\ r # <<>> /\ q[Len(r) + 1] = w[1]
            BY <1>12, <2>a, <4>2
          <5>2. q[i] = r[Len(r)] /\ q[i + 1] = w[1]
            BY <1>12, <4>2, <5>1
          <5> QED BY <2>1, <5>1, <5>2 DEF Continued
        <4>3. CASE i > Len(r)
          <5> DEFINE j == i - Len(r)
          <5>1. j \in 1..n /\ j + 1 \in 1..n /\ Len(r) + j = i /\ Len(r) + (j + 1) = i + 1
            BY <2>a, <4>0, <4>3
          <5> HIDE DEF j
          <5>2. q[i] = w[j] /\ q[i + 1] = w[j + 1]
            BY <1>12, <5>1
          <5>3. w[j].at < b /\ w[j + 1].at = w[j].at + 1
            BY <1>2, <1>4, <1>5, <2>2, <5>1
          <5>4. w[j].what = x /\ w[j + 1].what = x /\ w[j + 1].no = w[j].no
            BY <2>2, <5>1
          <5> QED BY <5>2, <5>3, <5>4 DEF Follows, b
        <4> QED BY <2>a, <4>0, <4>1, <4>2, <4>3
      <3> QED BY <3>1
    <2>6. Framed(Arriving, Len(handled))'
      BY <1>1, <2>3, <2>4, <2>5 DEF Framed, q
    <2>7. q[Len(q)] = w[n]
      BY <1>12, <2>a
    <2>8. Continued(Arriving, Len(handled))'
      <3>1. CASE n = Len(w)
        <4>1. w[n].at = b /\ w[n].no = L /\ w[n].what = x
          BY <1>2, <1>4, <1>5, <2>2, <3>1
        <4>2. writing' = {} /\ q # <<>>
          BY <1>7, <1>12, <3>1
        <4> QED BY <1>1, <2>7, <4>1, <4>2 DEF Continued, q, b, L
      <3>2. CASE n # Len(w)
        <4>1. left[1] = w[n + 1] /\ n + 1 \in 1..Len(w)
          BY <1>2, <1>5, <1>6, <3>2
        <4>2. w[n].at < b /\ w[n].what = x /\ w[n].no = L
          BY <1>2, <1>4, <1>5, <2>2, <3>2
        <4>3. w[n + 1].at = w[n].at + 1 /\ w[n + 1].no = L /\ w[n + 1].what = x
          <5>1. w[n + 1] = [no |-> L, what |-> x, at |-> b - Len(w) + (n + 1)]
            BY <1>3, <4>1
          <5>2. w[n].at = b - Len(w) + n
            BY <2>2, <2>a
          <5> QED BY <1>2, <1>4, <2>a, <5>1, <5>2
        <4>4. Follows(w[n], left[1])
          BY <4>1, <4>2, <4>3 DEF Follows, b
        <4>5. writing' = {left} /\ q # <<>>
          BY <1>7, <1>12, <3>2
        <4> QED BY <1>1, <2>7, <4>4, <4>5 DEF Continued, q
      <3> QED BY <3>1, <3>2
    <2> QED BY <1>1, <2>1, <2>6, <2>8 DEF ReaderRight
  <1>17. QueueCounted'
    BY <1>1, <1>2, <1>11, MessageConnectionAssumption DEF MessageInv, MessageTypes, QueueCounted, SizesOf
  <1> QED BY <1>13, <1>14, <1>15, <1>16, <1>17 DEF MessageInv

\* Blocks move from the stream to what the peer has got.
Moved(got, left, r) ==
    /\ got \in Seq(CipherBlock) /\ left \in Seq(CipherBlock) /\ r \in Seq(CipherBlock)
    /\ got # <<>> /\ got \o left = r /\ Len(r) = Len(got) + Len(left)
    /\ \A i \in 1..Len(got) : got[i] = r[i]
    /\ \A i \in 1..Len(left) : left[i] = r[Len(got) + i]

LEMMA ArrivingMoves ==
  ASSUME NEW g \in Seq(CipherBlock), NEW s \in Seq(CipherBlock), NEW n \in 1..Len(s)
  PROVE  /\ Len(g \o SubSeq(s, 1, n)) = Len(g) + n
         /\ Moved(g \o SubSeq(s, 1, n), SubSeq(s, n + 1, Len(s)), g \o s)
  <1> DEFINE u == SubSeq(s, 1, n)
             left == SubSeq(s, n + 1, Len(s))
             got == g \o u
             r == g \o s
  <1>0. Len(s) \in Nat /\ n \in Nat /\ n >= 1 /\ n <= Len(s) /\ Len(g) \in Nat
    OBVIOUS
  <1>1. u \in Seq(CipherBlock) /\ Len(u) = n /\ \A j \in 1..n : u[j] = s[j]
    OBVIOUS
  <1>2. left \in Seq(CipherBlock) /\ Len(left) = Len(s) - n /\ \A j \in 1..Len(s) - n : left[j] = s[n + j]
    OBVIOUS
  <1> HIDE DEF u, left
  <1>3. got \in Seq(CipherBlock) /\ Len(got) = Len(g) + Len(u)
        /\ \A i \in 1..Len(g) + Len(u) : got[i] = IF i <= Len(g) THEN g[i] ELSE u[i - Len(g)]
    BY <1>1, ConcatProperties
  <1>4. r \in Seq(CipherBlock) /\ Len(r) = Len(g) + Len(s)
        /\ \A i \in 1..Len(g) + Len(s) : r[i] = IF i <= Len(g) THEN g[i] ELSE s[i - Len(g)]
    BY ConcatProperties
  <1> HIDE DEF got, r
  <1>5. got \o left \in Seq(CipherBlock) /\ Len(got \o left) = Len(got) + Len(left)
        /\ \A i \in 1..Len(got) + Len(left) : (got \o left)[i] = IF i <= Len(got) THEN got[i] ELSE left[i - Len(got)]
    <2>1. got \in Seq(CipherBlock) /\ left \in Seq(CipherBlock)
      BY <1>2, <1>3
    <2> QED BY <2>1, ConcatProperties
  <1>6. Len(got) = Len(g) + n /\ Len(r) = Len(got) + Len(left) /\ Len(left) \in Nat /\ Len(got) \in Nat /\ Len(r) \in Nat
    BY <1>0, <1>1, <1>2, <1>3, <1>4
  <1>7. ASSUME NEW i \in 1..Len(got) PROVE got[i] = r[i]
    <2>0. i \in 1..Len(g) + Len(u) /\ i \in 1..Len(g) + Len(s)
      BY <1>0, <1>1, <1>6
    <2>1. CASE i <= Len(g)
      BY <1>3, <1>4, <2>0, <2>1
    <2>2. CASE ~(i <= Len(g))
      <3>1. i - Len(g) \in 1..n
        BY <1>0, <1>6, <2>2
      <3> QED BY <1>1, <1>3, <1>4, <2>0, <2>2, <3>1
    <2> QED BY <2>1, <2>2
  <1>8. ASSUME NEW i \in 1..Len(left) PROVE left[i] = r[Len(got) + i]
    <2>1. /\ Len(got) + i \in 1..Len(g) + Len(s) /\ ~(Len(got) + i <= Len(g))
          /\ (Len(got) + i) - Len(g) = n + i /\ i \in 1..Len(s) - n
      BY <1>0, <1>2, <1>6
    <2> QED BY <1>2, <1>4, <2>1
  <1>9. got \o left = r
    <2>1. ASSUME NEW i \in 1..Len(r) PROVE (got \o left)[i] = r[i]
      <3>1. CASE i <= Len(got)
        BY <1>5, <1>6, <1>7, <3>1
      <3>2. CASE ~(i <= Len(got))
        <4>1. i - Len(got) \in 1..Len(left) /\ Len(got) + (i - Len(got)) = i /\ i \in 1..Len(got) + Len(left)
          BY <1>6, <3>2
        <4> QED BY <1>5, <1>8, <3>2, <4>1
      <3> QED BY <3>1, <3>2
    <2>2. Len(got \o left) = Len(r)
      BY <1>5, <1>6
    <2> QED BY <1>4, <1>5, <2>1, <2>2, SeqEqual
  <1>10. got # <<>>
    BY <1>0, <1>3, <1>6
  <1>11. Moved(got, left, r) /\ Len(got) = Len(g) + n
    BY <1>2, <1>3, <1>4, <1>6, <1>7, <1>8, <1>9, <1>10 DEF Moved
  <1> QED BY <1>11 DEF got, left, r, u

LEMMA ReadInv ==
  ASSUME MessageInv, NEW n \in Nat, NEW fails \in BOOLEAN, readsome(n, fails) PROVE MessageInv'
  <1> DEFINE got == reader.got \o SubSeq(stream, 1, n)
             left == SubSeq(stream, n + 1, Len(stream))
             r == Arriving
             h == Len(handled)
             x == got[1].what
             size == SizeOf[x]
             want == 1 + RemainingBlocks(size)
             whole == [no |-> got[1].no, what |-> got[1].what, in_step |-> got[1].at = 1
                     /\ \A i \in DOMAIN got : got[i].no = got[1].no /\ got[i].at = i]
  <1>1. /\ reader.on /\ n \in 1..Len(stream) /\ Len(got) <= reader.want /\ stream' = left
        /\ UNCHANGED <<queue, queued_size, task, writing, our_end, taken, accepted_count>>
    BY DEF readsome
  <1>2. \/ reader' = [reader EXCEPT !.on = FALSE] /\ handled' = handled
        \/ Len(got) < want /\ reader' = [on |-> TRUE, got |-> got, want |-> want] /\ handled' = handled
        \/ ~(Len(got) < want) /\ handled' = Append(handled, whole) /\ reader' = [Idle EXCEPT !.on = ~fails]
    BY DEF readsome
  <1>3. MessageTypes /\ reader.got \in Seq(CipherBlock) /\ stream \in Seq(CipherBlock) /\ h \in Nat /\ reader.want \in Nat
    BY DEF MessageInv, MessageTypes
  <1>4. Framed(r, h) /\ (our_end = "open" => Continued(r, h))
        /\ IF reader.got = <<>> THEN reader.want = 1
           ELSE reader.want = BlocksOf(reader.got[1].what) /\ Len(reader.got) < reader.want
    BY <1>1 DEF MessageInv, ReaderRight
  <1>5. /\ got \in Seq(CipherBlock) /\ left \in Seq(CipherBlock) /\ r \in Seq(CipherBlock)
        /\ got # <<>> /\ got \o left = r
        /\ Len(got) = Len(reader.got) + n /\ Len(r) = Len(got) + Len(left)
        /\ (\A i \in 1..Len(got) : got[i] = r[i])
        /\ (\A i \in 1..Len(left) : left[i] = r[Len(got) + i])
    <2>1. Len(got) = Len(reader.got) + n /\ Moved(got, left, reader.got \o stream)
      BY <1>1, <1>3, ArrivingMoves
    <2>2. r = reader.got \o stream
      BY DEF Arriving
    <2> HIDE DEF got, left, r
    <2> QED BY <2>1, <2>2 DEF Moved
  <1>6. QueueCounted' /\ NumbersRight'
    BY <1>1 DEF MessageInv, QueueCounted, get_size_in_queue, NumbersRight, Busy
  <1> HIDE DEF r, left, got
  <1>7. Len(got) \in Nat /\ Len(got) >= 1 /\ Len(left) \in Nat /\ Len(r) \in Nat /\ got[1] = r[1] /\ got[1] \in CipherBlock
        /\ Len(reader.got) \in Nat
    BY <1>1, <1>3, <1>5
  <1>8. x \in Contents /\ want = BlocksOf(x) /\ want \in Nat \ {0}
    <2>1. x \in Contents
      BY <1>7 DEF CipherBlock
    <2> QED BY <2>1, BlocksPositive
  <1>9. r # <<>> /\ r[1].no = h + 1 /\ r[1].at = 1
    <2>1. r # <<>>
      <3>1. Len(r) >= 1
        BY <1>5, <1>7
      <3>2. Len(<<>>) = 0
        OBVIOUS
      <3> QED BY <3>1, <3>2
    <2> QED BY <1>4, <2>1 DEF Framed
  <1>10. Len(got) <= want
    <2>1. CASE reader.got = <<>>
      BY <1>1, <1>4, <1>7, <1>8, <2>1
    <2>2. CASE reader.got # <<>>
      <3>1. reader.got[1] = r[1]
        <4>1. Len(reader.got) >= 1
          BY <1>3, <2>2
        <4> QED BY <1>3, <4>1 DEF r, Arriving
      <3> QED BY <1>1, <1>4, <1>7, <1>8, <2>2, <3>1
    <2> QED BY <2>1, <2>2
  <1> HIDE DEF got, want, size, x, whole, h
  <1>11. CASE reader' = [reader EXCEPT !.on = FALSE] /\ handled' = handled
    <2>1. MessageTypes' /\ reader'.on = FALSE
      BY <1>1, <1>3, <1>5, <1>11 DEF MessageTypes
    <2>2. HandledRight' /\ ReaderRight'
      BY <1>1, <1>11, <2>1 DEF MessageInv, HandledRight, ReaderRight
    <2> QED BY <1>6, <2>1, <2>2 DEF MessageInv
  <1>12. CASE Len(got) < want /\ reader' = [on |-> TRUE, got |-> got, want |-> want] /\ handled' = handled
    <2>1. MessageTypes'
      BY <1>1, <1>3, <1>5, <1>8, <1>12 DEF MessageTypes
    <2>2. HandledRight'
      BY <1>1, <1>12 DEF MessageInv, HandledRight
    <2>3. Arriving' = r
      BY <1>1, <1>5, <1>12 DEF Arriving
    <2>4. Framed(Arriving, Len(handled))' /\ (our_end' = "open" => Continued(Arriving, Len(handled))')
      BY <1>1, <1>4, <1>12, <2>3 DEF Framed, Continued, h
    <2>5. ReaderRight'
      BY <1>5, <1>8, <1>12, <2>4 DEF ReaderRight, x
    <2> QED BY <1>6, <2>1, <2>2, <2>5 DEF MessageInv
  <1>13. CASE ~(Len(got) < want) /\ handled' = Append(handled, whole) /\ reader' = [Idle EXCEPT !.on = ~fails]
    <2>1. Len(got) = want
      BY <1>7, <1>8, <1>10, <1>13
    <2>2. \A i \in 1..Len(got) : r[i] = [no |-> r[1].no, what |-> r[1].what, at |-> i]
      <3>1. ASSUME NEW i \in 1..Len(got) PROVE r[i] = [no |-> r[1].no, what |-> r[1].what, at |-> i]
        <4>1. i \in 1..Len(r) /\ i <= BlocksOf(r[1].what)
          BY <1>5, <1>7, <1>8, <2>1 DEF x
        <4> QED BY <1>3, <1>4, <1>5, <4>1, FirstMessage DEF h
      <3> QED BY <3>1
    <2>3. whole = [no |-> h + 1, what |-> x, in_step |-> TRUE]
      <3>1. \A i \in DOMAIN got : got[i].no = got[1].no /\ got[i].at = i
        <4>1. DOMAIN got = 1..Len(got)
          BY <1>5
        <4>2. ASSUME NEW i \in 1..Len(got) PROVE got[i].no = got[1].no /\ got[i].at = i
          <5>1. got[i] = r[i] /\ r[i] = [no |-> r[1].no, what |-> r[1].what, at |-> i]
            BY <1>5, <2>2
          <5> QED BY <1>7, <5>1
        <4> QED BY <4>1, <4>2
      <3>2. got[1].at = 1 /\ got[1].no = h + 1
        BY <1>7, <1>9
      <3> QED BY <3>1, <3>2 DEF whole, x
    <2>4. h + 1 \in 1..Len(taken) /\ taken[h + 1] = [no |-> h + 1, what |-> x]
      <3>1. 1 \in 1..Len(r)
        BY <1>5, <1>7
      <3> QED BY <1>4, <1>7, <1>9, <3>1 DEF Framed, x
    <2>5. MessageTypes'
      <3>1. whole \in [no : Nat, what : Contents, in_step : BOOLEAN]
        BY <1>3, <1>8, <2>3
      <3>2. reader' \in [on : BOOLEAN, got : Seq(CipherBlock), want : Nat]
        <4>1. <<>> \in Seq(CipherBlock) /\ (~fails) \in BOOLEAN
          OBVIOUS
        <4>2. reader' = [on |-> ~fails, got |-> <<>>, want |-> 1]
          BY <1>13 DEF Idle
        <4> QED BY <4>1, <4>2
      <3> QED BY <1>1, <1>3, <1>5, <1>13, <3>1, <3>2 DEF MessageTypes
    <2>6. Len(handled') = h + 1 /\ handled'[h + 1] = whole /\ \A i \in 1..h : handled'[i] = handled[i]
      BY <1>3, <1>13 DEF MessageTypes, h
    <2>7. HandledRight'
      <3>1. HandledRight /\ Len(taken) \in Nat
        BY <1>3 DEF MessageInv, MessageTypes
      <3>2. ASSUME NEW i \in 1..Len(handled')
            PROVE  handled'[i].in_step /\ handled'[i].no = taken[i].no /\ handled'[i].what = taken[i].what
        <4>1. CASE i = h + 1
          BY <2>3, <2>4, <2>6, <4>1
        <4>2. CASE i # h + 1
          <5>1. i \in 1..h
            BY <1>3, <2>6, <4>2
          <5> QED BY <2>6, <3>1, <5>1 DEF HandledRight, h
        <4> QED BY <4>1, <4>2
      <3>3. Len(handled') <= Len(taken)
        BY <2>4, <2>6, <3>1
      <3> QED BY <1>1, <3>2, <3>3 DEF HandledRight
    <2>8. ReaderRight'
      <3>1. reader'.got = <<>> /\ reader'.want = 1
        BY <1>13 DEF Idle
      <3>2. Arriving' = left
        BY <1>1, <1>5, <3>1, ConcatEmptySeq DEF Arriving
      <3> DEFINE k == Len(got)
      <3>3. k \in 1..Len(r) /\ r[k].no = h + 1 /\ r[k].at = BlocksOf(r[k].what) /\ Len(left) = Len(r) - k
            /\ k \in Nat
        <4>1. k \in 1..Len(got) /\ k \in 1..Len(r) /\ Len(left) = Len(r) - k /\ k \in Nat /\ k = BlocksOf(x)
          <5>1. Len(r) = Len(got) + Len(left) /\ Len(got) \in Nat /\ Len(left) \in Nat /\ Len(got) >= 1
            BY <1>5, <1>7
          <5>2. Len(got) = BlocksOf(x)
            BY <1>8, <2>1
          <5> QED BY <5>1, <5>2
        <4>2. r[k] = [no |-> r[1].no, what |-> r[1].what, at |-> k]
          BY <2>2, <4>1
        <4>3. r[k].no = r[1].no /\ r[k].at = k /\ r[k].what = x
          BY <1>7, <4>2 DEF x
        <4> HIDE DEF k
        <4> QED BY <1>9, <4>1, <4>3
      <3> HIDE DEF k
      <3>a. Len(left) = Len(r) - k /\ k \in Nat /\ k >= 1 /\ Len(left) \in Nat /\ Len(r) \in Nat
        BY <1>7, <3>3
      <3>4. \A i \in 1..Len(left) : left[i] = r[k + i] /\ k + i \in 1..Len(r)
        BY <1>5, <1>7, <3>3 DEF k
      <3>5. left # <<>> => left[1].no = h + 2 /\ left[1].at = 1
        <4>1. SUFFICES ASSUME left # <<>> PROVE left[1].no = h + 2 /\ left[1].at = 1
          OBVIOUS
        <4>2. Len(left) >= 1
          BY <1>5, <4>1
        <4>3. k \in 1..Len(r) - 1 /\ left[1] = r[k + 1]
          BY <1>7, <3>3, <3>4, <4>2
        <4>4. Follows(r[k], r[k + 1])
          BY <1>4, <4>3 DEF Framed
        <4>5. BlocksOf(r[k].what) \in Nat
          <5>1. r[k] \in CipherBlock
            BY <1>5, <3>3
          <5> QED BY <5>1, BlocksPositive DEF CipherBlock
        <4> QED BY <1>3, <3>3, <4>3, <4>4, <4>5 DEF Follows
      <3>6. ASSUME NEW i \in 1..Len(left) - 1 PROVE Follows(left[i], left[i + 1])
        <4>1. i \in 1..Len(left) /\ i + 1 \in 1..Len(left) /\ k + i \in 1..Len(r) - 1 /\ k + (i + 1) = (k + i) + 1
          BY <3>a
        <4>2. left[i] = r[k + i] /\ left[i + 1] = r[(k + i) + 1]
          BY <3>4, <4>1
        <4> QED BY <1>4, <4>1, <4>2 DEF Framed
      <3>7. Framed(Arriving, Len(handled))'
        <4>1. \A i \in 1..Len(left) : /\ left[i].no \in 1..Len(taken) /\ left[i].at \in 1..BlocksOf(left[i].what)
                                      /\ taken[left[i].no] = [no |-> left[i].no, what |-> left[i].what]
          BY <1>4, <3>4 DEF Framed
        <4>2. Len(handled') + 1 = h + 2
          BY <1>3, <2>6
        <4> QED BY <1>1, <3>2, <3>5, <3>6, <4>1, <4>2 DEF Framed
      <3>8. ASSUME our_end' = "open" PROVE Continued(Arriving, Len(handled))'
        <4>1. Continued(r, h)
          BY <1>1, <1>4, <3>8
        <4>2. CASE left = <<>>
          <5>1. k = Len(r)
            <6>1. Len(left) = 0
              BY <4>2
            <6> QED BY <3>a, <6>1
          <5>2. writing = {} => Len(taken) = h + 1
            BY <1>9, <3>3, <4>1, <5>1 DEF Continued
          <5>3. \A w \in writing : w[1].no = h + 2 /\ w[1].at = 1
            <6>1. BlocksOf(r[k].what) \in Nat
              <7>1. r[k] \in CipherBlock
                BY <1>5, <3>3
              <7> QED BY <7>1, BlocksPositive DEF CipherBlock
            <6> QED BY <1>3, <1>9, <3>3, <4>1, <5>1, <6>1 DEF Continued, Follows
          <5> QED BY <1>1, <1>3, <2>6, <3>2, <4>2, <5>2, <5>3 DEF Continued
        <4>3. CASE left # <<>>
          <5>1. Len(left) >= 1
            BY <1>5, <4>3
          <5>2. left[Len(left)] = r[Len(r)]
            <6>1. Len(left) \in 1..Len(left) /\ k + Len(left) = Len(r)
              BY <3>a, <5>1
            <6> QED BY <3>4, <6>1
          <5> QED BY <1>1, <1>9, <3>2, <4>1, <4>3, <5>2 DEF Continued
        <4> QED BY <4>2, <4>3
      <3> QED BY <3>1, <3>7, <3>8 DEF ReaderRight
    <2> QED BY <1>6, <2>5, <2>7, <2>8 DEF MessageInv
  <1> QED BY <1>2, <1>11, <1>12, <1>13

LEMMA MessageStep == ASSUME MessageInv, [MessageConnectionNext]_messageVars PROVE MessageInv'
  <1>0. task \in {"none", "ready", "running", "canceled"}
    BY DEF MessageInv, MessageTypes
  <1>1. CASE \E x \in Payloads \cup Items : send_queueable_message(x)
    BY <1>1, SendInv
  <1>2. CASE send_queued_messages_task
    <2>1. CASE queue = <<>> \/ get_message_throws(Head(queue))
      BY <1>2, <2>1, SameInv DEF send_queued_messages_task
    <2> QED BY <1>2, <2>1, TaskInv
  <1>3. CASE \E w \in writing : writesome(w) \/ WriteFails(w)
    BY <1>3, WriteInv, FailsInv
  <1>4. CASE \E x \in Items : Forget(x)
    BY <1>0, <1>4, SameInv DEF Forget
  <1>5. CASE \E n \in 1..BufferBlocks, fails \in BOOLEAN : readsome(n, fails)
    <2>1. PICK n \in 1..BufferBlocks, fails \in BOOLEAN : readsome(n, fails)
      BY <1>5
    <2>2. n \in Nat
      BY MessageConnectionAssumption
    <2> QED BY <2>1, <2>2, ReadInv
  <1>6. CASE ReadFails \/ peer_inactive
    BY <1>6, ReadFailsInv
  <1>7. CASE peer_closed
    BY <1>7, DestroyInv DEF peer_closed
  <1>8. CASE UNCHANGED messageVars
    BY <1>0, <1>8, SameInv DEF messageVars
  <1> QED BY <1>1, <1>2, <1>3, <1>4, <1>5, <1>6, <1>7, <1>8 DEF MessageConnectionNext

LEMMA MessageSound == ASSUME MessageInv PROVE MessagesSound
  <1> DEFINE s == [i \in DOMAIN handled |-> [no |-> handled[i].no, what |-> handled[i].what]]
             n == Len(handled)
  <1>1. handled \in Seq([no : Nat, what : Contents, in_step : BOOLEAN]) /\ taken \in Seq(Queued)
        /\ DOMAIN handled = 1..n /\ n \in Nat /\ n <= Len(taken) /\ Len(taken) \in Nat
    BY DEF MessageInv, MessageTypes, HandledRight
  <1>2. \A i \in DOMAIN handled : handled[i].in_step
    BY <1>1 DEF MessageInv, HandledRight
  <1>3. s \in Seq(Queued) /\ Len(s) = n
    <2>1. s \in [1..n -> Queued]
      <3>1. ASSUME NEW i \in 1..n
            PROVE  [no |-> handled[i].no, what |-> handled[i].what] \in Queued
        <4>1. handled[i] \in [no : Nat, what : Contents, in_step : BOOLEAN]
          BY <1>1, ElementOfSeq
        <4> QED BY <4>1 DEF Queued
      <3> QED BY <1>1, <3>1
    <2> QED BY <1>1, <2>1
  <1>4. ASSUME NEW i \in 1..n PROVE s[i] = taken[i]
    <2>1. handled[i].no = taken[i].no /\ handled[i].what = taken[i].what
      BY DEF MessageInv, HandledRight
    <2>2. taken[i] \in Queued
      BY <1>1
    <2> QED BY <1>1, <2>1, <2>2 DEF Queued
  <1> HIDE DEF s
  <1>5. IsPrefix(s, taken)
    <2>1. SubSeq(s, 1, n) = SubSeq(taken, 1, n)
      <3> DEFINE p == SubSeq(s, 1, n)
                 q == SubSeq(taken, 1, n)
      <3>1. p \in Seq(Queued) /\ Len(p) = n /\ \A i \in 1..n : p[i] = s[i]
        BY <1>1, <1>3
      <3>2. q \in Seq(Queued) /\ Len(q) = n /\ \A i \in 1..n : q[i] = taken[i]
        BY <1>1
      <3> HIDE DEF p, q, n
      <3> QED BY <1>4, <3>1, <3>2, SeqEqual DEF p, q
    <2> QED BY <1>1, <1>3, <2>1 DEF IsPrefix
  <1> QED BY <1>2, <1>5 DEF MessageInv, MessagesSound, HandledInOrder, s

\* The peer handles whole messages, in the order they were queued, for every set of
\* messages, sizes and buffers, through failed writes, items that went away and either
\* end closing; and the size that closes a slow connection is that of what is queued.
THEOREM MessagesAlwaysSound == MessageConnectionSpec => []MessagesSound
  <1>1. MessageInv /\ [MessageConnectionNext]_messageVars => MessageInv'
    BY MessageStep
  <1> QED BY <1>1, MessageInit, MessageSound, PTL DEF MessageConnectionSpec

-----------------------------------------------------------------------------
(***************************************************************************)
(* The history of operations.  What is told of a withdrawal is, in order,  *)
(* what its account did of it until the next one began, and then that.     *)
(***************************************************************************)
Holders == Withdrawers \cup {Dev}
Telling == Paid \cup {"finished"}

Operations ==
  {o \in [kind : Telling \cup {"transfer", "transfer_to_scorumpower", "withdraw"},
          from : Holders, to : Holders, amount : Nat] :
     /\ o.kind \in {"withdraw", "finished"} => o.to = o.from
     /\ o.kind = "paid_to_dev_pool" => o.to = Dev}

Records == [op : Nat, progress : Seq(Nat)]
Logs == [Lists -> Seq(Records)]

IsTold(ops, a, id) == ops[id].from = a /\ ops[id].kind \in Telling

\* A record of a withdrawal that a began; the next one, if this is not the newest, is at "end".
RecordInv(ops, r, end, newest, a) ==
  /\ r.op \in 1 .. Len(ops) /\ r.op < end /\ end <= Len(ops) + 1
  /\ IF newest THEN end = Len(ops) + 1 ELSE ops[end].kind = "withdraw"
  /\ \A j, k \in DOMAIN r.progress : j < k => r.progress[j] < r.progress[k]
  /\ \A k \in DOMAIN r.progress :
        \/ ~newest /\ k = Len(r.progress)
        \/ r.op < r.progress[k] /\ r.progress[k] < end /\ IsTold(ops, a, r.progress[k])
  /\ ~newest => Len(r.progress) > 0 /\ r.progress[Len(r.progress)] = end
  /\ \A id \in Nat : r.op < id /\ id < end /\ IsTold(ops, a, id) =>
        \E k \in DOMAIN r.progress : r.progress[k] = id
  /\ \A j, k \in DOMAIN r.progress :
        j < k /\ ops[r.progress[j]].kind = "finished" => ~newest /\ k = Len(r.progress)

Unfinished(ops, r) == \A k \in DOMAIN r.progress : ops[r.progress[k]].kind # "finished"

NextOp(ops, w, i) == IF i < Len(w) THEN w[i + 1].op ELSE Len(ops) + 1

WithdrawalsInv(ops, w, a, live) ==
  /\ \A i \in DOMAIN w : RecordInv(ops, w[i], NextOp(ops, w, i), i = Len(w), a)
  /\ live /\ w # <<>> => Unfinished(ops, w[Len(w)])

\* The newest record is given one more operation.
Given(r, id) == [op |-> r.op, progress |-> Append(r.progress, id)]
Told(w, id) == IF w = <<>> THEN w ELSE [w EXCEPT ![Len(w)].progress = Append(@, id)]

LEMMA AppendAt ==
  ASSUME NEW S, NEW s \in Seq(S), NEW x \in S
  PROVE  /\ Append(s, x) \in Seq(S) /\ Len(Append(s, x)) = Len(s) + 1 /\ Len(s) \in Nat
         /\ DOMAIN s = 1 .. Len(s) /\ DOMAIN Append(s, x) = 1 .. (Len(s) + 1)
         /\ \A i \in 1 .. Len(s) : Append(s, x)[i] = s[i]
         /\ Append(s, x)[Len(s) + 1] = x
  OBVIOUS

LEMMA RecordParts ==
  ASSUME NEW r \in Records
  PROVE  /\ r.op \in Nat /\ r.progress \in Seq(Nat) /\ Len(r.progress) \in Nat
         /\ DOMAIN r.progress = 1 .. Len(r.progress)
         /\ \A k \in DOMAIN r.progress : r.progress[k] \in Nat
  <1>1. r.op \in Nat /\ r.progress \in Seq(Nat) BY DEF Records
  <1> QED BY <1>1

LEMMA GivenParts ==
  ASSUME NEW r \in Records, NEW id \in Nat
  PROVE  /\ Given(r, id) \in Records /\ Given(r, id).op = r.op
         /\ Given(r, id).progress \in Seq(Nat)
         /\ Len(Given(r, id).progress) = Len(r.progress) + 1
         /\ DOMAIN Given(r, id).progress = 1 .. (Len(r.progress) + 1)
         /\ \A k \in 1 .. Len(r.progress) : Given(r, id).progress[k] = r.progress[k]
         /\ Given(r, id).progress[Len(r.progress) + 1] = id
  <1>1. r.progress \in Seq(Nat) /\ r.op \in Nat BY RecordParts
  <1>2. Given(r, id).progress = Append(r.progress, id) /\ Given(r, id).op = r.op
    BY DEF Given
  <1>3. Given(r, id) \in Records BY <1>1 DEF Given, Records
  <1> QED BY <1>1, <1>2, <1>3, AppendAt

\* An older record keeps what it has.
LEMMA OlderRecord ==
  ASSUME NEW ops \in Seq(Operations), NEW o \in Operations, NEW r \in Records, NEW end \in Nat,
         NEW a, RecordInv(ops, r, end, FALSE, a), end <= Len(ops)
  PROVE  RecordInv(Append(ops, o), r, end, FALSE, a)
  <1> DEFINE p == r.progress
             aps == Append(ops, o)
  <1>1. /\ aps \in Seq(Operations) /\ Len(aps) = Len(ops) + 1 /\ Len(ops) \in Nat
        /\ \A i \in 1 .. Len(ops) : aps[i] = ops[i]
    BY AppendAt
  <1>2. r.op \in Nat /\ Len(p) \in Nat /\ DOMAIN p = 1 .. Len(p) /\ \A k \in DOMAIN p : p[k] \in Nat
    BY RecordParts
  <1> HIDE DEF aps, p
  <1>3. \A id \in Nat : r.op < id /\ id <= end => aps[id] = ops[id] /\ id \in 1 .. Len(ops)
    BY <1>1, <1>2
  <1>4. \A k \in DOMAIN p : aps[p[k]] = ops[p[k]]
    <2>1. \A k \in DOMAIN p : r.op < p[k] /\ p[k] <= end
      BY <1>2 DEF RecordInv, p
    <2> QED BY <1>2, <1>3, <2>1
  <1>5. r.op \in 1 .. Len(aps) /\ r.op < end /\ end <= Len(aps) + 1
    BY <1>1, <1>2 DEF RecordInv
  <1>6. aps[end].kind = "withdraw"
    BY <1>3, <1>2 DEF RecordInv
  <1>7. \A id \in Nat : r.op < id /\ id < end /\ IsTold(aps, a, id) => \E k \in DOMAIN p : p[k] = id
    BY <1>3 DEF RecordInv, IsTold, p
  <1>8. \A j, k \in DOMAIN p : j < k /\ aps[p[j]].kind = "finished" => k = Len(p)
    BY <1>4 DEF RecordInv, p
  <1>9. \A k \in DOMAIN p : \/ k = Len(p)
                            \/ r.op < p[k] /\ p[k] < end /\ IsTold(aps, a, p[k])
    BY <1>4 DEF RecordInv, IsTold, p
  <1>10. /\ Len(p) > 0 /\ p[Len(p)] = end /\ \A j, k \in DOMAIN p : j < k => p[j] < p[k]
    BY DEF RecordInv, p
  <1> QED BY <1>5, <1>6, <1>7, <1>8, <1>9, <1>10 DEF RecordInv, p, aps

\* The newest one keeps what it has when the operation is none of its own.
LEMMA NewestRecord ==
  ASSUME NEW ops \in Seq(Operations), NEW o \in Operations, NEW r \in Records,
         NEW a, RecordInv(ops, r, Len(ops) + 1, TRUE, a), ~(o.from = a /\ o.kind \in Telling)
  PROVE  RecordInv(Append(ops, o), r, Len(ops) + 2, TRUE, a)
  <1> DEFINE p == r.progress
             aps == Append(ops, o)
  <1>1. /\ aps \in Seq(Operations) /\ Len(aps) = Len(ops) + 1 /\ Len(ops) \in Nat
        /\ \A i \in 1 .. Len(ops) : aps[i] = ops[i]
        /\ aps[Len(ops) + 1] = o
    BY AppendAt
  <1>2. r.op \in Nat /\ Len(p) \in Nat /\ DOMAIN p = 1 .. Len(p) /\ \A k \in DOMAIN p : p[k] \in Nat
    BY RecordParts
  <1> HIDE DEF aps, p
  <1>3. \A id \in Nat : r.op < id /\ id < Len(ops) + 1 => aps[id] = ops[id]
    BY <1>1, <1>2
  <1>4. \A k \in DOMAIN p : r.op < p[k] /\ p[k] < Len(ops) + 1 /\ aps[p[k]] = ops[p[k]]
    <2>1. \A k \in DOMAIN p : r.op < p[k] /\ p[k] < Len(ops) + 1
      BY DEF RecordInv, p
    <2> QED BY <1>2, <1>3, <2>1
  <1>5. /\ r.op \in 1 .. Len(aps) /\ r.op < Len(ops) + 2 /\ Len(ops) + 2 = Len(aps) + 1
        /\ Len(ops) + 2 <= Len(aps) + 1
    BY <1>1, <1>2 DEF RecordInv
  <1>6. ASSUME NEW id \in Nat, r.op < id, id < Len(ops) + 2, IsTold(aps, a, id)
        PROVE  \E k \in DOMAIN p : p[k] = id
    <2>1. id # Len(ops) + 1 BY <1>1, <1>6 DEF IsTold
    <2>2. id < Len(ops) + 1 BY <1>1, <1>6, <2>1
    <2>3. IsTold(ops, a, id) BY <1>3, <1>6, <2>2 DEF IsTold
    <2> QED BY <1>6, <2>2, <2>3 DEF RecordInv, p
  <1>7. \A j, k \in DOMAIN p : j < k => p[j] < p[k]
    BY DEF RecordInv, p
  <1>8. \A j, k \in DOMAIN p : ~(j < k /\ aps[p[j]].kind = "finished")
    BY <1>4 DEF RecordInv, p
  <1>9. \A k \in DOMAIN p : r.op < p[k] /\ p[k] < Len(ops) + 2 /\ IsTold(aps, a, p[k])
    <2>1. \A k \in DOMAIN p : IsTold(ops, a, p[k]) BY DEF RecordInv, p
    <2>2. \A k \in DOMAIN p : IsTold(aps, a, p[k]) BY <1>4, <2>1 DEF IsTold
    <2> QED BY <1>1, <1>2, <1>4, <2>2
  <1> DEFINE end == Len(ops) + 2
  <1> HIDE DEF end
  <1>10. RecordInv(aps, r, end, TRUE, a)
    BY <1>5, <1>6, <1>7, <1>8, <1>9 DEF RecordInv, p, end
  <1> QED BY <1>10 DEF aps, end

\* It is told what is its own.
LEMMA ToldRecord ==
  ASSUME NEW ops \in Seq(Operations), NEW o \in Operations, NEW r \in Records,
         NEW a, RecordInv(ops, r, Len(ops) + 1, TRUE, a), o.from = a, o.kind \in Telling,
         Unfinished(ops, r)
  PROVE  RecordInv(Append(ops, o), Given(r, Len(ops) + 1), Len(ops) + 2, TRUE, a)
  <1> DEFINE p == r.progress
             aps == Append(ops, o)
             g == Given(r, Len(ops) + 1)
             q == g.progress
             n == Len(p)
             end == Len(ops) + 2
  <1>1. /\ aps \in Seq(Operations) /\ Len(aps) = Len(ops) + 1 /\ Len(ops) \in Nat
        /\ \A i \in 1 .. Len(ops) : aps[i] = ops[i]
        /\ aps[Len(ops) + 1] = o
    BY AppendAt
  <1>2. r.op \in Nat /\ n \in Nat /\ DOMAIN p = 1 .. n /\ \A k \in DOMAIN p : p[k] \in Nat
    BY RecordParts
  <1>3. /\ g.op = r.op /\ Len(q) = n + 1 /\ DOMAIN q = 1 .. (n + 1)
        /\ (\A k \in 1 .. n : q[k] = p[k]) /\ q[n + 1] = Len(ops) + 1
    <2>1. Len(ops) + 1 \in Nat BY <1>1
    <2> QED BY <2>1, GivenParts
  <1> HIDE DEF aps, p, q, g, n, end
  <1>4. \A id \in Nat : r.op < id /\ id < Len(ops) + 1 => aps[id] = ops[id]
    BY <1>1, <1>2
  <1>5. \A k \in 1 .. n : r.op < p[k] /\ p[k] < Len(ops) + 1 /\ IsTold(ops, a, p[k])
    BY <1>2 DEF RecordInv, p
  <1>6. \A k \in 1 .. n : aps[q[k]] = ops[p[k]]
    BY <1>2, <1>3, <1>4, <1>5
  <1>7. g.op \in 1 .. Len(aps) /\ g.op < end /\ end <= Len(aps) + 1 /\ end = Len(aps) + 1
    BY <1>1, <1>2, <1>3 DEF RecordInv, end
  <1>8. ASSUME NEW j \in DOMAIN q, NEW k \in DOMAIN q, j < k PROVE q[j] < q[k]
    <2>1. j \in 1 .. n BY <1>2, <1>3, <1>8
    <2>2. CASE k \in 1 .. n
      <3>1. p[j] < p[k] BY <1>2, <1>8, <2>1, <2>2 DEF RecordInv, p
      <3> QED BY <1>3, <2>1, <2>2, <3>1
    <2>3. CASE k = n + 1
      BY <1>3, <1>5, <2>1, <2>3
    <2> QED BY <1>2, <1>3, <2>2, <2>3
  <1>9. ASSUME NEW k \in DOMAIN q PROVE g.op < q[k] /\ q[k] < end /\ IsTold(aps, a, q[k])
    <2>1. CASE k \in 1 .. n
      <3>1. IsTold(aps, a, q[k]) BY <1>5, <1>6, <2>1 DEF IsTold
      <3> QED BY <1>1, <1>2, <1>3, <1>5, <2>1, <3>1 DEF end
    <2>2. CASE k = n + 1
      <3>1. IsTold(aps, a, q[k]) BY <1>1, <1>3, <2>2 DEF IsTold
      <3>2. r.op < Len(ops) + 1 BY DEF RecordInv
      <3> QED BY <1>1, <1>3, <2>2, <3>1, <3>2 DEF end
    <2> QED BY <1>2, <1>3, <2>1, <2>2
  <1>10. ASSUME NEW id \in Nat, g.op < id, id < end, IsTold(aps, a, id)
         PROVE  \E k \in DOMAIN q : q[k] = id
    <2>1. CASE id = Len(ops) + 1
      BY <1>2, <1>3, <2>1
    <2>2. CASE id < Len(ops) + 1
      <3>1. IsTold(ops, a, id) BY <1>3, <1>4, <1>10, <2>2 DEF IsTold
      <3>2. PICK k \in DOMAIN p : p[k] = id BY <1>3, <1>10, <2>2, <3>1 DEF RecordInv, p
      <3> QED BY <1>2, <1>3, <3>2
    <2> QED BY <1>1, <1>10, <2>1, <2>2 DEF end
  <1>11. ASSUME NEW j \in DOMAIN q, NEW k \in DOMAIN q, j < k PROVE aps[q[j]].kind # "finished"
    <2>1. j \in 1 .. n BY <1>2, <1>3, <1>11
    <2>2. ops[p[j]].kind # "finished" BY <1>2, <2>1 DEF Unfinished, p
    <2> QED BY <1>6, <2>1, <2>2
  <1>12. RecordInv(aps, g, end, TRUE, a)
    BY <1>7, <1>8, <1>9, <1>10, <1>11 DEF RecordInv, q
  <1> QED BY <1>12 DEF aps, g, end

\* The next withdrawal begins: this one is told so and is the newest no more.
LEMMA ReplacedRecord ==
  ASSUME NEW ops \in Seq(Operations), NEW o \in Operations, NEW r \in Records,
         NEW a, RecordInv(ops, r, Len(ops) + 1, TRUE, a), o.kind = "withdraw"
  PROVE  RecordInv(Append(ops, o), Given(r, Len(ops) + 1), Len(ops) + 1, FALSE, a)
  <1> DEFINE p == r.progress
             aps == Append(ops, o)
             g == Given(r, Len(ops) + 1)
             q == g.progress
             n == Len(p)
             end == Len(ops) + 1
  <1>1. /\ aps \in Seq(Operations) /\ Len(aps) = Len(ops) + 1 /\ Len(ops) \in Nat
        /\ \A i \in 1 .. Len(ops) : aps[i] = ops[i]
        /\ aps[Len(ops) + 1] = o
    BY AppendAt
  <1>2. r.op \in Nat /\ n \in Nat /\ DOMAIN p = 1 .. n /\ \A k \in DOMAIN p : p[k] \in Nat
    BY RecordParts
  <1>3. /\ g.op = r.op /\ Len(q) = n + 1 /\ DOMAIN q = 1 .. (n + 1)
        /\ (\A k \in 1 .. n : q[k] = p[k]) /\ q[n + 1] = end
    <2>1. Len(ops) + 1 \in Nat BY <1>1
    <2> QED BY <2>1, GivenParts
  <1>0. end \in Nat /\ end = Len(ops) + 1 BY <1>1
  <1>r. RecordInv(ops, r, end, TRUE, a) OBVIOUS
  <1> HIDE DEF aps, p, q, g, n, end
  <1>4. \A id \in Nat : r.op < id /\ id < end => aps[id] = ops[id]
    BY <1>0, <1>1, <1>2
  <1>5. \A k \in 1 .. n : r.op < p[k] /\ p[k] < end /\ IsTold(ops, a, p[k])
    BY <1>2, <1>r DEF RecordInv, p
  <1>6. \A k \in 1 .. n : aps[q[k]] = ops[p[k]]
    BY <1>2, <1>3, <1>4, <1>5
  <1>7. /\ g.op \in 1 .. Len(aps) /\ g.op < end /\ end <= Len(aps) + 1
        /\ aps[end].kind = "withdraw"
    BY <1>0, <1>1, <1>2, <1>3, <1>r DEF RecordInv
  <1>8. ASSUME NEW j \in DOMAIN q, NEW k \in DOMAIN q, j < k PROVE q[j] < q[k]
    <2>1. j \in 1 .. n BY <1>2, <1>3, <1>8
    <2>2. CASE k \in 1 .. n
      <3>1. p[j] < p[k] BY <1>2, <1>8, <2>1, <2>2, <1>r DEF RecordInv, p
      <3> QED BY <1>3, <2>1, <2>2, <3>1
    <2>3. CASE k = n + 1
      BY <1>3, <1>5, <2>1, <2>3
    <2> QED BY <1>2, <1>3, <2>2, <2>3
  <1>9. ASSUME NEW k \in DOMAIN q, k # Len(q)
        PROVE  g.op < q[k] /\ q[k] < end /\ IsTold(aps, a, q[k])
    <2>1. k \in 1 .. n BY <1>2, <1>3, <1>9
    <2>2. IsTold(aps, a, q[k]) BY <1>5, <1>6, <2>1 DEF IsTold
    <2> QED BY <1>3, <1>5, <2>1, <2>2
  <1>10. ASSUME NEW id \in Nat, g.op < id, id < end, IsTold(aps, a, id)
         PROVE  \E k \in DOMAIN q : q[k] = id
    <2>1. IsTold(ops, a, id) BY <1>3, <1>4, <1>10 DEF IsTold
    <2>2. PICK k \in DOMAIN p : p[k] = id BY <1>3, <1>10, <2>1, <1>r DEF RecordInv, p
    <2> QED BY <1>2, <1>3, <2>2
  <1>11. ASSUME NEW j \in DOMAIN q, NEW k \in DOMAIN q, j < k, aps[q[j]].kind = "finished"
         PROVE  k = Len(q)
    <2>1. j \in 1 .. n BY <1>2, <1>3, <1>11
    <2>2. ops[p[j]].kind = "finished" BY <1>6, <1>11, <2>1
    <2>3. k \notin DOMAIN p BY <1>2, <1>11, <2>1, <2>2, <1>r DEF RecordInv, p
    <2> QED BY <1>2, <1>3, <2>3
  <1>12. Len(q) > 0 /\ q[Len(q)] = end BY <1>2, <1>3
  <1>13. RecordInv(aps, g, end, FALSE, a)
    BY <1>7, <1>8, <1>9, <1>10, <1>11, <1>12 DEF RecordInv, q
  <1> QED BY <1>13 DEF aps, g, end

\* A new record.
LEMMA FreshRecord ==
  ASSUME NEW ops \in Seq(Operations), NEW o \in Operations, NEW a
  PROVE  /\ RecordInv(Append(ops, o), Record(Len(ops) + 1), Len(ops) + 2, TRUE, a)
         /\ Record(Len(ops) + 1) \in Records /\ Record(Len(ops) + 1).op = Len(ops) + 1
         /\ Unfinished(Append(ops, o), Record(Len(ops) + 1))
  <1> DEFINE aps == Append(ops, o)
             r == Record(Len(ops) + 1)
             end == Len(ops) + 2
  <1>1. Len(aps) = Len(ops) + 1 /\ Len(ops) \in Nat BY AppendAt
  <1>2. /\ r.op = Len(ops) + 1 /\ r.progress = <<>> /\ DOMAIN r.progress = {} /\ Len(r.progress) = 0
        /\ r \in Records
    <2>1. r.op = Len(ops) + 1 /\ r.progress = <<>> BY DEF Record
    <2>2. r \in Records BY <1>1 DEF Record, Records
    <2> QED BY <2>1, <2>2
  <1> HIDE DEF aps, r, end
  <1>3. r.op \in 1 .. Len(aps) /\ r.op < end /\ end <= Len(aps) + 1 /\ end = Len(aps) + 1
    BY <1>1, <1>2 DEF end
  <1>4. \A id \in Nat : ~(r.op < id /\ id < end) BY <1>1, <1>2 DEF end
  <1>5. RecordInv(aps, r, end, TRUE, a) BY <1>2, <1>3, <1>4 DEF RecordInv
  <1>6. Unfinished(aps, r) BY <1>2 DEF Unfinished
  <1> QED BY <1>2, <1>5, <1>6 DEF aps, r, end

LEMMA NotLast ==
  ASSUME NEW n \in Nat, NEW i \in 1 .. n, i # n
  PROVE  i + 1 \in 1 .. n /\ i < n /\ i \in Nat
  OBVIOUS

LEMMA LastOrNot ==
  ASSUME NEW n \in Nat, NEW i \in 1 .. (n + 1)
  PROVE  /\ i = n => i \in 1 .. n /\ n # 0 /\ i < n + 1 /\ i # n + 1
         /\ i # n /\ i # n + 1 => i \in 1 .. n /\ i < n + 1 /\ i < n /\ i + 1 \in 1 .. n
  OBVIOUS

LEMMA OneMore == ASSUME NEW n \in Nat, NEW k \in 1 .. (n + 1) PROVE k \in 1 .. n \/ k = n + 1
  OBVIOUS

LEMMA ProgressSet ==
  ASSUME NEW r \in Records, NEW p PROVE [r EXCEPT !.progress = p] = [op |-> r.op, progress |-> p]
  BY DEF Records

LEMMA LastReplaced ==
  ASSUME NEW S, NEW w \in Seq(S), w # <<>>, NEW g \in S, NEW t, t = [w EXCEPT ![Len(w)] = g]
  PROVE  /\ t \in Seq(S) /\ Len(t) = Len(w) /\ t[Len(w)] = g
         /\ \A i \in 1 .. Len(w) : i # Len(w) => t[i] = w[i]
  OBVIOUS

LEMMA ToldParts ==
  ASSUME NEW w \in Seq(Records), NEW id \in Nat, w # <<>>
  PROVE  /\ Told(w, id) \in Seq(Records) /\ Len(Told(w, id)) = Len(w)
         /\ Len(w) \in Nat \ {0} /\ DOMAIN w = 1 .. Len(w)
         /\ \A i \in 1 .. Len(w) : i # Len(w) => Told(w, id)[i] = w[i]
         /\ Told(w, id)[Len(w)] = Given(w[Len(w)], id)
         /\ \A i \in 1 .. Len(w) : Told(w, id)[i] \in Records /\ Told(w, id)[i].op = w[i].op
  <1>1. Len(w) \in Nat \ {0} /\ DOMAIN w = 1 .. Len(w) /\ w[Len(w)] \in Records
    BY EmptySeq
  <1>2. Told(w, id) = [w EXCEPT ![Len(w)] = [w[Len(w)] EXCEPT !.progress = Append(w[Len(w)].progress, id)]]
    BY DEF Told
  <1>3. [w[Len(w)] EXCEPT !.progress = Append(w[Len(w)].progress, id)] = Given(w[Len(w)], id)
    <2> DEFINE r == w[Len(w)]
    <2>1. r \in Records BY <1>1
    <2> HIDE DEF r
    <2>2. [r EXCEPT !.progress = Append(r.progress, id)] = Given(r, id)
      BY <2>1, ProgressSet DEF Given
    <2> QED BY <2>2 DEF r
  <1>4. Given(w[Len(w)], id) \in Records /\ Given(w[Len(w)], id).op = w[Len(w)].op
    BY <1>1, GivenParts
  <1> DEFINE g == Given(w[Len(w)], id)
             t == [w EXCEPT ![Len(w)] = g]
  <1>5. Told(w, id) = t BY <1>2, <1>3
  <1>6. g \in Records /\ g.op = w[Len(w)].op BY <1>4
  <1> HIDE DEF g
  <1>7. /\ t \in Seq(Records) /\ Len(t) = Len(w) /\ t[Len(w)] = g
        /\ \A i \in 1 .. Len(w) : i # Len(w) => t[i] = w[i]
    BY <1>1, <1>6, LastReplaced
  <1> HIDE DEF t
  <1>8. \A i \in 1 .. Len(w) : t[i] \in Records /\ t[i].op = w[i].op
    <2> TAKE i \in 1 .. Len(w)
    <2>1. CASE i = Len(w) BY <1>6, <1>7, <2>1
    <2>2. CASE i # Len(w)
      <3>1. w[i] \in Records BY <1>1
      <3> QED BY <1>7, <2>2, <3>1
    <2> QED BY <2>1, <2>2
  <1> QED BY <1>1, <1>5, <1>7, <1>8 DEF g

\* What is told of no withdrawal changes none.
LEMMA WithdrawalsKept ==
  ASSUME NEW ops \in Seq(Operations), NEW o \in Operations, NEW w \in Seq(Records), NEW a,
         NEW live, WithdrawalsInv(ops, w, a, live),
         w # <<>> => ~(o.from = a /\ o.kind \in Telling)
  PROVE  WithdrawalsInv(Append(ops, o), w, a, live)
  <1> DEFINE aps == Append(ops, o)
  <1>1. Len(aps) = Len(ops) + 1 /\ Len(ops) \in Nat /\ \A i \in 1 .. Len(ops) : aps[i] = ops[i]
    BY AppendAt
  <1>2. Len(w) \in Nat /\ DOMAIN w = 1 .. Len(w) /\ \A i \in 1 .. Len(w) : w[i] \in Records
    OBVIOUS
  <1>i. \A i \in 1 .. Len(w) : RecordInv(ops, w[i], NextOp(ops, w, i), i = Len(w), a)
    BY <1>2 DEF WithdrawalsInv
  <1>3. ASSUME NEW i \in 1 .. Len(w) PROVE RecordInv(aps, w[i], NextOp(aps, w, i), i = Len(w), a)
    <2>1. CASE i = Len(w)
      <3>1. NextOp(ops, w, i) = Len(ops) + 1 /\ NextOp(aps, w, i) = Len(ops) + 2
        BY <1>1, <1>2, <2>1 DEF NextOp
      <3>2. RecordInv(ops, w[i], Len(ops) + 1, TRUE, a) BY <1>i, <2>1, <3>1
      <3>3. w # <<>> BY <1>2
      <3>4. RecordInv(aps, w[i], Len(ops) + 2, TRUE, a) BY <1>2, <3>2, <3>3, NewestRecord
      <3> QED BY <2>1, <3>1, <3>4
    <2>2. CASE i # Len(w)
      <3>0. i + 1 \in 1 .. Len(w) /\ i < Len(w) BY <1>2, <2>2, NotLast
      <3>1. /\ NextOp(ops, w, i) = w[i + 1].op /\ NextOp(aps, w, i) = w[i + 1].op
            /\ i + 1 \in 1 .. Len(w)
        BY <1>2, <2>2, <3>0 DEF NextOp
      <3>2. RecordInv(ops, w[i], w[i + 1].op, FALSE, a) BY <1>i, <2>2, <3>1
      <3>3. w[i + 1].op \in 1 .. Len(ops)
        <4>1. RecordInv(ops, w[i + 1], NextOp(ops, w, i + 1), i + 1 = Len(w), a) BY <1>i, <3>1
        <4> QED BY <4>1 DEF RecordInv
      <3>4. w[i + 1].op \in Nat /\ w[i + 1].op <= Len(ops) BY <1>1, <3>3
      <3>5. RecordInv(aps, w[i], w[i + 1].op, FALSE, a) BY <1>2, <3>2, <3>4, OlderRecord
      <3> QED BY <2>2, <3>1, <3>5
    <2> QED BY <2>1, <2>2
  <1>4. ASSUME live, w # <<>> PROVE Unfinished(aps, w[Len(w)])
    <2>1. Len(w) \in 1 .. Len(w) BY <1>2, <1>4, EmptySeq
    <2>2. RecordInv(ops, w[Len(w)], Len(ops) + 1, TRUE, a)
      <3>1. NextOp(ops, w, Len(w)) = Len(ops) + 1 BY <1>2 DEF NextOp
      <3>2. RecordInv(ops, w[Len(w)], NextOp(ops, w, Len(w)), Len(w) = Len(w), a)
        BY <1>i, <2>1
      <3> QED BY <3>1, <3>2
    <2>3. \A k \in DOMAIN w[Len(w)].progress : w[Len(w)].progress[k] \in 1 .. Len(ops)
      <3>1. w[Len(w)].op \in Nat /\ \A k \in DOMAIN w[Len(w)].progress : w[Len(w)].progress[k] \in Nat
        BY <1>2, <2>1, RecordParts
      <3> QED BY <1>1, <2>2, <3>1 DEF RecordInv
    <2>4. Unfinished(ops, w[Len(w)]) BY <1>4 DEF WithdrawalsInv
    <2> QED BY <1>1, <2>3, <2>4 DEF Unfinished
  <1> QED BY <1>2, <1>3, <1>4 DEF WithdrawalsInv

\* What is told of the newest.
LEMMA WithdrawalsTold ==
  ASSUME NEW ops \in Seq(Operations), NEW o \in Operations, NEW w \in Seq(Records), NEW a,
         WithdrawalsInv(ops, w, a, TRUE), o.from = a, o.kind \in Telling, w # <<>>,
         NEW live, live => o.kind # "finished"
  PROVE  WithdrawalsInv(Append(ops, o), Told(w, Len(ops) + 1), a, live)
  <1> DEFINE aps == Append(ops, o)
             t == Told(w, Len(ops) + 1)
  <1>1. /\ Len(aps) = Len(ops) + 1 /\ Len(ops) \in Nat /\ \A i \in 1 .. Len(ops) : aps[i] = ops[i]
        /\ aps[Len(ops) + 1] = o
    BY AppendAt
  <1>2. Len(w) \in Nat /\ DOMAIN w = 1 .. Len(w) /\ \A i \in 1 .. Len(w) : w[i] \in Records
    OBVIOUS
  <1>t. /\ t \in Seq(Records) /\ Len(t) = Len(w) /\ Len(w) \in Nat \ {0}
        /\ \A i \in 1 .. Len(w) : i # Len(w) => t[i] = w[i]
        /\ t[Len(w)] = Given(w[Len(w)], Len(ops) + 1)
        /\ \A i \in 1 .. Len(w) : t[i] \in Records /\ t[i].op = w[i].op
    <2>1. Len(ops) + 1 \in Nat BY <1>1
    <2> QED BY <2>1, ToldParts
  <1> HIDE DEF t
  <1>i. \A i \in 1 .. Len(w) : RecordInv(ops, w[i], NextOp(ops, w, i), i = Len(w), a)
    BY <1>2 DEF WithdrawalsInv
  <1>l. Len(w) \in 1 .. Len(w) /\ w[Len(w)] \in Records
    <2>1. Len(w) \in 1 .. Len(w) BY <1>t
    <2> QED BY <1>2, <2>1
  <1>u. Unfinished(ops, w[Len(w)]) BY DEF WithdrawalsInv
  <1>n. RecordInv(ops, w[Len(w)], Len(ops) + 1, TRUE, a)
    <2>1. NextOp(ops, w, Len(w)) = Len(ops) + 1 BY <1>2 DEF NextOp
    <2>2. RecordInv(ops, w[Len(w)], NextOp(ops, w, Len(w)), Len(w) = Len(w), a) BY <1>i, <1>t
    <2> QED BY <2>1, <2>2
  <1>3. ASSUME NEW i \in 1 .. Len(w) PROVE RecordInv(aps, t[i], NextOp(aps, t, i), i = Len(t), a)
    <2>1. CASE i = Len(w)
      <3>1. NextOp(aps, t, i) = Len(ops) + 2 BY <1>1, <1>t, <2>1 DEF NextOp
      <3>2. RecordInv(aps, Given(w[Len(w)], Len(ops) + 1), Len(ops) + 2, TRUE, a)
        BY <1>l, <1>n, <1>u, ToldRecord
      <3> QED BY <1>t, <2>1, <3>1, <3>2
    <2>2. CASE i # Len(w)
      <3>0. i + 1 \in 1 .. Len(w) /\ i < Len(w) BY <1>2, <2>2, NotLast
      <3>1. /\ NextOp(ops, w, i) = w[i + 1].op /\ NextOp(aps, t, i) = w[i + 1].op
            /\ i + 1 \in 1 .. Len(w)
        BY <1>2, <1>t, <2>2, <3>0 DEF NextOp
      <3>2. RecordInv(ops, w[i], w[i + 1].op, FALSE, a) BY <1>i, <2>2, <3>1
      <3>3. w[i + 1].op \in 1 .. Len(ops)
        <4>1. RecordInv(ops, w[i + 1], NextOp(ops, w, i + 1), i + 1 = Len(w), a) BY <1>i, <3>1
        <4> QED BY <4>1 DEF RecordInv
      <3>4. w[i + 1].op \in Nat /\ w[i + 1].op <= Len(ops) BY <1>1, <3>3
      <3>5. RecordInv(aps, w[i], w[i + 1].op, FALSE, a) BY <1>2, <3>2, <3>4, OlderRecord
      <3> QED BY <1>t, <2>2, <3>1, <3>5
    <2> QED BY <2>1, <2>2
  <1>4. ASSUME live PROVE Unfinished(aps, t[Len(t)])
    <2> DEFINE r == w[Len(w)]
    <2>1. r \in Records BY <1>l
    <2>2. Len(ops) + 1 \in Nat BY <1>1
    <2>3. /\ Len(r.progress) \in Nat /\ DOMAIN r.progress = 1 .. Len(r.progress)
          /\ DOMAIN Given(r, Len(ops) + 1).progress = 1 .. (Len(r.progress) + 1)
          /\ \A k \in 1 .. Len(r.progress) : Given(r, Len(ops) + 1).progress[k] = r.progress[k]
          /\ Given(r, Len(ops) + 1).progress[Len(r.progress) + 1] = Len(ops) + 1
          /\ r.op \in Nat /\ \A k \in DOMAIN r.progress : r.progress[k] \in Nat
      BY <2>1, <2>2, GivenParts, RecordParts
    <2>4. \A k \in DOMAIN r.progress : r.progress[k] \in 1 .. Len(ops)
      BY <1>1, <1>n, <2>3 DEF RecordInv
    <2> DEFINE q == Given(r, Len(ops) + 1).progress
    <2>5. t[Len(t)].progress = q BY <1>t
    <2> HIDE DEF q
    <2>6. ASSUME NEW k \in DOMAIN q PROVE aps[q[k]].kind # "finished"
      <3>1. CASE k \in 1 .. Len(r.progress)
        BY <1>1, <1>u, <2>3, <2>4, <3>1 DEF Unfinished, q
      <3>2. CASE k = Len(r.progress) + 1
        BY <1>1, <1>4, <2>3, <3>2 DEF q
      <3>3. k \in 1 .. (Len(r.progress) + 1) BY <2>3 DEF q
      <3>4. k \in 1 .. Len(r.progress) \/ k = Len(r.progress) + 1 BY <2>3, <3>3, OneMore
      <3> QED BY <3>1, <3>2, <3>4
    <2> QED BY <2>5, <2>6 DEF Unfinished
  <1>5. DOMAIN t = 1 .. Len(w) BY <1>t
  <1>6. WithdrawalsInv(aps, t, a, live) BY <1>3, <1>4, <1>5 DEF WithdrawalsInv
  <1> QED BY <1>6 DEF t

\* A withdrawal begins.
LEMMA WithdrawalsBegun ==
  ASSUME NEW ops \in Seq(Operations), NEW o \in Operations, NEW w \in Seq(Records), NEW a,
         NEW live, WithdrawalsInv(ops, w, a, live), o.kind = "withdraw", NEW then
  PROVE  WithdrawalsInv(Append(ops, o), Append(Told(w, Len(ops) + 1), Record(Len(ops) + 1)), a, then)
  <1> DEFINE aps == Append(ops, o)
             t == Told(w, Len(ops) + 1)
             r == Record(Len(ops) + 1)
             v == Append(t, r)
  <1>1. Len(aps) = Len(ops) + 1 /\ Len(ops) \in Nat
    BY AppendAt
  <1>2. Len(w) \in Nat /\ DOMAIN w = 1 .. Len(w) /\ \A i \in 1 .. Len(w) : w[i] \in Records
    OBVIOUS
  <1>r. r \in Records /\ r.op = Len(ops) + 1 /\ RecordInv(aps, r, Len(ops) + 2, TRUE, a) /\ Unfinished(aps, r)
    BY FreshRecord
  <1>t. /\ t \in Seq(Records) /\ Len(t) = Len(w)
        /\ \A i \in 1 .. Len(w) : i # Len(w) => t[i] = w[i]
        /\ w # <<>> => t[Len(w)] = Given(w[Len(w)], Len(ops) + 1)
        /\ \A i \in 1 .. Len(w) : t[i] \in Records /\ t[i].op = w[i].op
    <2>1. Len(ops) + 1 \in Nat BY <1>1
    <2>2. CASE w # <<>> BY <2>1, <2>2, ToldParts
    <2>3. CASE w = <<>> BY <1>2, <2>3 DEF Told
    <2> QED BY <2>2, <2>3
  <1> HIDE DEF t, r
  <1>v. /\ v \in Seq(Records) /\ Len(v) = Len(w) + 1 /\ DOMAIN v = 1 .. (Len(w) + 1)
        /\ (\A i \in 1 .. Len(w) : v[i] = t[i]) /\ v[Len(w) + 1] = r
    BY <1>r, <1>t, AppendAt
  <1> HIDE DEF v
  <1>i. \A i \in 1 .. Len(w) : RecordInv(ops, w[i], NextOp(ops, w, i), i = Len(w), a)
    BY <1>2 DEF WithdrawalsInv
  <1>3. ASSUME NEW i \in 1 .. (Len(w) + 1) PROVE RecordInv(aps, v[i], NextOp(aps, v, i), i = Len(v), a)
    <2>0. CASE i = Len(w) + 1
      <3>1. NextOp(aps, v, i) = Len(ops) + 2 BY <1>1, <1>2, <1>v, <2>0 DEF NextOp
      <3> QED BY <1>r, <1>v, <2>0, <3>1
    <2>1. CASE i = Len(w)
      <3>0. i \in 1 .. Len(w) /\ w # <<>> /\ i # Len(v) /\ i < Len(v)
        <4>1. i \in 1 .. Len(w) /\ Len(w) # 0 /\ i < Len(w) + 1 /\ i # Len(w) + 1
          BY <1>2, <2>1, LastOrNot
        <4> QED BY <1>v, <4>1
      <3>1. NextOp(ops, w, i) = Len(ops) + 1 /\ NextOp(aps, v, i) = Len(ops) + 1
        BY <1>1, <1>2, <1>r, <1>v, <2>1 DEF NextOp
      <3>2. RecordInv(ops, w[i], Len(ops) + 1, TRUE, a) BY <1>i, <2>1, <3>0, <3>1
      <3>3. RecordInv(aps, Given(w[i], Len(ops) + 1), Len(ops) + 1, FALSE, a)
        BY <1>2, <3>0, <3>2, ReplacedRecord
      <3>4. v[i] = Given(w[i], Len(ops) + 1) BY <1>t, <1>v, <2>1, <3>0
      <3> QED BY <3>0, <3>1, <3>3, <3>4
    <2>2. CASE i # Len(w) /\ i # Len(w) + 1
      <3>0. i \in 1 .. Len(w) /\ i # Len(v) /\ i < Len(v) /\ i + 1 \in 1 .. Len(w) /\ i < Len(w)
        <4>1. i \in 1 .. Len(w) /\ i < Len(w) + 1 /\ i < Len(w) /\ i + 1 \in 1 .. Len(w)
          BY <1>2, <2>2, LastOrNot
        <4> QED BY <1>v, <2>2, <4>1
      <3>1. NextOp(ops, w, i) = w[i + 1].op /\ NextOp(aps, v, i) = w[i + 1].op
        BY <1>2, <1>t, <1>v, <2>2, <3>0 DEF NextOp
      <3>2. RecordInv(ops, w[i], w[i + 1].op, FALSE, a) BY <1>i, <2>2, <3>0, <3>1
      <3>3. w[i + 1].op \in 1 .. Len(ops)
        <4>1. RecordInv(ops, w[i + 1], NextOp(ops, w, i + 1), i + 1 = Len(w), a) BY <1>i, <3>0
        <4> QED BY <4>1 DEF RecordInv
      <3>4. w[i + 1].op \in Nat /\ w[i + 1].op <= Len(ops) BY <1>1, <3>3
      <3>5. RecordInv(aps, w[i], w[i + 1].op, FALSE, a) BY <1>2, <3>0, <3>2, <3>4, OlderRecord
      <3>6. v[i] = w[i] BY <1>t, <1>v, <2>2, <3>0
      <3> QED BY <3>0, <3>1, <3>5, <3>6
    <2> QED BY <2>0, <2>1, <2>2
  <1>4. Unfinished(aps, v[Len(v)]) BY <1>r, <1>v
  <1>5. WithdrawalsInv(aps, v, a, then) BY <1>v, <1>3, <1>4 DEF WithdrawalsInv
  <1> QED BY <1>5 DEF t, r, v

\* What is listed of everything.
AllInv(ops, s, a) ==
  /\ \A i, j \in DOMAIN s : i < j => s[i].op < s[j].op
  /\ \A i \in DOMAIN s : s[i].op \in 1 .. Len(ops) /\ a \in ListedFor(ops[s[i].op])
  /\ \A id \in 1 .. Len(ops) : a \in ListedFor(ops[id]) => \E i \in DOMAIN s : s[i].op = id

LEMMA AllKept ==
  ASSUME NEW ops \in Seq(Operations), NEW o \in Operations, NEW s \in Seq(Records), NEW a,
         AllInv(ops, s, a), a \notin ListedFor(o)
  PROVE  AllInv(Append(ops, o), s, a)
  <1> DEFINE aps == Append(ops, o)
  <1>1. /\ Len(aps) = Len(ops) + 1 /\ Len(ops) \in Nat /\ \A i \in 1 .. Len(ops) : aps[i] = ops[i]
        /\ aps[Len(ops) + 1] = o
    BY AppendAt
  <1> HIDE DEF aps
  <1>2. \A i \in DOMAIN s : s[i].op \in 1 .. Len(aps) /\ a \in ListedFor(aps[s[i].op])
    BY <1>1 DEF AllInv
  <1>3. ASSUME NEW id \in 1 .. Len(aps), a \in ListedFor(aps[id]) PROVE \E i \in DOMAIN s : s[i].op = id
    <2>1. id \in 1 .. Len(ops) \/ id = Len(ops) + 1 BY <1>1, OneMore
    <2>2. id # Len(ops) + 1 BY <1>1, <1>3
    <2>3. id \in 1 .. Len(ops) /\ a \in ListedFor(ops[id]) BY <1>1, <1>3, <2>1, <2>2
    <2> QED BY <2>3 DEF AllInv
  <1> QED BY <1>2, <1>3 DEF AllInv, aps

LEMMA AllMore ==
  ASSUME NEW ops \in Seq(Operations), NEW o \in Operations, NEW s \in Seq(Records), NEW a,
         AllInv(ops, s, a), a \in ListedFor(o)
  PROVE  AllInv(Append(ops, o), Append(s, Record(Len(ops) + 1)), a)
  <1> DEFINE aps == Append(ops, o)
             r == Record(Len(ops) + 1)
             t == Append(s, r)
             n == Len(s)
  <1>1. /\ Len(aps) = Len(ops) + 1 /\ Len(ops) \in Nat /\ \A i \in 1 .. Len(ops) : aps[i] = ops[i]
        /\ aps[Len(ops) + 1] = o
    BY AppendAt
  <1>2. r \in Records /\ r.op = Len(ops) + 1 BY FreshRecord
  <1> HIDE DEF r
  <1>3. /\ n \in Nat /\ DOMAIN s = 1 .. n /\ DOMAIN t = 1 .. (n + 1)
        /\ (\A i \in 1 .. n : t[i] = s[i]) /\ t[n + 1] = r
    BY <1>2, AppendAt
  <1> HIDE DEF aps, t, n
  <1>i. /\ \A i, j \in 1 .. n : i < j => s[i].op < s[j].op
        /\ \A i \in 1 .. n : s[i].op \in 1 .. Len(ops) /\ a \in ListedFor(ops[s[i].op])
    BY <1>3 DEF AllInv
  <1>4. ASSUME NEW i \in DOMAIN t, NEW j \in DOMAIN t, i < j PROVE t[i].op < t[j].op
    <2>1. i \in 1 .. n BY <1>3, <1>4
    <2>2. CASE j \in 1 .. n BY <1>3, <1>4, <1>i, <2>1, <2>2
    <2>3. CASE j = n + 1
      <3>1. s[i].op \in 1 .. Len(ops) BY <1>i, <2>1
      <3> QED BY <1>1, <1>2, <1>3, <2>1, <2>3, <3>1
    <2> QED BY <1>3, <2>2, <2>3, OneMore
  <1>5. ASSUME NEW i \in DOMAIN t PROVE t[i].op \in 1 .. Len(aps) /\ a \in ListedFor(aps[t[i].op])
    <2>1. CASE i \in 1 .. n
      <3>1. s[i].op \in 1 .. Len(ops) /\ a \in ListedFor(ops[s[i].op]) BY <1>i, <2>1
      <3> QED BY <1>1, <1>3, <2>1, <3>1
    <2>2. CASE i = n + 1 BY <1>1, <1>2, <1>3, <2>2
    <2> QED BY <1>3, <2>1, <2>2, OneMore
  <1>6. ASSUME NEW id \in 1 .. Len(aps), a \in ListedFor(aps[id]) PROVE \E i \in DOMAIN t : t[i].op = id
    <2>1. CASE id \in 1 .. Len(ops)
      <3>1. a \in ListedFor(ops[id]) BY <1>1, <1>6, <2>1
      <3>2. PICK i \in 1 .. n : s[i].op = id BY <1>3, <2>1, <3>1 DEF AllInv
      <3> QED BY <1>3, <3>2
    <2>2. CASE id = Len(ops) + 1 BY <1>2, <1>3, <2>2
    <2> QED BY <1>1, <2>1, <2>2, OneMore
  <1> QED BY <1>4, <1>5, <1>6 DEF AllInv, aps, t, r

HistoryInv ==
  /\ operations \in Seq(Operations)
  /\ \A id \in 1 .. Len(operations) : operations[id].kind \in Paid => operations[id].amount = 1
  /\ running \subseteq Holders
  /\ listed \in [Holders -> Logs]
  /\ \A a \in Holders : AllInv(operations, listed[a]["all"], a)
  /\ \A a \in Holders : WithdrawalsInv(operations, listed[a]["withdrawals"], a, a \in running)
  /\ \A a \in Holders : listed[a]["withdrawals"] # <<>> => a = Dev \/ Tracked(a)

LEMMA PushParts ==
  ASSUME NEW h \in Logs, NEW l \in Lists, NEW id \in Nat
  PROVE  /\ push_history(h, l, id) \in Logs
         /\ push_history(h, l, id)[l] = Append(h[l], Record(id))
         /\ push_progress(h, l, id) \in Logs
         /\ push_progress(h, l, id)[l] = Told(h[l], id)
         /\ \A k \in Lists : k # l => push_history(h, l, id)[k] = h[k] /\ push_progress(h, l, id)[k] = h[k]
  <1>1. h[l] \in Seq(Records) BY DEF Logs
  <1>2. Record(id) \in Records BY DEF Record, Records
  <1>3. Append(h[l], Record(id)) \in Seq(Records) BY <1>1, <1>2
  <1>4. Told(h[l], id) \in Seq(Records)
    <2>1. CASE h[l] = <<>> BY <1>1, <2>1 DEF Told
    <2>2. CASE h[l] # <<>> BY <1>1, <2>2, ToldParts
    <2> QED BY <2>1, <2>2
  <1>5. push_history(h, l, id) = [h EXCEPT ![l] = Append(h[l], Record(id))]
    BY DEF push_history
  <1>6. push_progress(h, l, id) = [h EXCEPT ![l] = Told(h[l], id)]
    <2>1. CASE h[l] = <<>>
      <3>1. push_progress(h, l, id) = h BY <2>1 DEF push_progress
      <3>2. [h EXCEPT ![l] = h[l]] = h BY DEF Logs
      <3> QED BY <2>1, <3>1, <3>2 DEF Told
    <2>2. CASE h[l] # <<>>
      <3>1. Len(h[l]) # 0 BY <1>1, <2>2, EmptySeq
      <3> QED BY <2>2, <3>1 DEF push_progress, Told
    <2> QED BY <2>1, <2>2
  <1> QED BY <1>3, <1>4, <1>5, <1>6 DEF Logs

LEMMA VisitedParts ==
  ASSUME NEW h \in Logs, NEW o \in Operations, NEW a, NEW id \in Nat,
         o.kind = "withdraw" => a = o.from
  PROVE  /\ Visited(h, o, a, id) \in Logs
         /\ Visited(h, o, a, id)["all"] = Append(h["all"], Record(id))
         /\ o.kind = "withdraw" =>
              Visited(h, o, a, id)["withdrawals"] = Append(Told(h["withdrawals"], id), Record(id))
         /\ o.kind \in Telling /\ a = o.from =>
              Visited(h, o, a, id)["withdrawals"] = Told(h["withdrawals"], id)
         /\ o.kind # "withdraw" /\ ~(o.kind \in Telling /\ a = o.from) =>
              Visited(h, o, a, id)["withdrawals"] = h["withdrawals"]
  <1> DEFINE all == push_history(h, "all", id)
  <1>l. {"all", "to_scr", "to_sp", "withdrawals"} = Lists BY DEF Lists
  <1>1. /\ all \in Logs /\ all["all"] = Append(h["all"], Record(id))
        /\ all["withdrawals"] = h["withdrawals"]
    BY <1>l, PushParts
  <1> HIDE DEF all
  <1>k. o.kind \in Telling \cup {"transfer", "transfer_to_scorumpower", "withdraw"} BY DEF Operations
  <1>d. CASE o.from = Dev /\ a # Dev
    <2>1. Visited(h, o, a, id) = all BY <1>d DEF Visited, all
    <2> QED BY <1>1, <1>d, <2>1
  <1>n. SUFFICES ASSUME ~(o.from = Dev /\ a # Dev) PROVE
         /\ Visited(h, o, a, id) \in Logs
         /\ Visited(h, o, a, id)["all"] = Append(h["all"], Record(id))
         /\ o.kind = "withdraw" =>
              Visited(h, o, a, id)["withdrawals"] = Append(Told(h["withdrawals"], id), Record(id))
         /\ o.kind \in Telling /\ a = o.from =>
              Visited(h, o, a, id)["withdrawals"] = Told(h["withdrawals"], id)
         /\ o.kind # "withdraw" /\ ~(o.kind \in Telling /\ a = o.from) =>
              Visited(h, o, a, id)["withdrawals"] = h["withdrawals"]
    BY <1>d
  <1>2. CASE o.kind = "transfer"
    <2>1. Visited(h, o, a, id) = push_history(all, "to_scr", id) BY <1>n, <1>2 DEF Visited, all
    <2>2. /\ push_history(all, "to_scr", id) \in Logs
          /\ push_history(all, "to_scr", id)["all"] = all["all"]
          /\ push_history(all, "to_scr", id)["withdrawals"] = all["withdrawals"]
      BY <1>1, <1>l, PushParts
    <2> QED BY <1>1, <1>2, <2>1, <2>2 DEF Telling, Paid
  <1>3. CASE o.kind = "transfer_to_scorumpower"
    <2>1. Visited(h, o, a, id) = push_history(all, "to_sp", id) BY <1>n, <1>3 DEF Visited, all
    <2>2. /\ push_history(all, "to_sp", id) \in Logs
          /\ push_history(all, "to_sp", id)["all"] = all["all"]
          /\ push_history(all, "to_sp", id)["withdrawals"] = all["withdrawals"]
      BY <1>1, <1>l, PushParts
    <2> QED BY <1>1, <1>3, <2>1, <2>2 DEF Telling, Paid
  <1>4. CASE o.kind = "withdraw"
    <2> DEFINE told == push_progress(all, "withdrawals", id)
    <2>1. Visited(h, o, a, id) = push_history(told, "withdrawals", id) BY <1>n, <1>4 DEF Visited, all
    <2>2. /\ told \in Logs /\ told["all"] = all["all"]
          /\ told["withdrawals"] = Told(all["withdrawals"], id)
      BY <1>1, <1>l, PushParts
    <2> HIDE DEF told
    <2>3. /\ push_history(told, "withdrawals", id) \in Logs
          /\ push_history(told, "withdrawals", id)["all"] = told["all"]
          /\ push_history(told, "withdrawals", id)["withdrawals"] = Append(told["withdrawals"], Record(id))
      BY <2>2, <1>l, PushParts
    <2> QED BY <1>1, <1>4, <2>1, <2>2, <2>3 DEF Telling, Paid
  <1>5. CASE o.kind \in Telling
    <2> DEFINE told == push_progress(all, "withdrawals", id)
    <2>0. /\ o.kind # "transfer" /\ o.kind # "transfer_to_scorumpower" /\ o.kind # "withdraw"
      BY <1>5 DEF Telling, Paid
    <2>1. Visited(h, o, a, id) = IF a = o.from THEN told ELSE all BY <1>n, <2>0 DEF Visited, all
    <2>2. /\ told \in Logs /\ told["all"] = all["all"]
          /\ told["withdrawals"] = Told(all["withdrawals"], id)
      BY <1>1, <1>l, PushParts
    <2> HIDE DEF told
    <2> QED BY <1>1, <1>5, <2>0, <2>1, <2>2
  <1> QED BY <1>k, <1>2, <1>3, <1>4, <1>5

\* Who is listed.
LEMMA Listening ==
  ASSUME NEW o \in Operations, NEW a \in Holders
  PROVE  /\ a \in ListedFor(o) => a = Dev \/ Tracked(a)
         /\ (a = Dev \/ Tracked(a)) /\ o.from = a => a \in ListedFor(o)
         /\ a \in ListedFor(o) /\ o.kind = "withdraw" => a = o.from
         /\ a \in Withdrawers => (a \in ListedFor(o) <=> a \in {o.from, o.to} /\ Tracked(a))
  <1>k. /\ o.kind \in Telling \cup {"transfer", "transfer_to_scorumpower", "withdraw"}
        /\ o.kind \in {"withdraw", "finished"} => o.to = o.from
        /\ o.kind = "paid_to_dev_pool" => o.to = Dev
    BY DEF Operations
  <1>1. Impacted(o) = {o.from, o.to} \ {Dev} BY <1>k DEF Impacted, Telling, Paid
  <1>2. o.kind = "withdraw" => {o.from, o.to} = {o.from} BY <1>k
  <1>3. Dev \notin Withdrawers BY HistoryAssumption
  <1> HIDE DEF Tracked, Impacted
  <1>4. a = Dev => (a \in ListedFor(o) <=> o.from = Dev) BY <1>1 DEF ListedFor
  <1>5. a # Dev => (a \in ListedFor(o) <=> a \in {o.from, o.to} /\ Tracked(a)) BY <1>1 DEF ListedFor
  <1> QED BY <1>2, <1>3, <1>4, <1>5

LEMMA LessLive ==
  ASSUME NEW ops, NEW w, NEW a, NEW live, NEW then, WithdrawalsInv(ops, w, a, live), then => live
  PROVE  WithdrawalsInv(ops, w, a, then)
  BY DEF WithdrawalsInv

\* An operation is recorded, of a withdrawal only while it runs.
LEMMA RecordedInv ==
  ASSUME HistoryInv, NEW o \in Operations, on_operation(o), o.kind \in Paid => o.amount = 1,
         running' \subseteq Holders,
         o.kind \in Telling => o.from \in running,
         o.kind = "finished" => o.from \notin running',
         \A a \in Holders : a \in running' => a \in running \/ (a = o.from /\ o.kind = "withdraw")
  PROVE  HistoryInv'
  <1> DEFINE n == Len(operations)
             aps == Append(operations, o)
  <1>1. /\ operations \in Seq(Operations) /\ listed \in [Holders -> Logs]
        /\ \A id \in 1 .. Len(operations) : operations[id].kind \in Paid => operations[id].amount = 1
        /\ \A a \in Holders : AllInv(operations, listed[a]["all"], a)
        /\ \A a \in Holders : WithdrawalsInv(operations, listed[a]["withdrawals"], a, a \in running)
        /\ \A a \in Holders : listed[a]["withdrawals"] # <<>> => a = Dev \/ Tracked(a)
    BY DEF HistoryInv
  <1>2. /\ aps \in Seq(Operations) /\ Len(aps) = n + 1 /\ n \in Nat
        /\ \A i \in 1 .. n : aps[i] = operations[i]
        /\ aps[n + 1] = o
    BY <1>1, AppendAt
  <1>3. operations' = aps BY DEF on_operation
  <1>4. \A a \in Holders : listed[a] \in Logs /\ listed[a]["all"] \in Seq(Records)
                           /\ listed[a]["withdrawals"] \in Seq(Records)
    <2>1. "all" \in Lists /\ "withdrawals" \in Lists BY DEF Lists
    <2> QED BY <1>1, <2>1 DEF Logs
  <1>5. listed' = [a \in Holders |-> IF a \notin ListedFor(o) THEN listed[a]
                                     ELSE Visited(listed[a], o, a, n + 1)]
    <2>1. DOMAIN listed = Holders BY <1>1
    <2>2. listed' = [a \in Holders |-> IF a \notin ListedFor(o) THEN listed[a]
                         ELSE IF a = Dev THEN DevVisited(listed[a], o, n + 1)
                         ELSE Visited(listed[a], o, a, n + 1)]
      BY <2>1 DEF on_operation
    <2>3. \A a \in Holders : a = Dev => DevVisited(listed[a], o, n + 1) = Visited(listed[a], o, a, n + 1)
      BY DEF DevVisited
    <2> QED BY <2>2, <2>3
  <1> HIDE DEF aps, n
  <1>a. n = Len(operations) /\ aps = Append(operations, o) BY DEF n, aps
  <1>6. ASSUME NEW a \in Holders
        PROVE  /\ listed'[a] \in Logs
               /\ AllInv(aps, listed'[a]["all"], a)
               /\ WithdrawalsInv(aps, listed'[a]["withdrawals"], a, a \in running')
               /\ listed'[a]["withdrawals"] # <<>> => a = Dev \/ Tracked(a)
    <2> DEFINE h == listed[a]
               w == h["withdrawals"]
    <2>0. h \in Logs /\ h["all"] \in Seq(Records) /\ w \in Seq(Records) BY <1>4
    <2>i. /\ AllInv(operations, h["all"], a) /\ WithdrawalsInv(operations, w, a, a \in running)
          /\ w # <<>> => a = Dev \/ Tracked(a)
      BY <1>1
    <2>h. listed[a] = h OBVIOUS
    <2> HIDE DEF h
    <2>1. CASE a \notin ListedFor(o)
      <3>1. listed'[a] = h BY <1>5, <2>1, <2>h
      <3>2. AllInv(aps, h["all"], a) BY <1>1, <1>a, <2>0, <2>1, <2>i, AllKept
      <3>3. w # <<>> => o.from # a BY <2>1, <2>i, Listening
      <3>4. WithdrawalsInv(aps, w, a, a \in running)
        BY <1>1, <1>a, <2>0, <2>i, <3>3, WithdrawalsKept
      <3>5. w # <<>> => (a \in running' => a \in running) BY <3>3
      <3>6. WithdrawalsInv(aps, w, a, a \in running')
        BY <3>4, <3>5 DEF WithdrawalsInv
      <3> QED BY <2>0, <2>i, <3>1, <3>2, <3>6
    <2>2. CASE a \in ListedFor(o)
      <3> DEFINE v == Visited(h, o, a, n + 1)
      <3>1. listed'[a] = v BY <1>5, <2>2, <2>h
      <3>2. /\ v \in Logs /\ v["all"] = Append(h["all"], Record(n + 1))
            /\ o.kind = "withdraw" => v["withdrawals"] = Append(Told(w, n + 1), Record(n + 1))
            /\ o.kind \in Telling /\ a = o.from => v["withdrawals"] = Told(w, n + 1)
            /\ o.kind # "withdraw" /\ ~(o.kind \in Telling /\ a = o.from) => v["withdrawals"] = w
        <4>1. n + 1 \in Nat BY <1>2
        <4>2. o.kind = "withdraw" => a = o.from BY <2>2, Listening
        <4> QED BY <2>0, <4>1, <4>2, VisitedParts
      <3> HIDE DEF v
      <3>3. AllInv(aps, v["all"], a) BY <1>1, <1>a, <2>0, <2>2, <2>i, <3>2, AllMore
      <3>4. a = Dev \/ Tracked(a) BY <2>2, Listening
      <3>5. WithdrawalsInv(aps, v["withdrawals"], a, a \in running')
        <4>1. CASE o.kind = "withdraw"
          BY <1>1, <1>a, <2>0, <2>i, <3>2, <4>1, WithdrawalsBegun
        <4>2. CASE o.kind \in Telling /\ a = o.from
          <5>1. a \in running BY <4>2
          <5>2. WithdrawalsInv(operations, w, a, TRUE) BY <2>i, <5>1
          <5>3. a \in running' => o.kind # "finished" BY <4>2
          <5>4. CASE w # <<>>
            BY <1>1, <1>a, <2>0, <3>2, <4>2, <5>2, <5>3, <5>4, WithdrawalsTold
          <5>5. CASE w = <<>>
            <6>1. v["withdrawals"] = <<>> BY <3>2, <4>2, <5>5 DEF Told
            <6>2. DOMAIN v["withdrawals"] = {} BY <6>1
            <6> QED BY <6>1, <6>2 DEF WithdrawalsInv
          <5> QED BY <5>4, <5>5
        <4>3. CASE o.kind # "withdraw" /\ ~(o.kind \in Telling /\ a = o.from)
          <5>1. v["withdrawals"] = w BY <3>2, <4>3
          <5>2. w # <<>> => ~(o.from = a /\ o.kind \in Telling) BY <4>3
          <5>3. WithdrawalsInv(aps, w, a, a \in running)
            BY <1>1, <1>a, <2>0, <2>i, <5>2, WithdrawalsKept
          <5>4. a \in running' => a \in running BY <4>3
          <5>5. WithdrawalsInv(aps, w, a, a \in running') BY <5>3, <5>4, LessLive
          <5> QED BY <5>1, <5>5
        <4> QED BY <4>1, <4>2, <4>3
      <3> QED BY <3>1, <3>2, <3>3, <3>4, <3>5
    <2> QED BY <2>1, <2>2
  <1>7. listed' \in [Holders -> Logs]
    <2>1. \A a \in Holders : listed'[a] \in Logs BY <1>6
    <2> QED BY <1>5, <2>1
  <1>8. \A id \in 1 .. Len(aps) : aps[id].kind \in Paid => aps[id].amount = 1
    <2> TAKE id \in 1 .. Len(aps)
    <2>1. CASE id \in 1 .. n BY <1>1, <1>2, <2>1 DEF n
    <2>2. CASE id = n + 1 BY <1>2, <2>2
    <2> QED BY <1>2, <2>1, <2>2, OneMore
  <1>9. \A a \in Holders : (Tracked(a))' = Tracked(a) BY DEF Tracked
  <1>10. \A a \in Holders : AllInv(operations', listed'[a]["all"], a) BY <1>3, <1>6
  <1>11. \A a \in Holders : WithdrawalsInv(operations', listed'[a]["withdrawals"], a, a \in running')
    BY <1>3, <1>6
  <1>12. \A a \in Holders : listed'[a]["withdrawals"] # <<>> => a = Dev \/ Tracked(a) BY <1>6
  <1>13. operations' \in Seq(Operations) BY <1>2, <1>3
  <1> QED BY <1>3, <1>7, <1>8, <1>10, <1>11, <1>12, <1>13 DEF HistoryInv

LEMMA HistoryInitInv == HistoryInit => HistoryInv
  <1> SUFFICES ASSUME HistoryInit PROVE HistoryInv OBVIOUS
  <1>1. /\ operations = <<>> /\ running = {} /\ Len(operations) = 0
        /\ listed = [a \in Holders |-> [l \in Lists |-> <<>>]]
    BY DEF HistoryInit, Holders
  <1>2. "all" \in Lists /\ "withdrawals" \in Lists BY DEF Lists
  <1>3. \A a \in Holders : listed[a]["all"] = <<>> /\ listed[a]["withdrawals"] = <<>>
    BY <1>1, <1>2
  <1>4. listed \in [Holders -> Logs] BY <1>1 DEF Logs
  <1>5. operations \in Seq(Operations) BY <1>1
  <1>6. \A id \in 1 .. Len(operations) : FALSE BY <1>1
  <1>7. \A a \in Holders : AllInv(operations, listed[a]["all"], a)
    BY <1>3, <1>6 DEF AllInv
  <1>8. \A a \in Holders : WithdrawalsInv(operations, listed[a]["withdrawals"], a, a \in running)
    BY <1>3 DEF WithdrawalsInv
  <1> QED BY <1>1, <1>3, <1>4, <1>5, <1>6, <1>7, <1>8 DEF HistoryInv

LEMMA HistoryNextInv == HistoryInv /\ [HistoryNext]_historyVars => HistoryInv'
  <1> SUFFICES ASSUME HistoryInv, [HistoryNext]_historyVars PROVE HistoryInv' OBVIOUS
  <1>0. running \subseteq Holders /\ Withdrawers \subseteq Holders /\ Dev \in Holders
    BY DEF HistoryInv, Holders
  <1>1. ASSUME NEW kind \in {"transfer", "transfer_to_scorumpower"}, NEW a \in Holders,
               NEW b \in Holders, Transfer(kind, a, b)
        PROVE  HistoryInv'
    <2> DEFINE o == [kind |-> kind, from |-> a, to |-> b, amount |-> 1]
    <2>1. o \in Operations BY DEF Operations
    <2>2. on_operation(o) /\ running' = running BY <1>1 DEF Transfer
    <2>3. o.kind \notin Telling BY DEF Telling, Paid
    <2>4. o.kind \in Paid => o.amount = 1 BY DEF Paid
    <2> HIDE DEF o
    <2>5. o.kind # "finished" BY <2>3 DEF Telling
    <2> QED BY <1>0, <2>1, <2>2, <2>3, <2>4, <2>5, RecordedInv
  <1>2. ASSUME NEW a \in Holders, NEW amount \in 0 .. 1, NewWithdrawal(a, amount) PROVE HistoryInv'
    <2> DEFINE o == [kind |-> "withdraw", from |-> a, to |-> a, amount |-> amount]
    <2>1. o \in Operations BY DEF Operations
    <2>2. on_operation(o) /\ running' \subseteq running \cup {a} BY <1>2 DEF NewWithdrawal
    <2>3. o.kind = "withdraw" /\ o.kind \notin Telling /\ o.kind \notin Paid /\ o.from = a
      BY DEF Telling, Paid
    <2> HIDE DEF o
    <2>4. running' \subseteq Holders BY <1>0, <2>2
    <2>5. \A x \in Holders : x \in running' => x \in running \/ (x = o.from /\ o.kind = "withdraw")
      BY <2>2, <2>3
    <2>6. o.kind # "finished" BY <2>3
    <2> QED BY <2>1, <2>2, <2>3, <2>4, <2>5, <2>6, RecordedInv
  <1>3. ASSUME NEW kind \in Paid, NEW a \in Holders, NEW b \in Holders, Pay(kind, a, b),
               kind = "paid_to_dev_pool" => b = Dev
        PROVE  HistoryInv'
    <2> DEFINE o == [kind |-> kind, from |-> a, to |-> b, amount |-> 1]
    <2>1. o \in Operations BY <1>3 DEF Operations, Telling, Paid
    <2>2. on_operation(o) /\ running' = running /\ o.from \in running BY <1>3 DEF Pay
    <2>3. o.kind \in Paid => o.amount = 1 OBVIOUS
    <2>4. o.kind # "finished" BY DEF Paid
    <2> HIDE DEF o
    <2> QED BY <1>0, <2>1, <2>2, <2>3, <2>4, RecordedInv
  <1>4. ASSUME NEW a \in Holders, Finish(a) PROVE HistoryInv'
    <2> DEFINE o == [kind |-> "finished", from |-> a, to |-> a, amount |-> 0]
    <2>1. o \in Operations BY DEF Operations, Telling
    <2>2. on_operation(o) /\ running' = running \ {a} /\ o.from \in running /\ o.from = a
      BY <1>4 DEF Finish
    <2>3. o.kind \notin Paid BY DEF Paid
    <2> HIDE DEF o
    <2> QED BY <1>0, <2>1, <2>2, <2>3, RecordedInv
  <1>5. ASSUME NEW a \in Holders, EndSilently(a) PROVE HistoryInv'
    <2>1. running' \subseteq running /\ operations' = operations /\ listed' = listed
      BY <1>5 DEF EndSilently
    <2>2. \A x \in Holders : WithdrawalsInv(operations, listed[x]["withdrawals"], x, x \in running')
      <3> TAKE x \in Holders
      <3>1. WithdrawalsInv(operations, listed[x]["withdrawals"], x, x \in running) BY DEF HistoryInv
      <3>2. x \in running' => x \in running BY <2>1
      <3> QED BY <3>1, <3>2, LessLive
    <2> QED BY <1>0, <2>1, <2>2 DEF HistoryInv
  <1>6. CASE UNCHANGED historyVars
    BY <1>6 DEF historyVars, HistoryInv
  <1>7. CASE HistoryNext
    <2>1. "paid_to_account" \in Paid /\ "paid_to_dev_pool" \in Paid BY DEF Paid
    <2>2. CASE \E a, b \in Withdrawers : \/ Transfer("transfer", a, b)
                                         \/ Transfer("transfer_to_scorumpower", a, b)
                                         \/ Pay("paid_to_account", a, b)
      BY <1>0, <1>1, <1>3, <2>1, <2>2
    <2>3. CASE \E b \in Withdrawers : Transfer("transfer", Dev, b)
      BY <1>0, <1>1, <2>3
    <2>4. CASE \E a \in Withdrawers \cup {Dev} :
                 \/ \E amount \in 0..1 : NewWithdrawal(a, amount)
                 \/ Finish(a) \/ EndSilently(a)
                 \/ Pay("paid_to_dev_pool", a, Dev)
      BY <1>0, <1>2, <1>3, <1>4, <1>5, <2>1, <2>4 DEF Holders
    <2> QED BY <1>7, <2>2, <2>3, <2>4 DEF HistoryNext
  <1> QED BY <1>6, <1>7

\* What the account did of a withdrawal, by looking at all operations.
After(r, end, a) == {id \in Nat : r.op < id /\ id < end /\ operations[id].from = a}

LEMMA DuringIs ==
  ASSUME HistoryInv, NEW a \in Holders, NEW i \in DOMAIN listed[a]["withdrawals"]
  PROVE  During(a, i) = After(listed[a]["withdrawals"][i],
                              NextOp(operations, listed[a]["withdrawals"], i), a)
  <1> DEFINE w == listed[a]["withdrawals"]
             e == IF i < Len(w) THEN w[i + 1].op - 1 ELSE Len(operations)
             end == NextOp(operations, w, i)
  <1>1. w \in Seq(Records) /\ operations \in Seq(Operations)
    <2>1. "withdrawals" \in Lists BY DEF Lists
    <2> QED BY <2>1 DEF HistoryInv, Logs
  <1>2. \A k \in DOMAIN w : w[k].op \in Nat
    <2>1. \A k \in DOMAIN w : w[k] \in Records BY <1>1
    <2> QED BY <2>1, RecordParts
  <1>3. Len(w) \in Nat /\ DOMAIN w = 1 .. Len(w) /\ Len(operations) \in Nat BY <1>1
  <1>4. During(a, i) = {id \in (w[i].op + 1) .. e : operations[id].from = a} BY DEF During
  <1>w. i \in DOMAIN w OBVIOUS
  <1> HIDE DEF w
  <1>5. e \in Int /\ e + 1 = end
    <2>1. CASE i < Len(w)
      <3>1. i + 1 \in DOMAIN w BY <1>3, <1>w, <2>1
      <3>2. w[i + 1].op \in Nat BY <1>2, <3>1
      <3> QED BY <2>1, <3>2 DEF NextOp
    <2>2. CASE ~(i < Len(w)) BY <1>3, <2>2 DEF NextOp
    <2> QED BY <2>1, <2>2
  <1>6. w[i].op \in Nat BY <1>2, <1>w
  <1> HIDE DEF e, end
  <1>7. \A id : id \in (w[i].op + 1) .. e <=> id \in Nat /\ w[i].op < id /\ id < end
    BY <1>5, <1>6
  <1>8. During(a, i) = After(w[i], end, a) BY <1>4, <1>7 DEF After
  <1> QED BY <1>8 DEF w, end

LEMMA WithdrawnIs ==
  ASSUME HistoryInv, NEW a \in Holders, NEW r \in Records, NEW end \in Nat, NEW newest \in BOOLEAN,
         RecordInv(operations, r, end, newest, a)
  PROVE  Withdrawn(r) = Cardinality({id \in After(r, end, a) : operations[id].kind \in Paid})
  <1> DEFINE p == r.progress
             f == [i \in DOMAIN p |-> IF operations[p[i]].kind \in Paid THEN operations[p[i]].amount ELSE 0]
             P == {k \in DOMAIN p : operations[p[k]].kind \in Paid}
             Q == {id \in After(r, end, a) : operations[id].kind \in Paid}
  <1>1. r.op \in Nat /\ Len(p) \in Nat /\ DOMAIN p = 1 .. Len(p) /\ \A k \in DOMAIN p : p[k] \in Nat
    BY RecordParts
  <1>2. Withdrawn(r) = SumFunction(f) BY DEF Withdrawn
  <1>3. "withdraw" \notin Paid /\ Paid \subseteq Telling BY DEF Paid, Telling
  <1>4. Len(operations) \in Nat BY DEF HistoryInv
  <1>5. \A k \in P : r.op < p[k] /\ p[k] < end /\ operations[p[k]].from = a
    BY <1>3 DEF RecordInv, IsTold
  <1>6. \A k \in P : operations[p[k]].amount = 1
    <2>1. \A k \in P : p[k] \in 1 .. Len(operations)
      BY <1>1, <1>4, <1>5 DEF RecordInv
    <2> QED BY <2>1 DEF HistoryInv
  <1>7. IsFiniteSet(DOMAIN p) BY <1>1, FS_Interval
  <1>8. P \in SUBSET DOMAIN p OBVIOUS
  <1>9. (\A k \in P : f[k] = 1) /\ (\A k \in DOMAIN p \ P : f[k] = 0) BY <1>6
  <1>10. SumFunction(f) = SumFunctionOnSet(f, DOMAIN p) BY SumIs
  <1> HIDE DEF f
  <1>11. SumFunctionOnSet(f, DOMAIN p) = Cardinality(P) /\ Cardinality(P) \in Nat
    <2>1. SumFunctionOnSet(f, DOMAIN p) = Cardinality(P) * 1 /\ Cardinality(P) \in Nat
      <3> HIDE DEF P, p
      <3> QED BY <1>7, <1>8, <1>9, SumOfPart
    <2> QED BY <2>1
  <1> DEFINE m == [k \in P |-> p[k]]
  <1>12. m \in [P -> Q]
    <2>1. \A k \in P : p[k] \in Q BY <1>1, <1>5 DEF After
    <2> HIDE DEF P, Q, p
    <2> QED BY <2>1
  <1>13. \A id \in Q : \E k \in P : m[k] = id
    <2> TAKE id \in Q
    <2>1. id \in Nat /\ r.op < id /\ id < end /\ IsTold(operations, a, id)
      BY <1>3 DEF After, IsTold
    <2>2. PICK k \in DOMAIN p : p[k] = id BY <2>1 DEF RecordInv
    <2>3. k \in P BY <2>2
    <2> QED BY <2>2, <2>3
  <1>14. \A j, k \in P : m[j] = m[k] => j = k
    <2>1. ASSUME NEW j \in P, NEW k \in P, m[j] = m[k] PROVE j = k
      <3>1. p[j] = p[k] /\ p[j] \in Nat /\ j \in 1 .. Len(p) /\ k \in 1 .. Len(p) BY <1>1, <2>1
      <3>2. ~(j < k) /\ ~(k < j) BY <3>1, <1>1 DEF RecordInv
      <3> QED BY <1>1, <3>1, <3>2
    <2> QED BY <2>1
  <1>15. IsFiniteSet(P) BY <1>7, <1>8, FS_Subset
  <1> HIDE DEF P, Q, m
  <1>16. m \in Surjection(P, Q) /\ m \in Injection(P, Q)
    BY <1>12, <1>13, <1>14 DEF Surjection, Injection, IsInjective
  <1>17. Cardinality(Q) = Cardinality(P) BY <1>15, <1>16, FS_Surjection
  <1> QED BY <1>2, <1>10, <1>11, <1>17 DEF Q

LEMMA StatusIs ==
  ASSUME HistoryInv, NEW a \in Holders, NEW r \in Records, NEW end \in Nat, NEW newest \in BOOLEAN,
         RecordInv(operations, r, end, newest, a), operations[r.op].amount > 0
  PROVE  /\ Status(r) = IF \E id \in After(r, end, a) : operations[id].kind = "finished"
                        THEN "finished" ELSE IF newest THEN "active" ELSE "interrupted"
         /\ newest /\ Unfinished(operations, r) => Status(r) = "active"
  <1> DEFINE p == r.progress
             n == Len(p)
             K(k) == operations[p[k]].kind
             done == \E id \in After(r, end, a) : operations[id].kind = "finished"
  <1>1. r.op \in Nat /\ n \in Nat /\ DOMAIN p = 1 .. n /\ \A k \in 1 .. n : p[k] \in Nat
    BY RecordParts
  <1>2. r.op \in 1 .. Len(operations) /\ operations[r.op].amount \in Nat
    <2>1. r.op \in 1 .. Len(operations) /\ operations \in Seq(Operations) BY DEF RecordInv, HistoryInv
    <2>2. operations[r.op] \in Operations BY <2>1
    <2> QED BY <2>1, <2>2 DEF Operations
  <1>3. Status(r) = IF n = 0 THEN "active"
                    ELSE IF n > 1 /\ K(n - 1) = "finished" THEN "finished"
                    ELSE IF K(n) = "finished" THEN "finished"
                    ELSE IF K(n) = "withdraw" THEN "interrupted" ELSE "active"
    BY <1>2 DEF Status
  <1>4. done <=> \E k \in 1 .. n : K(k) = "finished"
    <2>1. ASSUME NEW id \in After(r, end, a), operations[id].kind = "finished"
          PROVE  \E k \in 1 .. n : K(k) = "finished"
      <3>1. id \in Nat /\ r.op < id /\ id < end /\ IsTold(operations, a, id)
        BY <2>1 DEF After, IsTold, Telling
      <3>2. PICK k \in DOMAIN p : p[k] = id BY <3>1 DEF RecordInv
      <3> QED BY <1>1, <2>1, <3>2
    <2>2. ASSUME NEW k \in 1 .. n, K(k) = "finished"
          PROVE  p[k] \in After(r, end, a) /\ operations[p[k]].kind = "finished"
      <3>1. ~(~newest /\ k = n) BY <2>2 DEF RecordInv
      <3>2. r.op < p[k] /\ p[k] < end /\ operations[p[k]].from = a BY <1>1, <3>1 DEF RecordInv, IsTold
      <3> QED BY <1>1, <2>2, <3>2 DEF After
    <2> QED BY <2>1, <2>2
  <1>5. ~newest => n # 0 /\ K(n) = "withdraw" BY DEF RecordInv
  <1>6. \A k \in 1 .. n : newest => K(k) # "withdraw"
    BY <1>1 DEF RecordInv, IsTold, Telling, Paid
  <1>7. \A j, k \in 1 .. n : j < k /\ K(j) = "finished" => k = n
    <2>1. \A j, k \in DOMAIN p : j < k /\ K(j) = "finished" => k = n BY DEF RecordInv
    <2> HIDE DEF p, K
    <2> QED BY <1>1, <2>1
  <1>8. newest /\ Unfinished(operations, r) => \A k \in 1 .. n : K(k) # "finished"
    BY <1>1 DEF Unfinished
  <1> HIDE DEF p, n, K, done
  <1>9. CASE n = 0
    <2>1. ~done /\ newest BY <1>4, <1>5, <1>9
    <2> QED BY <1>3, <1>9, <2>1 DEF done
  <1>10. CASE n # 0
    <2>1. n \in 1 .. n /\ (n > 1 => n - 1 \in 1 .. n) BY <1>1, <1>10
    <2>2. CASE n > 1 /\ K(n - 1) = "finished"
      <3>1. done BY <1>4, <2>1, <2>2
      <3> QED BY <1>3, <1>8, <1>10, <2>1, <2>2, <3>1 DEF done
    <2>3. CASE K(n) = "finished"
      <3>1. done BY <1>4, <2>1, <2>3
      <3> QED BY <1>3, <1>8, <1>10, <2>1, <2>3, <3>1 DEF done
    <2>4. CASE ~(n > 1 /\ K(n - 1) = "finished") /\ K(n) # "finished"
      <3>1. ASSUME NEW k \in 1 .. n, K(k) = "finished" PROVE FALSE
        <4>1. k # n BY <2>4, <3>1
        <4>2. k < n - 1 \/ k = n - 1 BY <1>1, <4>1
        <4>3. k # n - 1 BY <1>1, <2>4, <3>1
        <4>4. k < n - 1 /\ n > 1 /\ n - 1 \in 1 .. n BY <1>1, <4>2, <4>3
        <4>5. n - 1 = n BY <1>7, <3>1, <4>4
        <4> QED BY <1>1, <4>5
      <3>2. ~done BY <1>4, <3>1
      <3>3. CASE newest
        BY <1>3, <1>6, <1>10, <2>1, <2>4, <3>2, <3>3 DEF done
      <3>4. CASE ~newest
        BY <1>3, <1>5, <1>10, <2>4, <3>2, <3>4 DEF done
      <3> QED BY <3>3, <3>4
    <2> QED BY <2>2, <2>3, <2>4
  <1> QED BY <1>9, <1>10

LEMMA StatusRight == HistoryInv => StatusIsRight
  <1> SUFFICES ASSUME HistoryInv, NEW a \in Holders, NEW i \in DOMAIN listed[a]["withdrawals"],
                      operations[listed[a]["withdrawals"][i].op].amount > 0
               PROVE  LET r == listed[a]["withdrawals"][i]
                          is == get_account_sp_to_scr_transfers(a, i)
                          after == During(a, i)
                          done == \E id \in after : operations[id].kind = "finished"
                          newest == i = Len(listed[a]["withdrawals"])
                      IN  /\ is.status = (IF done THEN "finished" ELSE IF newest THEN "active" ELSE "interrupted")
                          /\ is.withdrawn = Cardinality({id \in after : operations[id].kind \in Paid})
                          /\ newest /\ a \in running => is.status = "active"
    BY DEF StatusIsRight, Holders
  <1> DEFINE w == listed[a]["withdrawals"]
             r == w[i]
             end == NextOp(operations, w, i)
             newest == i = Len(w)
             is == get_account_sp_to_scr_transfers(a, i)
  <1>1. w \in Seq(Records)
    <2>1. "withdrawals" \in Lists BY DEF Lists
    <2> QED BY <2>1 DEF HistoryInv, Logs
  <1>2. r \in Records BY <1>1
  <1>3. RecordInv(operations, r, end, newest, a) BY DEF HistoryInv, WithdrawalsInv
  <1>4. end \in Nat
    <2>1. CASE i < Len(w)
      <3>1. i + 1 \in DOMAIN w BY <1>1, <2>1
      <3>2. w[i + 1] \in Records BY <1>1, <3>1
      <3>3. w[i + 1].op \in Nat BY <3>2, RecordParts
      <3> QED BY <2>1, <3>3 DEF NextOp
    <2>2. CASE ~(i < Len(w))
      <3>1. Len(operations) \in Nat BY DEF HistoryInv
      <3> QED BY <2>2, <3>1 DEF NextOp
    <2> QED BY <2>1, <2>2
  <1>5. During(a, i) = After(r, end, a) BY DuringIs
  <1>6. is.status = Status(r) /\ is.withdrawn = Withdrawn(r) BY DEF get_account_sp_to_scr_transfers
  <1>7. newest /\ a \in running => Unfinished(operations, r)
    <2>1. w # <<>> BY <1>1
    <2> QED BY <2>1 DEF HistoryInv, WithdrawalsInv
  <1>8. operations[r.op].amount > 0 /\ newest \in BOOLEAN OBVIOUS
  <1> HIDE DEF r, end, newest, is
  <1>9. Withdrawn(r) = Cardinality({id \in After(r, end, a) : operations[id].kind \in Paid})
    BY <1>2, <1>3, <1>4, <1>8, WithdrawnIs
  <1>10. /\ Status(r) = IF \E id \in After(r, end, a) : operations[id].kind = "finished"
                        THEN "finished" ELSE IF newest THEN "active" ELSE "interrupted"
         /\ newest /\ Unfinished(operations, r) => Status(r) = "active"
    BY <1>2, <1>3, <1>4, <1>8, StatusIs
  <1> QED BY <1>5, <1>6, <1>7, <1>9, <1>10 DEF r, newest, is

\* The range that is looked up is the one the account is in.
LEMMA TrackedIs ==
  ASSUME NEW a \in Withdrawers
  PROVE  Tracked(a) <=> \/ TrackedRanges = <<>>
                        \/ \E i \in DOMAIN TrackedRanges : TrackedRanges[i][1] <= a /\ a <= TrackedRanges[i][2]
  <1> DEFINE begun == {i \in DOMAIN TrackedRanges : TrackedRanges[i][1] <= a}
             m == Max(begun)
  <1>1. /\ TrackedRanges \in Seq(Nat \X Nat) /\ a \in Nat
        /\ \A i, j \in DOMAIN TrackedRanges : i < j => TrackedRanges[i][2] < TrackedRanges[j][1]
    BY HistoryAssumption
  <1>2. /\ DOMAIN TrackedRanges = 1 .. Len(TrackedRanges) /\ Len(TrackedRanges) \in Nat
        /\ \A i \in DOMAIN TrackedRanges : TrackedRanges[i][1] \in Nat /\ TrackedRanges[i][2] \in Nat
    BY <1>1
  <1>3. Tracked(a) <=> TrackedRanges = <<>> \/ (begun # {} /\ a <= TrackedRanges[m][2])
    BY DEF Tracked
  <1>4. begun # {} => m \in begun /\ \A x \in begun : x <= m
    <2> SUFFICES ASSUME begun # {} PROVE \E x \in begun : \A y \in begun : y <= x
      BY DEF Max
    <2>1. begun \in SUBSET (1 .. Len(TrackedRanges)) BY <1>2
    <2> HIDE DEF begun
    <2> DEFINE G == {Len(TrackedRanges) - x : x \in begun}
    <2>2. G \in SUBSET Nat /\ G # {}
      <3>1. \A x \in begun : Len(TrackedRanges) - x \in Nat BY <1>2, <2>1
      <3>2. G \in SUBSET Nat BY <3>1
      <3>3. PICK x : x \in begun OBVIOUS
      <3>4. Len(TrackedRanges) - x \in G BY <3>3
      <3> QED BY <3>2, <3>4
    <2>3. PICK g \in G : \A y \in G : g <= y BY <2>2, LeastNatural
    <2>4. PICK x \in begun : g = Len(TrackedRanges) - x BY <2>3
    <2>5. ASSUME NEW y \in begun PROVE y <= x
      <3>1. Len(TrackedRanges) - y \in G OBVIOUS
      <3>2. g <= Len(TrackedRanges) - y BY <2>3, <3>1
      <3> QED BY <1>2, <2>1, <2>4, <3>2
    <2> QED BY <2>5
  <1> HIDE DEF m
  <1>5. ASSUME NEW i \in DOMAIN TrackedRanges, TrackedRanges[i][1] <= a, a <= TrackedRanges[i][2]
        PROVE  begun # {} /\ a <= TrackedRanges[m][2]
    <2>1. i \in begun BY <1>5
    <2>2. m \in begun /\ i <= m BY <1>4, <2>1
    <2>3. m \in DOMAIN TrackedRanges /\ TrackedRanges[m][1] <= a BY <2>2
    <2>4. ~(i < m)
      <3>1. i < m => TrackedRanges[i][2] < TrackedRanges[m][1] BY <1>1, <2>3
      <3> QED BY <1>1, <1>2, <1>5, <2>3, <3>1
    <2>5. i = m BY <1>2, <2>2, <2>3, <2>4
    <2> QED BY <1>5, <2>1, <2>5
  <1>6. ASSUME begun # {}, a <= TrackedRanges[m][2]
        PROVE  \E i \in DOMAIN TrackedRanges : TrackedRanges[i][1] <= a /\ a <= TrackedRanges[i][2]
    <2>1. m \in begun BY <1>4, <1>6
    <2> QED BY <1>6, <2>1
  <1> QED BY <1>3, <1>5, <1>6

LEMMA OnceListed == HistoryInv => ListedOnce
  <1> SUFFICES ASSUME HistoryInv, NEW a \in Withdrawers
               PROVE  LET all == listed[a]["all"]
                          tracked == \/ TrackedRanges = <<>>
                                     \/ \E i \in DOMAIN TrackedRanges : TrackedRanges[i][1] <= a /\ a <= TrackedRanges[i][2]
                      IN  /\ \A i, j \in DOMAIN all : i < j => all[i].op < all[j].op
                          /\ {all[i].op : i \in DOMAIN all} =
                                {id \in DOMAIN operations : tracked /\ a \in {operations[id].from, operations[id].to}}
    BY DEF ListedOnce
  <1> DEFINE all == listed[a]["all"]
             tracked == \/ TrackedRanges = <<>>
                        \/ \E i \in DOMAIN TrackedRanges : TrackedRanges[i][1] <= a /\ a <= TrackedRanges[i][2]
  <1>1. a \in Holders /\ operations \in Seq(Operations) BY DEF Holders, HistoryInv
  <1>2. DOMAIN operations = 1 .. Len(operations) /\ \A id \in DOMAIN operations : operations[id] \in Operations
    BY <1>1
  <1>3. AllInv(operations, all, a) BY <1>1 DEF HistoryInv
  <1>4. Tracked(a) <=> tracked BY TrackedIs
  <1> HIDE DEF all, tracked
  <1>5. \A id \in DOMAIN operations :
           a \in ListedFor(operations[id]) <=>
              tracked /\ a \in {operations[id].from, operations[id].to}
    BY <1>1, <1>2, <1>4, Listening
  <1>6. \A i, j \in DOMAIN all : i < j => all[i].op < all[j].op BY <1>3 DEF AllInv
  <1>7. \A i \in DOMAIN all : all[i].op \in DOMAIN operations /\ a \in ListedFor(operations[all[i].op])
    BY <1>2, <1>3 DEF AllInv
  <1>8. \A id \in DOMAIN operations : a \in ListedFor(operations[id]) => \E i \in DOMAIN all : all[i].op = id
    BY <1>2, <1>3 DEF AllInv
  <1>9. {all[i].op : i \in DOMAIN all} =
          {id \in DOMAIN operations : tracked /\ a \in {operations[id].from, operations[id].to}}
    BY <1>5, <1>7, <1>8
  <1> QED BY <1>6, <1>9 DEF all, tracked

LEMMA LeastOf ==
  ASSUME NEW x \in Int, NEW y \in Int, x <= y
  PROVE  Min(x .. y) = x
  <1>1. x \in x .. y /\ \A z \in x .. y : x <= z OBVIOUS
  <1>2. \A u \in x .. y : (\A z \in x .. y : u <= z) => u = x BY <1>1
  <1> QED BY <1>1, <1>2 DEF Min

LEMMA CompletePages == HistoryInv => PagesComplete
  <1> SUFFICES ASSUME HistoryInv, NEW a \in Withdrawers, NEW from \in 0 .. MaxHistory,
                      NEW limit \in 0 .. MaxHistory, limit > 0, listed[a]["all"] # <<>>
               PROVE  LET last == Len(listed[a]["all"]) - 1
                          top == IF from < last THEN from ELSE last
                          page == get_history("all", a, from, limit)
                      IN  /\ page = Min(page) .. top
                          /\ top <= Min(page) + limit
                          /\ Min(page) = 0 \/ Cardinality(page) >= limit
                          /\ get_ops_history(from + limit, limit) =
                                {id \in DOMAIN operations : Cardinality({j \in DOMAIN operations :
                                     id <= j /\ j <= from + limit}) \in 1 .. limit}
    BY DEF PagesComplete, MayAsk
  <1> DEFINE s == listed[a]["all"]
             last == Len(s) - 1
             top == IF from < last THEN from ELSE last
             pos == IF top > limit THEN top - limit ELSE 0
             page == get_history("all", a, from, limit)
             n == Len(operations)
             end == IF from + limit > n THEN n ELSE from + limit
  <1>0. from \in Nat /\ limit \in Nat /\ limit > 0 BY HistoryAssumption
  <1>1. a \in Holders /\ s \in Seq(Records) /\ operations \in Seq(Operations)
    <2>1. "all" \in Lists BY DEF Lists
    <2> QED BY <2>1 DEF Holders, HistoryInv, Logs
  <1>2. Len(s) \in Nat \ {0} /\ 1 \in DOMAIN s /\ n \in Nat /\ DOMAIN operations = 1 .. n
    BY <1>1, EmptySeq
  <1>3. operations # <<>>
    <2>1. AllInv(operations, s, a) BY <1>1 DEF HistoryInv
    <2>2. s[1].op \in 1 .. n BY <1>2, <2>1 DEF AllInv
    <2>3. n # 0 BY <1>2, <2>2
    <2> QED BY <1>1, <2>3
  <1>4. top \in Nat /\ pos \in Nat /\ pos <= top BY <1>0, <1>2
  <1>5. page = IF pos > 0 THEN (pos + 1) .. top ELSE 0 .. top BY DEF get_history
  <1>6. pos > 0 => pos + 1 <= top /\ top - pos = limit
    BY <1>0, <1>2
  <1> HIDE DEF s, last, top, pos, page
  <1>7. Min(page) = IF pos > 0 THEN pos + 1 ELSE 0
    BY <1>4, <1>5, <1>6, LeastOf
  <1>8. page = Min(page) .. top BY <1>5, <1>7
  <1>t. top <= Min(page) + limit
    <2>1. CASE pos > 0 BY <1>0, <1>4, <1>6, <1>7, <2>1
    <2>2. CASE ~(pos > 0)
      <3>1. top <= limit BY <1>0, <1>4, <2>2 DEF pos
      <3> QED BY <1>0, <1>7, <2>2, <3>1
    <2> QED BY <2>1, <2>2
  <1>9. Min(page) = 0 \/ Cardinality(page) >= limit
    <2>1. CASE pos > 0
      <3>1. page = (pos + 1) .. top BY <1>5, <2>1
      <3>2. Cardinality((pos + 1) .. top) = IF pos + 1 > top THEN 0 ELSE top - (pos + 1) + 1
        BY <1>4, FS_Interval
      <3> QED BY <1>0, <1>4, <1>6, <2>1, <3>1, <3>2
    <2>2. CASE ~(pos > 0) BY <1>7, <2>2
    <2> QED BY <2>1, <2>2
  <1>10. get_ops_history(from + limit, limit) = {id \in 1 .. n : end < id + limit /\ id <= end}
    BY <1>3 DEF get_ops_history
  <1>11. end \in Nat BY <1>0, <1>2
  <1>12. ASSUME NEW id \in 1 .. n
         PROVE  Cardinality({j \in 1 .. n : id <= j /\ j <= from + limit}) \in 1 .. limit
                  <=> end < id + limit /\ id <= end
    <2>1. {j \in 1 .. n : id <= j /\ j <= from + limit} = id .. end BY <1>0, <1>2
    <2> HIDE DEF end, n
    <2>2. Cardinality(id .. end) = IF id > end THEN 0 ELSE end - id + 1
      BY <1>2, <1>11, FS_Interval
    <2>3. id \in Nat BY <1>2
    <2>4. (IF id > end THEN 0 ELSE end - id + 1) \in 1 .. limit <=> end < id + limit /\ id <= end
      BY <1>0, <1>11, <2>3
    <2> QED BY <2>1, <2>2, <2>4
  <1>13. get_ops_history(from + limit, limit) =
           {id \in DOMAIN operations : Cardinality({j \in DOMAIN operations :
                id <= j /\ j <= from + limit}) \in 1 .. limit}
    <2> HIDE DEF end, n
    <2>1. {id \in 1 .. n : end < id + limit /\ id <= end} =
            {id \in 1 .. n : Cardinality({j \in 1 .. n : id <= j /\ j <= from + limit}) \in 1 .. limit}
      BY <1>12
    <2> QED BY <1>2, <1>10, <2>1
  <1> QED BY <1>8, <1>9, <1>13, <1>t DEF page, top, last, s

\* Whatever accounts transfer, withdraw and are paid, for any ranges of names that do not
\* overlap: the status of a withdrawal and what was paid of it are those that all the
\* operations show, every operation is listed once and in order for each tracked account,
\* and nothing is left out between pages (on_operation, account_history_api).
THEOREM HistoryAlwaysSound == HistorySpec => []HistorySound
  <1>1. HistoryInit => HistoryInv BY HistoryInitInv
  <1>2. HistoryInv /\ [HistoryNext]_historyVars => HistoryInv' BY HistoryNextInv
  <1>3. HistoryInv => HistorySound BY StatusRight, OnceListed, CompletePages DEF HistorySound
  <1> QED BY <1>1, <1>2, <1>3, PTL DEF HistorySpec

-----------------------------------------------------------------------------
(***************************************************************************)
(* Transactions.  What has been applied is forgotten once it has expired,  *)
(* so that nothing is applied twice rests on KnownKept: of what is in the  *)
(* chain, all that a block could still take in is known.  What is pending  *)
(* is described without the order of its pushes (Stands): none of it is    *)
(* known or used up, none uses what another one uses.  A client waits for  *)
(* the task of the block that has its transaction (WaitsForTask); once its *)
(* expiration is before a block, no later one can take it in.              *)
(***************************************************************************)
LedgerStates ==
  [known : SUBSET Trxs, spent : SUBSET {Spends[t] : t \in Trxs},
   band : [Authors -> [average : Int, last : Int]]]

Results == [s : LedgerStates, txs : Seq(Trxs)]

\* A sequence of transactions all of which apply one after the other.
Stands(s, txs, now) ==
  \A i \in DOMAIN txs :
    /\ txs[i] \notin s.known /\ Spends[txs[i]] \notin s.spent
    /\ now < Expiration[txs[i]] /\ Expiration[txs[i]] <= now + MaxUntilExpiration
    /\ \A j \in DOMAIN txs : j < i => Spends[txs[j]] # Spends[txs[i]]

\* What the transactions taken in leave.
Leaves(r, s) ==
  /\ r.s.known = s.known \cup Range(r.txs)
  /\ r.s.spent = s.spent \cup {Spends[t] : t \in Range(r.txs)}

\* Some of the transactions are taken in, each where it applies.
Taking(f, s, txs, now) ==
  /\ f \in [0..Len(txs) -> Results] /\ f[0] = [s |-> s, txs |-> <<>>]
  /\ \A n \in 1..Len(txs) :
       f[n] = f[n - 1] \/ (Applies(f[n - 1].s, txs[n], now, FALSE) /\ f[n] = TakeIn(f[n - 1], txs[n], now))

TakenRight(r, s, txs, now, n) ==
  /\ r \in Results /\ Stands(s, r.txs, now) /\ Leaves(r, s)
  /\ \A t \in Range(r.txs) : \E j \in 1..n : t = txs[j]

LEMMA TrxConstants ==
  /\ Expiration \in [Trxs -> Nat] /\ Gaps \subseteq Nat \ {0} /\ BandwidthWindow \in Nat /\ BandwidthWindow >= 1
  /\ MaxUntilExpiration \in Nat /\ TrxSize \in [Trxs -> Nat]
  BY TransactionsAssumption

LEMMA AppliedLeaves ==
  ASSUME NEW s \in LedgerStates, NEW t \in Trxs, NEW now \in Nat
  PROVE  LET q == _apply_transaction(s, t, now)
         IN  q \in LedgerStates /\ q.known = s.known \cup {t} /\ q.spent = s.spent \cup {Spends[t]}
  <1> DEFINE old == s.band[Author[t]]
             new == new_bandwidth(old, now, TrxSize[t])
             band == [s.band EXCEPT ![Author[t]] = [average |-> new, last |-> now]]
  <1>1. Author[t] \in Authors BY DEF Authors
  <1>2. old.average \in Int /\ old.last \in Int BY <1>1 DEF LedgerStates
  <1>3. new \in Int
    <2>1. \A x \in Int : x \div BandwidthWindow \in Int BY TrxConstants
    <2>2. (BandwidthWindow - (now - old.last)) * old.average \in Int BY <1>2, TrxConstants
    <2> QED BY <1>2, <2>1, <2>2, TrxConstants DEF new_bandwidth
  <1>4. s.band \in [Authors -> [average : Int, last : Int]] BY DEF LedgerStates
  <1> HIDE DEF new, old
  <1>a. [average |-> new, last |-> now] \in [average : Int, last : Int] BY <1>3
  <1>5. band \in [Authors -> [average : Int, last : Int]]
    <2> DEFINE record == [average |-> new, last |-> now]
               S == [average : Int, last : Int]
    <2>1. record \in S /\ s.band \in [Authors -> S] BY <1>a, <1>4
    <2>2. band = [s.band EXCEPT ![Author[t]] = record] OBVIOUS
    <2> HIDE DEF record, S, band
    <2>3. band \in [Authors -> S] BY <2>1, <2>2
    <2> QED BY <2>3 DEF S
  <1>6. s.known \cup {t} \in SUBSET Trxs /\ s.spent \cup {Spends[t]} \in SUBSET {Spends[u] : u \in Trxs}
    BY DEF LedgerStates
  <1>b. s = [known |-> s.known, spent |-> s.spent, band |-> s.band] BY DEF LedgerStates
  <1>c. update_account_bandwidth(s, t, now) = [s EXCEPT !.band = band]
    BY <1>b DEF update_account_bandwidth, new, old
  <1>d. [s EXCEPT !.band = band] = [known |-> s.known, spent |-> s.spent, band |-> band]
    <2> HIDE DEF band
    <2> QED BY <1>b
  <1>7. _apply_transaction(s, t, now) = [known |-> s.known \cup {t}, spent |-> s.spent \cup {Spends[t]}, band |-> band]
    <2> DEFINE u == update_account_bandwidth(s, t, now)
    <2>1. _apply_transaction(s, t, now) = [u EXCEPT !.known = @ \cup {t}, !.spent = @ \cup {Spends[t]}]
      BY DEF _apply_transaction
    <2>2. u = [known |-> s.known, spent |-> s.spent, band |-> band] BY <1>c, <1>d
    <2> DEFINE K == u.known \cup {t}
               S == u.spent \cup {Spends[t]}
    <2>3. _apply_transaction(s, t, now) = [u EXCEPT !.known = K, !.spent = S] BY <2>1
    <2>4. K = s.known \cup {t} /\ S = s.spent \cup {Spends[t]} BY <2>2
    <2> HIDE DEF band, u, K, S
    <2>5. [u EXCEPT !.known = K, !.spent = S] = [known |-> K, spent |-> S, band |-> band]
      <3> DEFINE w == [u EXCEPT !.known = K, !.spent = S]
      <3>1. DOMAIN u = {"known", "spent", "band"} /\ u["band"] = band BY <2>2
      <3>2. DOMAIN w = {"known", "spent", "band"} /\ w["known"] = K /\ w["spent"] = S /\ w["band"] = band
        BY <3>1
      <3>3. w = [x \in {"known", "spent", "band"} |-> w[x]] BY <3>1
      <3> HIDE DEF w
      <3>4. w = [known |-> K, spent |-> S, band |-> band] BY <3>2, <3>3
      <3> QED BY <3>4 DEF w
    <2> QED BY <2>3, <2>4, <2>5
  <1> HIDE DEF band
  <1> QED BY <1>5, <1>6, <1>7 DEF LedgerStates

LEMMA AppliesIs ==
  ASSUME NEW s, NEW t, NEW now
  PROVE  Applies(s, t, now, FALSE)
           <=> /\ t \notin s.known /\ Expiration[t] <= now + MaxUntilExpiration /\ now < Expiration[t]
               /\ Spends[t] \notin s.spent
  BY DEF Applies

LEMMA RangeOfAppend ==
  ASSUME NEW S, NEW q \in Seq(S), NEW t \in S
  PROVE  /\ Append(q, t) \in Seq(S) /\ Len(Append(q, t)) = Len(q) + 1 /\ Len(q) \in Nat
         /\ \A i \in 1..Len(q) : Append(q, t)[i] = q[i]
         /\ Append(q, t)[Len(q) + 1] = t
         /\ Range(Append(q, t)) = Range(q) \cup {t}
  <1>1. /\ Append(q, t) \in Seq(S) /\ Len(Append(q, t)) = Len(q) + 1 /\ Len(q) \in Nat
        /\ \A i \in 1..Len(q) : Append(q, t)[i] = q[i]
        /\ Append(q, t)[Len(q) + 1] = t
    OBVIOUS
  <1> DEFINE a == Append(q, t)
             n == Len(q)
  <1>2. DOMAIN q = 1..n /\ DOMAIN a = 1..(n + 1) /\ n \in Nat BY <1>1
  <1>3. ASSUME NEW x \in Range(a) PROVE x \in Range(q) \cup {t}
    <2>1. PICK i \in 1..(n + 1) : x = a[i] BY <1>2 DEF Range
    <2>2. CASE i = n + 1 BY <1>1, <2>1, <2>2
    <2>3. CASE i # n + 1
      <3>1. i \in 1..n BY <1>2, <2>3
      <3>2. x = q[i] BY <1>1, <2>1, <3>1
      <3> QED BY <1>2, <3>1, <3>2 DEF Range
    <2> QED BY <2>2, <2>3
  <1>4. ASSUME NEW x \in Range(q) \cup {t} PROVE x \in Range(a)
    <2>1. CASE x = t
      <3>1. n + 1 \in DOMAIN a /\ a[n + 1] = t BY <1>1, <1>2
      <3> QED BY <2>1, <3>1 DEF Range
    <2>2. CASE x \in Range(q)
      <3>1. PICK i \in 1..n : x = q[i] BY <1>2, <2>2 DEF Range
      <3>2. i \in DOMAIN a /\ a[i] = x BY <1>1, <1>2, <3>1
      <3> QED BY <3>2 DEF Range
    <2> QED BY <2>1, <2>2
  <1> QED BY <1>1, <1>3, <1>4

LEMMA TakenStands ==
  ASSUME NEW s \in LedgerStates, NEW now \in Nat, NEW r \in Results, NEW t \in Trxs,
         Stands(s, r.txs, now), Leaves(r, s), Applies(r.s, t, now, FALSE)
  PROVE  LET q == TakeIn(r, t, now)
         IN  q \in Results /\ Stands(s, q.txs, now) /\ Leaves(q, s)
  <1> DEFINE q == TakeIn(r, t, now)
             a == Append(r.txs, t)
             n == Len(r.txs)
  <1>1. q = [s |-> _apply_transaction(r.s, t, now), txs |-> a] BY DEF TakeIn
  <1>2. r.s \in LedgerStates /\ r.txs \in Seq(Trxs) BY DEF Results
  <1>3. /\ a \in Seq(Trxs) /\ Len(a) = n + 1 /\ n \in Nat /\ (\A i \in 1..n : a[i] = r.txs[i])
        /\ a[n + 1] = t /\ Range(a) = Range(r.txs) \cup {t}
    BY <1>2, RangeOfAppend
  <1>4. /\ _apply_transaction(r.s, t, now) \in LedgerStates
        /\ q.s.known = r.s.known \cup {t} /\ q.s.spent = r.s.spent \cup {Spends[t]}
    BY <1>1, <1>2, AppliedLeaves
  <1> HIDE DEF a
  <1>5. q \in Results /\ q.txs = a BY <1>1, <1>3, <1>4 DEF Results
  <1> HIDE DEF q
  <1>6. Leaves(q, s)
    BY <1>3, <1>4, <1>5 DEF Leaves
  <1>7. /\ t \notin s.known /\ t \notin Range(r.txs) /\ Expiration[t] <= now + MaxUntilExpiration /\ now < Expiration[t]
        /\ Spends[t] \notin s.spent /\ \A u \in Range(r.txs) : Spends[u] # Spends[t]
    BY AppliesIs DEF Leaves
  <1>8. DOMAIN r.txs = 1..n /\ DOMAIN a = 1..(n + 1) BY <1>2, <1>3
  <1>9. ASSUME NEW i \in 1..(n + 1)
        PROVE  /\ a[i] \notin s.known /\ Spends[a[i]] \notin s.spent
               /\ now < Expiration[a[i]] /\ Expiration[a[i]] <= now + MaxUntilExpiration
               /\ \A j \in 1..(n + 1) : j < i => Spends[a[j]] # Spends[a[i]]
    <2>1. CASE i = n + 1
      <3>1. ASSUME NEW j \in 1..(n + 1), j < i PROVE Spends[a[j]] # Spends[a[i]]
        <4>1. j \in 1..n BY <1>3, <2>1, <3>1
        <4>2. a[j] = r.txs[j] /\ r.txs[j] \in Range(r.txs) BY <1>3, <1>8, <4>1 DEF Range
        <4> QED BY <1>3, <1>7, <2>1, <4>2
      <3> QED BY <1>3, <1>7, <2>1, <3>1
    <2>2. CASE i # n + 1
      <3>1. i \in 1..n BY <1>3, <2>2
      <3>2. \A j \in 1..(n + 1) : j < i => j \in 1..n /\ a[j] = r.txs[j] BY <1>3, <3>1
      <3> QED BY <1>3, <1>8, <3>1, <3>2 DEF Stands
    <2> QED BY <2>1, <2>2
  <1>10. Stands(s, a, now) BY <1>8, <1>9 DEF Stands
  <1> QED BY <1>5, <1>6, <1>10 DEF q

LEMMA TakingRight ==
  ASSUME NEW s \in LedgerStates, NEW txs \in Seq(Trxs), NEW now \in Nat, NEW f, Taking(f, s, txs, now)
  PROVE  \A n \in 0..Len(txs) : TakenRight(f[n], s, txs, now, n)
  <1> DEFINE N == Len(txs)
             Right(n) == /\ f[n] \in Results /\ Stands(s, f[n].txs, now) /\ Leaves(f[n], s)
                         /\ \A t \in Range(f[n].txs) : \E j \in 1..n : t = txs[j]
             G == {n \in Nat : n <= N => Right(n)}
  <1>0. N \in Nat /\ \A n \in 1..N : txs[n] \in Trxs OBVIOUS
  <1>1. 0 \in G
    <2>1. f[0] = [s |-> s, txs |-> <<>>] /\ f[0] \in Results BY <1>0 DEF Taking
    <2>2. f[0].txs = <<>> /\ f[0].s = s /\ Range(f[0].txs) = {} BY <2>1 DEF Range
    <2>3. Stands(s, f[0].txs, now) BY <2>2 DEF Stands
    <2>4. Leaves(f[0], s) BY <2>2 DEF Leaves
    <2> QED BY <2>1, <2>2, <2>3, <2>4
  <1>2. ASSUME NEW n \in Nat, n \in G PROVE n + 1 \in G
    <2> SUFFICES ASSUME n + 1 <= N PROVE Right(n + 1) OBVIOUS
    <2>1. Right(n) BY <1>0, <1>2
    <2>2. n + 1 \in 1..N /\ (n + 1) - 1 = n BY <1>0
    <2>3. \/ f[n + 1] = f[n]
          \/ Applies(f[n].s, txs[n + 1], now, FALSE) /\ f[n + 1] = TakeIn(f[n], txs[n + 1], now)
      BY <2>2 DEF Taking
    <2>4. CASE f[n + 1] = f[n]
      <3>1. \A j \in 1..n : j \in 1..(n + 1) OBVIOUS
      <3> QED BY <2>1, <2>4, <3>1
    <2>5. CASE Applies(f[n].s, txs[n + 1], now, FALSE) /\ f[n + 1] = TakeIn(f[n], txs[n + 1], now)
      <3>1. txs[n + 1] \in Trxs BY <1>0, <2>2
      <3>2. f[n + 1] \in Results /\ Stands(s, f[n + 1].txs, now) /\ Leaves(f[n + 1], s)
        BY <2>1, <2>5, <3>1, TakenStands
      <3>3. f[n + 1].txs = Append(f[n].txs, txs[n + 1]) BY <2>5 DEF TakeIn
      <3>4. f[n].txs \in Seq(Trxs) BY <2>1 DEF Results
      <3>5. Range(f[n + 1].txs) = Range(f[n].txs) \cup {txs[n + 1]} BY <3>1, <3>3, <3>4, RangeOfAppend
      <3>6. ASSUME NEW t \in Range(f[n + 1].txs) PROVE \E j \in 1..(n + 1) : t = txs[j]
        <4>1. CASE t = txs[n + 1]
          <5>1. n + 1 \in 1..(n + 1) OBVIOUS
          <5> QED BY <4>1, <5>1
        <4>2. CASE t \in Range(f[n].txs)
          <5>1. PICK j \in 1..n : t = txs[j] BY <2>1, <4>2
          <5>2. j \in 1..(n + 1) OBVIOUS
          <5> QED BY <5>1, <5>2
        <4> QED BY <3>5, <4>1, <4>2
      <3> QED BY <3>2, <3>6
    <2> QED BY <2>3, <2>4, <2>5
  <1> HIDE DEF G
  <1>3. Nat \subseteq G BY <1>1, <1>2, NatSetInduction
  <1> SUFFICES ASSUME NEW n \in 0..N PROVE Right(n) BY DEF TakenRight
  <1>4. n \in G /\ n <= N BY <1>0, <1>3
  <1> QED BY <1>4 DEF G

LEMMA TryOneIs ==
  ASSUME NEW r \in Results, NEW t \in Trxs, NEW now \in Nat
  PROVE  TryOne(r, t, now) \in Results
  <1>1. r.s \in LedgerStates /\ r.txs \in Seq(Trxs) BY DEF Results
  <1>2. _apply_transaction(r.s, t, now) \in LedgerStates BY <1>1, AppliedLeaves
  <1>3. Append(r.txs, t) \in Seq(Trxs) BY <1>1
  <1>4. TakeIn(r, t, now) \in Results BY <1>2, <1>3 DEF TakeIn, Results
  <1> QED BY <1>4 DEF TryOne

LEMMA NothingTaken == ASSUME NEW s \in LedgerStates PROVE [s |-> s, txs |-> <<>>] \in Results
  BY DEF Results

\* What a sequence is pushed to is what its last transaction leaves.
LEMMA PushedIs ==
  ASSUME NEW s \in LedgerStates, NEW txs \in Seq(Trxs), NEW now \in Nat
  PROVE  \E f : /\ Taking(f, s, txs, now)
                /\ \A n \in 1..Len(txs) : f[n] = TryOne(f[n - 1], txs[n], now)
                /\ Pushed(s, txs, now) = f[Len(txs)]
  <1> DEFINE N == Len(txs)
             base == [s |-> s, txs |-> <<>>]
             F == [n \in 1..N |-> [r \in Results |-> TryOne(r, txs[n], now)]]
             body(g) == [n \in 0..N |-> IF n = 0 THEN base ELSE TryOne(g[n - 1], txs[n], now)]
             chosen == CHOOSE g : g = body(g)
  <1>0. N \in Nat /\ base \in Results /\ \A n \in 1..N : txs[n] \in Trxs BY NothingTaken
  <1>1. Steps(F, N, Results) /\ \A n \in 1..N : \A r \in Results : F[n][r] = TryOne(r, txs[n], now)
    BY <1>0, TryOneIs DEF Steps
  <1>2. Pushed(s, txs, now) = chosen[N] BY DEF Pushed
  <1> HIDE DEF F, N, base
  <1>3. PICK g : Iterates(g, base, F, N, Results) BY <1>0, <1>1, RecursionExists
  <1>4. g \in [0..N -> Results] /\ g[0] = base /\ \A n \in 1..N : g[n] = F[n][g[n - 1]]
    BY <1>3 DEF Iterates
  <1>5. \A n \in 1..N : n - 1 \in 0..N /\ n \in 0..N /\ n # 0 BY <1>0
  <1>6. \A n \in 1..N : g[n] = TryOne(g[n - 1], txs[n], now)
    <2> SUFFICES ASSUME NEW n \in 1..N PROVE g[n] = TryOne(g[n - 1], txs[n], now) OBVIOUS
    <2>1. g[n - 1] \in Results BY <1>4, <1>5
    <2> QED BY <1>1, <1>4, <2>1
  <1>7. g = body(g)
    <2>1. ASSUME NEW n \in 0..N PROVE g[n] = IF n = 0 THEN base ELSE TryOne(g[n - 1], txs[n], now)
      <3>1. CASE n = 0 BY <1>4, <3>1
      <3>2. CASE n # 0
        <4>1. n \in 1..N BY <1>0, <3>2
        <4> QED BY <1>6, <3>2, <4>1
      <3> QED BY <3>1, <3>2
    <2> QED BY <1>4, <2>1
  <1>8. chosen = body(chosen) BY <1>7
  <1> HIDE DEF chosen
  <1>9. \A n \in 0..N : chosen[n] = IF n = 0 THEN base ELSE TryOne(chosen[n - 1], txs[n], now) BY <1>8
  <1>10. chosen = [n \in 0..N |-> chosen[n]] BY <1>8
  <1>11. chosen[0] = base /\ \A n \in 1..N : chosen[n] = TryOne(chosen[n - 1], txs[n], now)
    <2>1. 0 \in 0..N BY <1>0
    <2> QED BY <1>5, <1>9, <2>1
  <1> DEFINE G == {n \in Nat : n <= N => chosen[n] \in Results}
  <1>12. 0 \in G BY <1>0, <1>11
  <1>13. ASSUME NEW n \in Nat, n \in G PROVE n + 1 \in G
    <2> SUFFICES ASSUME n + 1 <= N PROVE chosen[n + 1] \in Results OBVIOUS
    <2>1. n + 1 \in 1..N /\ (n + 1) - 1 = n /\ chosen[n] \in Results BY <1>0, <1>13
    <2> QED BY <1>0, <1>11, <2>1, TryOneIs
  <1> HIDE DEF G
  <1>14. Nat \subseteq G BY <1>12, <1>13, NatSetInduction
  <1>15. \A n \in 0..N : chosen[n] \in Results
    <2> SUFFICES ASSUME NEW n \in 0..N PROVE chosen[n] \in Results OBVIOUS
    <2>1. n \in G /\ n <= N BY <1>0, <1>14
    <2> QED BY <2>1 DEF G
  <1>16. chosen \in [0..N -> Results] BY <1>10, <1>15
  <1>17. Taking(chosen, s, txs, now)
    BY <1>11, <1>16 DEF Taking, TryOne, N, base
  <1> QED BY <1>2, <1>11, <1>17 DEF N

\* A block takes in some of what is pending.
LEMMA ChosenIs ==
  ASSUME ledger \in LedgerStates, pending \in Seq(Trxs), HeadTime \in Nat, NEW when
  PROVE  \E f : Taking(f, ledger, pending, HeadTime) /\ Chosen(when) = f[Len(pending)].txs
  <1> DEFINE N == Len(pending)
             base == [s |-> ledger, txs |-> <<>>]
             F == [n \in 1..N |-> [r \in Results |-> ChooseOne(r, pending[n], when)]]
             body(g) == [n \in 0..N |-> IF n = 0 THEN base ELSE ChooseOne(g[n - 1], pending[n], when)]
             chosen == CHOOSE g : g = body(g)
  <1>0. N \in Nat /\ base \in Results /\ \A n \in 1..N : pending[n] \in Trxs BY NothingTaken
  <1>a. \A r \in Results : \A t \in Trxs : ChooseOne(r, t, when) \in Results
    BY TryOneIs DEF ChooseOne
  <1>1. Steps(F, N, Results) /\ \A n \in 1..N : \A r \in Results : F[n][r] = ChooseOne(r, pending[n], when)
    BY <1>0, <1>a DEF Steps
  <1>2. Chosen(when) = chosen[N].txs BY DEF Chosen
  <1> HIDE DEF F, N, base
  <1>3. PICK g : Iterates(g, base, F, N, Results) BY <1>0, <1>1, RecursionExists
  <1>4. g \in [0..N -> Results] /\ g[0] = base /\ \A n \in 1..N : g[n] = F[n][g[n - 1]]
    BY <1>3 DEF Iterates
  <1>5. \A n \in 1..N : n - 1 \in 0..N /\ n \in 0..N /\ n # 0 BY <1>0
  <1>6. \A n \in 1..N : g[n] = ChooseOne(g[n - 1], pending[n], when)
    <2> SUFFICES ASSUME NEW n \in 1..N PROVE g[n] = ChooseOne(g[n - 1], pending[n], when) OBVIOUS
    <2>1. g[n - 1] \in Results BY <1>4, <1>5
    <2> QED BY <1>1, <1>4, <2>1
  <1>7. g = body(g)
    <2>1. ASSUME NEW n \in 0..N PROVE g[n] = IF n = 0 THEN base ELSE ChooseOne(g[n - 1], pending[n], when)
      <3>1. CASE n = 0 BY <1>4, <3>1
      <3>2. CASE n # 0
        <4>1. n \in 1..N BY <1>0, <3>2
        <4> QED BY <1>6, <3>2, <4>1
      <3> QED BY <3>1, <3>2
    <2> QED BY <1>4, <2>1
  <1>8. chosen = body(chosen) BY <1>7
  <1> HIDE DEF chosen
  <1>9. \A n \in 0..N : chosen[n] = IF n = 0 THEN base ELSE ChooseOne(chosen[n - 1], pending[n], when) BY <1>8
  <1>10. chosen = [n \in 0..N |-> chosen[n]] BY <1>8
  <1>11. chosen[0] = base /\ \A n \in 1..N : chosen[n] = ChooseOne(chosen[n - 1], pending[n], when)
    <2>1. 0 \in 0..N BY <1>0
    <2> QED BY <1>5, <1>9, <2>1
  <1> DEFINE G == {n \in Nat : n <= N => chosen[n] \in Results}
  <1>12. 0 \in G BY <1>0, <1>11
  <1>13. ASSUME NEW n \in Nat, n \in G PROVE n + 1 \in G
    <2> SUFFICES ASSUME n + 1 <= N PROVE chosen[n + 1] \in Results OBVIOUS
    <2>1. n + 1 \in 1..N /\ (n + 1) - 1 = n /\ chosen[n] \in Results BY <1>0, <1>13
    <2> QED BY <1>0, <1>a, <1>11, <2>1
  <1> HIDE DEF G
  <1>14. Nat \subseteq G BY <1>12, <1>13, NatSetInduction
  <1>15. \A n \in 0..N : chosen[n] \in Results
    <2> SUFFICES ASSUME NEW n \in 0..N PROVE chosen[n] \in Results OBVIOUS
    <2>1. n \in G /\ n <= N BY <1>0, <1>14
    <2> QED BY <2>1 DEF G
  <1>16. chosen \in [0..N -> Results] BY <1>10, <1>15
  <1>17. Taking(chosen, ledger, pending, HeadTime)
    BY <1>11, <1>16 DEF Taking, TryOne, ChooseOne, N, base
  <1> QED BY <1>2, <1>17 DEF N

\* What was taken in stays taken in.
LEMMA TakingGrows ==
  ASSUME NEW s \in LedgerStates, NEW txs \in Seq(Trxs), NEW now \in Nat, NEW f, Taking(f, s, txs, now),
         NEW m \in 0..Len(txs)
  PROVE  Range(f[m].txs) \subseteq Range(f[Len(txs)].txs)
  <1> DEFINE N == Len(txs)
             G == {n \in Nat : m <= n /\ n <= N => Range(f[m].txs) \subseteq Range(f[n].txs)}
  <1>0. N \in Nat /\ (\A n \in 1..N : txs[n] \in Trxs) /\ m \in 0..N /\ f \in [0..N -> Results] BY DEF Taking
  <1>1. 0 \in G
    <2>1. m <= 0 => m = 0 BY <1>0
    <2> QED BY <2>1
  <1>2. ASSUME NEW n \in Nat, n \in G PROVE n + 1 \in G
    <2> SUFFICES ASSUME m <= n + 1, n + 1 <= N PROVE Range(f[m].txs) \subseteq Range(f[n + 1].txs) OBVIOUS
    <2>1. CASE m = n + 1 BY <2>1
    <2>2. CASE m # n + 1
      <3>1. m <= n /\ n <= N /\ n + 1 \in 1..N /\ (n + 1) - 1 = n /\ n \in 0..N BY <1>0, <2>2
      <3>2. Range(f[m].txs) \subseteq Range(f[n].txs) BY <1>2, <3>1
      <3>3. \/ f[n + 1] = f[n] \/ f[n + 1] = TakeIn(f[n], txs[n + 1], now) BY <3>1 DEF Taking
      <3>4. txs[n + 1] \in Trxs /\ f[n].txs \in Seq(Trxs) BY <1>0, <3>1 DEF Results
      <3>5. Range(Append(f[n].txs, txs[n + 1])) = Range(f[n].txs) \cup {txs[n + 1]} BY <3>4, RangeOfAppend
      <3>6. f[n + 1] = TakeIn(f[n], txs[n + 1], now) => f[n + 1].txs = Append(f[n].txs, txs[n + 1]) BY DEF TakeIn
      <3> QED BY <3>2, <3>3, <3>5, <3>6
    <2> QED BY <2>1, <2>2
  <1> HIDE DEF G
  <1>3. Nat \subseteq G BY <1>1, <1>2, NatSetInduction
  <1>4. N \in G /\ m <= N BY <1>0, <1>3
  <1> QED BY <1>4 DEF G

\* What is pushed stands, and what was left out did not apply.
LEMMA PushedRight ==
  ASSUME NEW s \in LedgerStates, NEW txs \in Seq(Trxs), NEW now \in Nat
  PROVE  LET p == Pushed(s, txs, now)
         IN  /\ p \in Results /\ Stands(s, p.txs, now) /\ Leaves(p, s) /\ Range(p.txs) \subseteq Range(txs)
             /\ \A n \in 1..Len(txs) : \/ txs[n] \in Range(p.txs)
                                       \/ txs[n] \in s.known \/ Spends[txs[n]] \in s.spent
                                       \/ ~(now < Expiration[txs[n]])
                                       \/ ~(Expiration[txs[n]] <= now + MaxUntilExpiration)
                                       \/ \E j \in 1..(n - 1) : Spends[txs[j]] = Spends[txs[n]]
  <1> DEFINE p == Pushed(s, txs, now)
             N == Len(txs)
  <1>1. PICK f : /\ Taking(f, s, txs, now)
                 /\ \A n \in 1..N : f[n] = TryOne(f[n - 1], txs[n], now)
                 /\ p = f[N]
    BY PushedIs
  <1>0. N \in Nat /\ (\A n \in 1..N : txs[n] \in Trxs) /\ DOMAIN txs = 1..N OBVIOUS
  <1>2. \A n \in 0..N : /\ f[n] \in Results /\ Stands(s, f[n].txs, now) /\ Leaves(f[n], s)
                        /\ \A t \in Range(f[n].txs) : \E j \in 1..n : t = txs[j]
    <2>1. Taking(f, s, txs, now) BY <1>1
    <2>2. \A n \in 0..Len(txs) : TakenRight(f[n], s, txs, now, n) BY <2>1, TakingRight
    <2> QED BY <2>2 DEF TakenRight
  <1> HIDE DEF p
  <1>3. p \in Results /\ Stands(s, p.txs, now) /\ Leaves(p, s) BY <1>0, <1>1, <1>2
  <1>4. Range(p.txs) \subseteq Range(txs)
    <2> SUFFICES ASSUME NEW t \in Range(p.txs) PROVE t \in Range(txs) OBVIOUS
    <2>0. N \in 0..N BY <1>0
    <2>1. PICK j \in 1..N : t = txs[j] BY <1>1, <1>2, <2>0
    <2> QED BY <1>0, <2>1 DEF Range
  <1>5. ASSUME NEW n \in 1..N, txs[n] \notin Range(p.txs), txs[n] \notin s.known, Spends[txs[n]] \notin s.spent,
               now < Expiration[txs[n]], Expiration[txs[n]] <= now + MaxUntilExpiration
        PROVE  \E j \in 1..(n - 1) : Spends[txs[j]] = Spends[txs[n]]
    <2>1. n - 1 \in 0..N /\ n \in 0..N BY <1>0
    <2>2. f[n - 1].txs \in Seq(Trxs) /\ f[n - 1] \in Results BY <1>2, <2>1 DEF Results
    <2>3. ~Applies(f[n - 1].s, txs[n], now, FALSE)
      <3> SUFFICES ASSUME Applies(f[n - 1].s, txs[n], now, FALSE) PROVE FALSE OBVIOUS
      <3>0. f[n] = TryOne(f[n - 1], txs[n], now) BY <1>1
      <3>1. f[n].txs = Append(f[n - 1].txs, txs[n]) BY <3>0 DEF TryOne, TakeIn
      <3>2. txs[n] \in Range(f[n].txs) BY <1>0, <2>2, <3>1, RangeOfAppend
      <3>3. Range(f[n].txs) \subseteq Range(p.txs) BY <1>1, <2>1, TakingGrows
      <3> QED BY <1>5, <3>2, <3>3
    <2>4. txs[n] \in f[n - 1].s.known \/ Spends[txs[n]] \in f[n - 1].s.spent BY <1>5, <2>3, AppliesIs
    <2>5. /\ f[n - 1].s.known = s.known \cup Range(f[n - 1].txs)
          /\ f[n - 1].s.spent = s.spent \cup {Spends[t] : t \in Range(f[n - 1].txs)}
      BY <1>2, <2>1 DEF Leaves
    <2>6. PICK t \in Range(f[n - 1].txs) : Spends[t] = Spends[txs[n]]
      BY <1>5, <2>4, <2>5
    <2>7. \E j \in 1..(n - 1) : t = txs[j]
      BY <1>2, <2>1
    <2> QED BY <2>6, <2>7
  <1> QED BY <1>3, <1>4, <1>5 DEF p

\* A sequence that stands is pushed as it is.
LEMMA StandsPushed ==
  ASSUME NEW s \in LedgerStates, NEW txs \in Seq(Trxs), NEW now \in Nat, Stands(s, txs, now)
  PROVE  Pushed(s, txs, now).txs = txs
  <1> DEFINE N == Len(txs)
  <1>0. N \in Nat /\ (\A n \in 1..N : txs[n] \in Trxs) /\ DOMAIN txs = 1..N OBVIOUS
  <1>1. PICK f : /\ Taking(f, s, txs, now)
                 /\ \A n \in 1..N : f[n] = TryOne(f[n - 1], txs[n], now)
                 /\ Pushed(s, txs, now) = f[N]
    BY PushedIs
  <1>2. \A n \in 0..N : /\ f[n] \in Results /\ Leaves(f[n], s)
                        /\ \A t \in Range(f[n].txs) : \E j \in 1..n : t = txs[j]
    <2>1. Taking(f, s, txs, now) BY <1>1
    <2>2. \A n \in 0..Len(txs) : TakenRight(f[n], s, txs, now, n) BY <2>1, TakingRight
    <2> QED BY <2>2 DEF TakenRight
  <1> DEFINE G == {n \in Nat : n <= N => Len(f[n].txs) = n /\ \A j \in 1..n : f[n].txs[j] = txs[j]}
  <1>3. 0 \in G
    <2>1. f[0].txs = <<>> BY <1>1 DEF Taking
    <2> QED BY <2>1
  <1>4. ASSUME NEW n \in Nat, n \in G PROVE n + 1 \in G
    <2> SUFFICES ASSUME n + 1 <= N
                 PROVE  Len(f[n + 1].txs) = n + 1 /\ \A j \in 1..(n + 1) : f[n + 1].txs[j] = txs[j]
      OBVIOUS
    <2>1. Len(f[n].txs) = n /\ \A j \in 1..n : f[n].txs[j] = txs[j] BY <1>0, <1>4
    <2>2. n \in 0..N /\ n + 1 \in 1..N /\ (n + 1) - 1 = n BY <1>0
    <2>3. f[n].txs \in Seq(Trxs) /\ txs[n + 1] \in Trxs BY <1>0, <1>2, <2>2 DEF Results
    <2>4. /\ txs[n + 1] \notin s.known /\ Spends[txs[n + 1]] \notin s.spent
          /\ now < Expiration[txs[n + 1]] /\ Expiration[txs[n + 1]] <= now + MaxUntilExpiration
          /\ \A j \in 1..n : Spends[txs[j]] # Spends[txs[n + 1]]
      BY <1>0, <2>2 DEF Stands
    <2>5. \A t \in Range(f[n].txs) : Spends[t] # Spends[txs[n + 1]]
      <3> SUFFICES ASSUME NEW t \in Range(f[n].txs) PROVE Spends[t] # Spends[txs[n + 1]] OBVIOUS
      <3>1. PICK j \in 1..n : t = txs[j] BY <1>2, <2>2
      <3> QED BY <2>4, <3>1
    <2>a. /\ f[n].s.known = s.known \cup Range(f[n].txs)
          /\ f[n].s.spent = s.spent \cup {Spends[t] : t \in Range(f[n].txs)}
      BY <1>2, <2>2 DEF Leaves
    <2>6. txs[n + 1] \notin f[n].s.known /\ Spends[txs[n + 1]] \notin f[n].s.spent
      BY <2>4, <2>5, <2>a
    <2>7. Applies(f[n].s, txs[n + 1], now, FALSE) BY <2>4, <2>6, AppliesIs
    <2>b. f[n + 1] = TryOne(f[n], txs[n + 1], now) BY <1>1, <2>2
    <2>8. f[n + 1].txs = Append(f[n].txs, txs[n + 1]) BY <2>7, <2>b DEF TryOne, TakeIn
    <2>9. /\ Len(f[n + 1].txs) = n + 1 /\ (\A j \in 1..n : f[n + 1].txs[j] = f[n].txs[j])
          /\ f[n + 1].txs[n + 1] = txs[n + 1]
      BY <2>1, <2>3, <2>8, RangeOfAppend
    <2>10. \A j \in 1..(n + 1) : j \in 1..n \/ j = n + 1 OBVIOUS
    <2> QED BY <2>1, <2>9, <2>10
  <1> HIDE DEF G
  <1>5. Nat \subseteq G BY <1>3, <1>4, NatSetInduction
  <1>6. N \in G /\ N <= N BY <1>0, <1>5
  <1> DEFINE q == f[N].txs
  <1>7. Len(q) = N /\ \A j \in 1..N : q[j] = txs[j] BY <1>6 DEF G
  <1>8. q \in Seq(Trxs) BY <1>0, <1>2 DEF Results
  <1> HIDE DEF q, N
  <1>9. q = txs BY <1>7, <1>8 DEF N
  <1> QED BY <1>1, <1>9 DEF q

-----------------------------------------------------------------------------
BlockRecords == [time : Nat, txs : Seq(Trxs)]

\* Blocks are in the order of their times, and none has a transaction that had expired
\* at the block before.
BlocksRight ==
  /\ trx_blocks \in Seq(BlockRecords) /\ Len(trx_blocks) \in Nat \ {0}
  /\ \A i, j \in 1..Len(trx_blocks) : i < j => trx_blocks[i].time < trx_blocks[j].time
  /\ \A i \in 1..Len(trx_blocks) : \A t \in Range(trx_blocks[i].txs) :
       i > 1 => trx_blocks[i - 1].time < Expiration[t]

\* What has not expired and is in the chain is known.
KnownKept ==
  \A i \in 1..Len(trx_blocks) : \A t \in Range(trx_blocks[i].txs) :
    HeadTime <= Expiration[t] => t \in ledger.known

\* The blocks whose task has run.
Done == Len(trx_blocks) - Len(tasks)

TasksRight ==
  /\ tasks \in Seq(BlockRecords) /\ Len(tasks) < Len(trx_blocks)
  /\ \A i \in 1..Len(tasks) : tasks[i] = trx_blocks[Done + i]

CallbacksRight ==
  /\ accepted \subseteq Trxs
  /\ callbacks \in [Trxs -> {"none", "empty", "client"}]
  /\ answers \in [Trxs -> Seq([time : Nat, expired : BOOLEAN])]
  /\ \A t \in Trxs : callbacks[t] = "client" => answers[t] = <<>>
  /\ \A t \in accepted : callbacks[t] = "client" \/ answers[t] # <<>>

\* A client whose transaction is in a block is waiting for the task of that block, and
\* one that was told of its expiration need not fear a later block.
WaitsForTask ==
  \A t \in accepted : callbacks[t] = "client" => \A i \in 1..Done : t \notin Range(trx_blocks[i].txs)

ExpiredForEver ==
  \A t \in accepted : answers[t] # <<>> /\ answers[t][1].expired => Expiration[t] < HeadTime

TrxInv ==
  /\ BlocksRight /\ KnownKept /\ AppliedOnce
  /\ ledger \in LedgerStates /\ pending \in Seq(Trxs) /\ Stands(ledger, pending, HeadTime)
  /\ TasksRight /\ CallbacksRight /\ WaitsForTask /\ ExpiredForEver /\ AnsweredRightly

Stays ==
  \A t \in Range(pending) \ Range(pending') :
     t \in ledger'.known \/ Expiration[t] <= Last(trx_blocks').time
       \/ Spends[t] \in ledger'.spent \/ t \in InChain'

LEMMA HeadTimeIs ==
  ASSUME BlocksRight
  PROVE  /\ HeadTime \in Nat /\ HeadTime = trx_blocks[Len(trx_blocks)].time
         /\ \A i \in 1..Len(trx_blocks) : trx_blocks[i] \in BlockRecords /\ trx_blocks[i].time <= HeadTime
         /\ \A i, j \in 1..Len(trx_blocks) : i <= j => trx_blocks[i].time <= trx_blocks[j].time
  <1> DEFINE N == Len(trx_blocks)
  <1>1. trx_blocks \in Seq(BlockRecords) /\ N \in Nat /\ N >= 1 /\ N \in 1..N BY DEF BlocksRight
  <1>2. \A i \in 1..N : trx_blocks[i] \in BlockRecords BY <1>1
  <1>3. \A i \in 1..N : trx_blocks[i].time \in Nat BY <1>2 DEF BlockRecords
  <1>4. HeadTime = trx_blocks[N].time BY DEF HeadTime, Last
  <1>5. \A i, j \in 1..N : i <= j => trx_blocks[i].time <= trx_blocks[j].time
    <2> SUFFICES ASSUME NEW i \in 1..N, NEW j \in 1..N, i <= j PROVE trx_blocks[i].time <= trx_blocks[j].time
      OBVIOUS
    <2>1. CASE i = j BY <1>3, <2>1
    <2>2. CASE i < j
      <3>1. trx_blocks[i].time < trx_blocks[j].time BY <2>2 DEF BlocksRight
      <3> QED BY <1>3, <3>1
    <2> QED BY <2>1, <2>2
  <1> HIDE DEF N
  <1>6. \A i \in 1..N : i <= N BY <1>1
  <1> QED BY <1>1, <1>2, <1>3, <1>4, <1>5, <1>6 DEF N

LEMMA InChainIs ==
  ASSUME BlocksRight, NEW t
  PROVE  t \in InChain <=> \E i \in 1..Len(trx_blocks) : t \in Range(trx_blocks[i].txs)
  <1>1. DOMAIN trx_blocks = 1..Len(trx_blocks) BY DEF BlocksRight
  <1> QED BY <1>1 DEF InChain

\* What applies on top of the chain is not in it.
LEMMA FreshIsNew ==
  ASSUME TrxInv, NEW t, t \notin ledger.known, HeadTime < Expiration[t], t \in Trxs
  PROVE  t \notin InChain
  <1> SUFFICES ASSUME t \in InChain PROVE FALSE OBVIOUS
  <1>1. PICK i \in 1..Len(trx_blocks) : t \in Range(trx_blocks[i].txs) BY InChainIs DEF TrxInv
  <1>2. HeadTime \in Nat /\ Expiration[t] \in Nat BY HeadTimeIs, TrxConstants DEF TrxInv
  <1>3. HeadTime <= Expiration[t] BY <1>2
  <1> QED BY <1>1, <1>3 DEF TrxInv, KnownKept

\* What is pending leaves what PendingState says.
LEMMA PendingLeaves ==
  ASSUME TrxInv
  PROVE  /\ PendingState.known = ledger.known \cup Range(pending)
         /\ PendingState.spent = ledger.spent \cup {Spends[t] : t \in Range(pending)}
         /\ PendingApplies
  <1> DEFINE p == Pushed(ledger, pending, HeadTime)
  <1>1. ledger \in LedgerStates /\ pending \in Seq(Trxs) /\ Stands(ledger, pending, HeadTime) /\ HeadTime \in Nat
    BY HeadTimeIs DEF TrxInv
  <1>2. p.txs = pending BY <1>1, StandsPushed
  <1>3. Leaves(p, ledger) BY <1>1, PushedRight
  <1>4. PendingState = p.s BY DEF PendingState
  <1>5. PendingApplies BY <1>2 DEF PendingApplies
  <1> HIDE DEF p
  <1> QED BY <1>2, <1>3, <1>4, <1>5 DEF Leaves

\* Appending a transaction that applies.
LEMMA PendingGrows ==
  ASSUME TrxInv, NEW t \in Trxs, CanPush(t)
  PROVE  /\ Append(pending, t) \in Seq(Trxs) /\ Stands(ledger, Append(pending, t), HeadTime)
         /\ Range(pending) \subseteq Range(Append(pending, t)) /\ t \notin InChain
  <1> DEFINE p == Pushed(ledger, pending, HeadTime)
  <1>1. ledger \in LedgerStates /\ pending \in Seq(Trxs) /\ Stands(ledger, pending, HeadTime) /\ HeadTime \in Nat
    BY HeadTimeIs DEF TrxInv
  <1>2. p.txs = pending BY <1>1, StandsPushed
  <1>3. Leaves(p, ledger) /\ p \in Results BY <1>1, PushedRight
  <1>4. Applies(p.s, t, HeadTime, FALSE) BY DEF CanPush, PendingState, Applies
  <1> HIDE DEF p
  <1>5. Stands(ledger, TakeIn(p, t, HeadTime).txs, HeadTime) BY <1>1, <1>2, <1>3, <1>4, TakenStands
  <1>6. TakeIn(p, t, HeadTime).txs = Append(pending, t) BY <1>2 DEF TakeIn
  <1>7. Append(pending, t) \in Seq(Trxs) /\ Range(pending) \subseteq Range(Append(pending, t))
    BY <1>1, RangeOfAppend
  <1>8. t \notin ledger.known /\ HeadTime < Expiration[t] BY <1>3, <1>4, AppliesIs DEF Leaves
  <1> QED BY <1>5, <1>6, <1>7, <1>8, FreshIsNew

\* A block that stands on top of the chain.
LEMMA BlockTaken ==
  ASSUME TrxInv, NEW b \in BlockRecords, HeadTime < b.time, Stands(ledger, b.txs, HeadTime), push_block(b)
  PROVE  TrxInv' /\ Stays
  <1> DEFINE N == Len(trx_blocks)
             p == Pushed(ledger, b.txs, HeadTime)
             after == clear_expired_transactions(p.s, b.time)
  <1>1. /\ trx_blocks' = Append(trx_blocks, b) /\ ledger' = after /\ pending' = Pushed(after, pending, b.time).txs
        /\ tasks' = Append(tasks, b) /\ callbacks' = callbacks /\ answers' = answers /\ accepted' = accepted
    BY DEF push_block
  <1>2. /\ BlocksRight /\ KnownKept /\ AppliedOnce
        /\ ledger \in LedgerStates /\ pending \in Seq(Trxs) /\ Stands(ledger, pending, HeadTime)
        /\ TasksRight /\ CallbacksRight /\ WaitsForTask /\ ExpiredForEver /\ AnsweredRightly
    BY DEF TrxInv
  <1>3. b.time \in Nat /\ b.txs \in Seq(Trxs) BY DEF BlockRecords
  <1>4. /\ HeadTime \in Nat /\ HeadTime = trx_blocks[N].time
        /\ \A i \in 1..N : trx_blocks[i] \in BlockRecords /\ trx_blocks[i].time <= HeadTime
    BY <1>2, HeadTimeIs
  <1>5. trx_blocks \in Seq(BlockRecords) /\ N \in Nat /\ N >= 1 /\ DOMAIN trx_blocks = 1..N
    BY <1>2 DEF BlocksRight
  <1> HIDE DEF N
  <1>6. /\ trx_blocks' \in Seq(BlockRecords) /\ Len(trx_blocks') = N + 1 /\ DOMAIN trx_blocks' = 1..(N + 1)
        /\ (\A i \in 1..N : trx_blocks'[i] = trx_blocks[i]) /\ trx_blocks'[N + 1] = b
        /\ Range(trx_blocks') = Range(trx_blocks) \cup {b}
    BY <1>1, <1>5, RangeOfAppend DEF N
  <1>7. HeadTime' = b.time BY <1>5, <1>6 DEF HeadTime, Last
  <1>8. p \in Results /\ p.txs = b.txs /\ p.s.known = ledger.known \cup Range(b.txs)
    <2>1. p.txs = b.txs BY <1>2, <1>3, <1>4, StandsPushed
    <2>2. Leaves(p, ledger) /\ p \in Results BY <1>2, <1>3, <1>4, PushedRight
    <2> HIDE DEF p
    <2> QED BY <2>1, <2>2 DEF Leaves
  <1>9. after \in LedgerStates /\ after.known = {t \in p.s.known : Expiration[t] >= b.time}
    <2> HIDE DEF p
    <2>1. p.s \in LedgerStates BY <1>8 DEF Results
    <2> DEFINE K == {t \in p.s.known : Expiration[t] >= b.time}
    <2>2. K \subseteq Trxs BY <2>1 DEF LedgerStates
    <2>3. after = [p.s EXCEPT !.known = K] BY DEF clear_expired_transactions
    <2>4. p.s = [known |-> p.s.known, spent |-> p.s.spent, band |-> p.s.band] BY <2>1 DEF LedgerStates
    <2> HIDE DEF K
    <2>5. after = [known |-> K, spent |-> p.s.spent, band |-> p.s.band] BY <2>3, <2>4
    <2>6. after \in LedgerStates /\ after.known = K
      <3>1. p.s.spent \in SUBSET {Spends[t] : t \in Trxs} /\ p.s.band \in [Authors -> [average : Int, last : Int]]
        BY <2>1 DEF LedgerStates
      <3> HIDE DEF after
      <3> QED BY <2>2, <2>5, <3>1 DEF LedgerStates
    <2> QED BY <2>6 DEF K
  <1> HIDE DEF p, after
  <1>a. /\ \A t \in Range(b.txs) : /\ t \in Trxs /\ t \notin ledger.known /\ HeadTime < Expiration[t]
                                   /\ Expiration[t] \in Nat
    BY <1>3, TrxConstants DEF Stands, Range
  <1>b. \A t \in Range(b.txs) : t \notin InChain BY <1>a, FreshIsNew
  <1>c. \A i \in 1..(N + 1) : i \in 1..N \/ i = N + 1 BY <1>5
  <1>d. \A i \in 1..N : i \in 1..(N + 1) /\ i # N + 1 BY <1>5
  <1>10. BlocksRight'
    <2>1. ASSUME NEW i \in 1..(N + 1), NEW j \in 1..(N + 1), i < j PROVE trx_blocks'[i].time < trx_blocks'[j].time
      <3>1. i \in 1..N BY <1>5, <2>1
      <3>2. CASE j \in 1..N BY <1>2, <1>6, <2>1, <3>1, <3>2 DEF BlocksRight, N
      <3>3. CASE j = N + 1
        <4>1. trx_blocks[i].time \in Nat BY <1>4, <3>1 DEF BlockRecords
        <4> QED BY <1>3, <1>4, <1>6, <3>1, <3>3, <4>1
      <3> QED BY <1>c, <3>2, <3>3
    <2>2. ASSUME NEW i \in 1..(N + 1), NEW t \in Range(trx_blocks'[i].txs), i > 1
          PROVE  trx_blocks'[i - 1].time < Expiration[t]
      <3>1. i - 1 \in 1..N BY <1>5, <2>2
      <3>2. trx_blocks'[i - 1] = trx_blocks[i - 1] BY <1>6, <3>1
      <3>3. CASE i \in 1..N BY <1>2, <1>6, <2>2, <3>2, <3>3 DEF BlocksRight, N
      <3>4. CASE i = N + 1
        <4>1. t \in Range(b.txs) /\ i - 1 = N BY <1>5, <1>6, <2>2, <3>4
        <4> QED BY <1>4, <1>a, <3>2, <4>1
      <3> QED BY <1>c, <3>3, <3>4
    <2> QED BY <1>5, <1>6, <2>1, <2>2 DEF BlocksRight
  <1>11. KnownKept'
    <2> SUFFICES ASSUME NEW i \in 1..(N + 1), NEW t \in Range(trx_blocks'[i].txs), b.time <= Expiration[t]
                 PROVE  t \in after.known
      BY <1>1, <1>6, <1>7 DEF KnownKept
    <2>1. CASE i = N + 1
      <3>1. t \in Range(b.txs) BY <1>6, <2>1
      <3>2. Expiration[t] >= b.time BY <1>3, <1>a, <3>1
      <3> QED BY <1>8, <1>9, <3>1, <3>2
    <2>2. CASE i \in 1..N
      <3>1. t \in Range(trx_blocks[i].txs) /\ trx_blocks[i].txs \in Seq(Trxs) BY <1>4, <1>6, <2>2 DEF BlockRecords
      <3>2. t \in Trxs BY <3>1 DEF Range
      <3>3. Expiration[t] \in Nat BY <3>2, TrxConstants
      <3>4. HeadTime <= Expiration[t] /\ Expiration[t] >= b.time BY <1>3, <1>4, <3>3
      <3>5. t \in ledger.known BY <1>2, <2>2, <3>1, <3>4 DEF KnownKept, N
      <3> QED BY <1>8, <1>9, <3>4, <3>5
    <2> QED BY <1>c, <2>1, <2>2
  <1>12. AppliedOnce'
    <2> SUFFICES ASSUME NEW i \in 1..(N + 1), NEW j \in 1..(N + 1),
                        NEW k \in DOMAIN trx_blocks'[i].txs, NEW l \in DOMAIN trx_blocks'[j].txs,
                        trx_blocks'[i].txs[k] = trx_blocks'[j].txs[l]
                 PROVE  i = j /\ k = l
      BY <1>6 DEF AppliedOnce
    <2>1. CASE i \in 1..N /\ j \in 1..N
      <3>1. trx_blocks'[i] = trx_blocks[i] /\ trx_blocks'[j] = trx_blocks[j] BY <1>6, <2>1
      <3> QED BY <1>2, <1>5, <2>1, <3>1 DEF AppliedOnce
    <2>2. CASE i = N + 1 /\ j = N + 1
      <3>1. k \in DOMAIN b.txs /\ l \in DOMAIN b.txs /\ b.txs[k] = b.txs[l] BY <1>6, <2>2
      <3>2. k \in Int /\ l \in Int BY <1>3, <3>1
      <3>3. ~(k < l) /\ ~(l < k) BY <3>1 DEF Stands
      <3> QED BY <2>2, <3>2, <3>3
    <2>3. ASSUME NEW x \in 1..N, NEW m \in DOMAIN trx_blocks[x].txs, NEW h \in DOMAIN b.txs PROVE trx_blocks[x].txs[m] # b.txs[h]
      <3>1. trx_blocks[x].txs[m] \in InChain
        <4>1. trx_blocks[x].txs[m] \in Range(trx_blocks[x].txs) BY DEF Range
        <4> QED BY <1>5, <4>1 DEF InChain
      <3>2. b.txs[h] \in Range(b.txs) BY DEF Range
      <3> QED BY <1>b, <3>1, <3>2
    <2>4. CASE i \in 1..N /\ j = N + 1
      <3>1. trx_blocks'[i] = trx_blocks[i] /\ trx_blocks'[j] = b BY <1>6, <2>4
      <3> QED BY <2>3, <2>4, <3>1
    <2>5. CASE i = N + 1 /\ j \in 1..N
      <3>1. trx_blocks'[j] = trx_blocks[j] /\ trx_blocks'[i] = b BY <1>6, <2>5
      <3> QED BY <2>3, <2>5, <3>1
    <2> QED BY <1>c, <2>1, <2>2, <2>4, <2>5
  <1> DEFINE q == Pushed(after, pending, b.time)
  <1>13. /\ q \in Results /\ Stands(after, q.txs, b.time)
         /\ \A n \in 1..Len(pending) : \/ pending[n] \in Range(q.txs)
                                       \/ pending[n] \in after.known \/ Spends[pending[n]] \in after.spent
                                       \/ ~(b.time < Expiration[pending[n]])
                                       \/ ~(Expiration[pending[n]] <= b.time + MaxUntilExpiration)
                                       \/ \E j \in 1..(n - 1) : Spends[pending[j]] = Spends[pending[n]]
    BY <1>2, <1>3, <1>9, PushedRight
  <1>14. pending' = q.txs BY <1>1
  <1> HIDE DEF q
  <1>15. ledger' \in LedgerStates /\ pending' \in Seq(Trxs) /\ Stands(ledger', pending', HeadTime')
    <2>1. q.txs \in Seq(Trxs) BY <1>13 DEF Results
    <2> QED BY <1>1, <1>7, <1>9, <1>13, <1>14, <2>1
  <1>16. Stays
    <2> SUFFICES ASSUME NEW t \in Range(pending), t \notin Range(pending')
                 PROVE  t \in ledger'.known \/ Expiration[t] <= b.time \/ Spends[t] \in ledger'.spent
      BY <1>5, <1>6 DEF Stays, Last
    <2>1. PICK n \in 1..Len(pending) : t = pending[n] BY <1>2 DEF Range
    <2>2. pending[n] \in Trxs /\ Len(pending) \in Nat /\ DOMAIN pending = 1..Len(pending) BY <1>2
    <2>3. Expiration[t] \in Nat BY <2>1, <2>2, TrxConstants
    <2>4. Expiration[t] <= HeadTime + MaxUntilExpiration BY <1>2, <2>1, <2>2 DEF Stands
    <2>5. Expiration[t] <= b.time + MaxUntilExpiration BY <1>3, <1>4, <2>3, <2>4, TrxConstants
    <2>6. ~\E j \in 1..(n - 1) : Spends[pending[j]] = Spends[pending[n]]
      <3> SUFFICES ASSUME NEW j \in 1..(n - 1), Spends[pending[j]] = Spends[pending[n]] PROVE FALSE OBVIOUS
      <3>1. j \in 1..Len(pending) /\ j < n BY <2>2
      <3> QED BY <1>2, <2>2, <3>1 DEF Stands
    <2>7. ~(b.time < Expiration[t]) => Expiration[t] <= b.time BY <1>3, <2>3
    <2> QED BY <1>1, <1>13, <1>14, <2>1, <2>5, <2>6, <2>7
  <1>17. tasks \in Seq(BlockRecords) /\ Len(tasks) \in Nat /\ Len(tasks) < N /\ \A i \in 1..Len(tasks) : tasks[i] = trx_blocks[Done + i]
    BY <1>2 DEF TasksRight, N
  <1>18. /\ tasks' \in Seq(BlockRecords) /\ Len(tasks') = Len(tasks) + 1
         /\ (\A i \in 1..Len(tasks) : tasks'[i] = tasks[i]) /\ tasks'[Len(tasks) + 1] = b
    BY <1>1, <1>17, RangeOfAppend
  <1>19. Done' = Done /\ Done \in Nat /\ Done = N - Len(tasks) BY <1>5, <1>6, <1>17, <1>18 DEF Done, N
  <1>20. TasksRight'
    <2>1. ASSUME NEW i \in 1..(Len(tasks) + 1) PROVE tasks'[i] = trx_blocks'[Done + i]
      <3>1. CASE i = Len(tasks) + 1
        <4>1. Done + i = N + 1 BY <1>5, <1>17, <1>19, <3>1
        <4> QED BY <1>6, <1>18, <3>1, <4>1
      <3>2. CASE i # Len(tasks) + 1
        <4>0. i \in 1..Len(tasks) /\ i >= 1 /\ i <= Len(tasks) /\ Len(tasks) \in Nat BY <1>17, <3>2
        <4>1. i \in 1..Len(tasks) /\ Done + i \in 1..N BY <1>5, <1>19, <4>0
        <4> QED BY <1>6, <1>17, <1>18, <4>1
      <3> QED BY <3>1, <3>2
    <2>2. Len(tasks) + 1 < N + 1 BY <1>5, <1>17
    <2> QED BY <1>6, <1>18, <1>19, <2>1, <2>2 DEF TasksRight
  <1>21. CallbacksRight' BY <1>1, <1>2 DEF CallbacksRight
  <1>22. WaitsForTask'
    <2> SUFFICES ASSUME NEW t \in accepted, callbacks[t] = "client", NEW i \in 1..Done
                 PROVE  t \notin Range(trx_blocks'[i].txs)
      BY <1>1, <1>19 DEF WaitsForTask
    <2>1. i \in 1..N BY <1>5, <1>17, <1>19
    <2> QED BY <1>2, <1>6, <2>1 DEF WaitsForTask
  <1>23. ExpiredForEver'
    <2> SUFFICES ASSUME NEW t \in accepted, answers[t] # <<>>, answers[t][1].expired PROVE Expiration[t] < b.time
      BY <1>1, <1>7 DEF ExpiredForEver
    <2>1. Expiration[t] < HeadTime BY <1>2 DEF ExpiredForEver
    <2>2. Expiration[t] \in Nat BY <1>2, TrxConstants DEF CallbacksRight
    <2> QED BY <1>3, <1>4, <2>1, <2>2
  <1>24. AnsweredRightly'
    <2> SUFFICES ASSUME NEW t \in Trxs
                 PROVE  /\ Len(answers[t]) <= 1
                        /\ answers[t] # <<>> =>
                             IF answers[t][1].expired THEN t \in accepted => t \notin InChain'
                             ELSE \E c \in Range(trx_blocks') : t \in Range(c.txs) /\ c.time = answers[t][1].time
      BY <1>1 DEF AnsweredRightly
    <2>1. /\ Len(answers[t]) <= 1
          /\ answers[t] # <<>> =>
               IF answers[t][1].expired THEN t \in accepted => t \notin InChain
               ELSE \E c \in Range(trx_blocks) : t \in Range(c.txs) /\ c.time = answers[t][1].time
      BY <1>2 DEF AnsweredRightly
    <2>2. ASSUME answers[t] # <<>>, answers[t][1].expired, t \in accepted PROVE t \notin InChain'
      <3>1. Expiration[t] < HeadTime BY <1>2, <2>2 DEF ExpiredForEver
      <3>2. Expiration[t] \in Nat BY TrxConstants
      <3>3. t \notin Range(b.txs) BY <1>4, <1>a, <3>1, <3>2
      <3>4. t \notin InChain BY <2>1, <2>2
      <3>5. \A i \in 1..(N + 1) : t \notin Range(trx_blocks'[i].txs)
        <4> SUFFICES ASSUME NEW i \in 1..(N + 1) PROVE t \notin Range(trx_blocks'[i].txs) OBVIOUS
        <4>1. CASE i = N + 1 BY <1>6, <3>3, <4>1
        <4>2. CASE i \in 1..N BY <1>2, <1>6, <3>4, <4>2, InChainIs DEF N
        <4> QED BY <1>c, <4>1, <4>2
      <3> QED BY <1>6, <3>5 DEF InChain
    <2> QED BY <1>6, <2>1, <2>2
  <1> QED BY <1>10, <1>11, <1>12, <1>15, <1>16, <1>20, <1>21, <1>22, <1>23, <1>24 DEF TrxInv

LEMMA TrxInitInv == TransactionsInit => TrxInv
  <1> SUFFICES ASSUME TransactionsInit PROVE TrxInv OBVIOUS
  <1> DEFINE first == [time |-> 1, txs |-> <<>>]
  <1>1. /\ trx_blocks = <<first>> /\ pending = <<>> /\ tasks = <<>> /\ accepted = {}
        /\ callbacks = [t \in Trxs |-> "none"] /\ answers = [t \in Trxs |-> <<>>]
        /\ ledger = [known |-> {}, spent |-> {}, band |-> [a \in Authors |-> [average |-> 0, last |-> 0]]]
    BY DEF TransactionsInit
  <1>2. first \in BlockRecords /\ first.txs = <<>> /\ Range(first.txs) = {} BY DEF BlockRecords, Range
  <1> HIDE DEF first
  <1>3. /\ trx_blocks \in Seq(BlockRecords) /\ Len(trx_blocks) = 1 /\ DOMAIN trx_blocks = {1}
        /\ 1..Len(trx_blocks) = {1} /\ trx_blocks[1] = first
    BY <1>1, <1>2
  <1>4. BlocksRight BY <1>2, <1>3 DEF BlocksRight
  <1>5. KnownKept BY <1>2, <1>3 DEF KnownKept
  <1>6. AppliedOnce BY <1>2, <1>3 DEF AppliedOnce
  <1>7. ledger \in LedgerStates
    <2>1. [a \in Authors |-> [average |-> 0, last |-> 0]] \in [Authors -> [average : Int, last : Int]] OBVIOUS
    <2> QED BY <1>1, <2>1 DEF LedgerStates
  <1>8. pending \in Seq(Trxs) /\ Stands(ledger, pending, HeadTime) BY <1>1 DEF Stands
  <1>9. tasks = <<>> /\ Len(tasks) = 0 /\ Len(tasks) < Len(trx_blocks) /\ tasks \in Seq(BlockRecords) BY <1>1, <1>3
  <1>10. TasksRight BY <1>9 DEF TasksRight
  <1>11. CallbacksRight BY <1>1 DEF CallbacksRight
  <1>12. WaitsForTask /\ ExpiredForEver BY <1>1 DEF WaitsForTask, ExpiredForEver
  <1>13. AnsweredRightly BY <1>1 DEF AnsweredRightly
  <1> QED BY <1>4, <1>5, <1>6, <1>7, <1>8, <1>10, <1>11, <1>12, <1>13 DEF TrxInv

\* Steps that leave the chain alone, take nothing out of what is pending, and touch
\* callbacks of one transaction at most.
LEMMA ChainUntouched ==
  ASSUME TrxInv, trx_blocks' = trx_blocks, ledger' = ledger
  PROVE  /\ BlocksRight' /\ KnownKept' /\ AppliedOnce' /\ ledger' \in LedgerStates
         /\ HeadTime' = HeadTime /\ InChain' = InChain /\ Range(trx_blocks') = Range(trx_blocks)
  <1>1. HeadTime' = HeadTime BY DEF HeadTime
  <1>2. BlocksRight' BY DEF TrxInv, BlocksRight
  <1>3. KnownKept' BY <1>1 DEF TrxInv, KnownKept
  <1>4. AppliedOnce' BY DEF TrxInv, AppliedOnce
  <1>5. InChain' = InChain BY DEF InChain
  <1> QED BY <1>1, <1>2, <1>3, <1>4, <1>5 DEF TrxInv

LEMMA RestUntouched ==
  ASSUME TrxInv, UNCHANGED <<trx_blocks, ledger, callbacks, tasks, answers, accepted>>,
         pending' \in Seq(Trxs), Stands(ledger, pending', HeadTime), Range(pending) \subseteq Range(pending')
  PROVE  TrxInv' /\ Stays
  <1>1. /\ trx_blocks' = trx_blocks /\ ledger' = ledger /\ callbacks' = callbacks /\ tasks' = tasks
        /\ answers' = answers /\ accepted' = accepted
    OBVIOUS
  <1>2. /\ BlocksRight' /\ KnownKept' /\ AppliedOnce' /\ ledger' \in LedgerStates
        /\ HeadTime' = HeadTime /\ InChain' = InChain /\ Range(trx_blocks') = Range(trx_blocks)
    BY <1>1, ChainUntouched
  <1>3. Done' = Done BY <1>1 DEF Done
  <1>4. TasksRight' BY <1>1, <1>3 DEF TrxInv, TasksRight
  <1>5. CallbacksRight' BY <1>1 DEF TrxInv, CallbacksRight
  <1>6. WaitsForTask' BY <1>1, <1>3 DEF TrxInv, WaitsForTask
  <1>7. ExpiredForEver' BY <1>1, <1>2 DEF TrxInv, ExpiredForEver
  <1>8. AnsweredRightly' BY <1>1, <1>2 DEF TrxInv, AnsweredRightly
  <1>9. Stands(ledger', pending', HeadTime') BY <1>1, <1>2
  <1>10. Stays BY DEF Stays
  <1> QED BY <1>2, <1>4, <1>5, <1>6, <1>7, <1>8, <1>9, <1>10 DEF TrxInv

LEMMA PushStep ==
  ASSUME TrxInv, NEW t \in Trxs, push_transaction(t)
  PROVE  TrxInv' /\ Stays
  <1>1. CanPush(t) /\ pending' = Append(pending, t) BY DEF push_transaction
  <1>2. UNCHANGED <<trx_blocks, ledger, callbacks, tasks, answers, accepted>> BY DEF push_transaction
  <1>3. /\ pending' \in Seq(Trxs) /\ Stands(ledger, pending', HeadTime) /\ Range(pending) \subseteq Range(pending')
    BY <1>1, PendingGrows
  <1> QED BY <1>2, <1>3, RestUntouched

LEMMA BroadcastStep ==
  ASSUME TrxInv, NEW t \in Trxs, callbacks[t] = "none", answers[t] = <<>>, broadcast_transaction_with_callback(t)
  PROVE  TrxInv' /\ Stays
  <1>1. /\ trx_blocks' = trx_blocks /\ ledger' = ledger /\ tasks' = tasks /\ answers' = answers
        /\ callbacks' = [callbacks EXCEPT ![t] = "client"]
    BY DEF broadcast_transaction_with_callback
  <1>2. /\ BlocksRight' /\ KnownKept' /\ AppliedOnce' /\ ledger' \in LedgerStates
        /\ HeadTime' = HeadTime /\ InChain' = InChain /\ Range(trx_blocks') = Range(trx_blocks)
    BY <1>1, ChainUntouched
  <1>3. Done' = Done BY <1>1 DEF Done
  <1>4. TasksRight' BY <1>1, <1>3 DEF TrxInv, TasksRight
  <1>5. /\ pending' \in Seq(Trxs) /\ Stands(ledger, pending', HeadTime) /\ Range(pending) \subseteq Range(pending')
        /\ accepted' = accepted \/ (accepted' = accepted \cup {t} /\ t \notin InChain)
    <2>1. CASE CanPush(t)
      <3>1. pending' = Append(pending, t) /\ accepted' = accepted \cup {t}
        BY <2>1 DEF broadcast_transaction_with_callback
      <3> QED BY <2>1, <3>1, PendingGrows
    <2>2. CASE ~CanPush(t)
      <3>1. pending' = pending /\ accepted' = accepted BY <2>2 DEF broadcast_transaction_with_callback
      <3> QED BY <3>1 DEF TrxInv
    <2> QED BY <2>1, <2>2
  <1>6. /\ accepted \subseteq Trxs /\ callbacks \in [Trxs -> {"none", "empty", "client"}]
        /\ answers \in [Trxs -> Seq([time : Nat, expired : BOOLEAN])]
        /\ \A u \in Trxs : callbacks[u] = "client" => answers[u] = <<>>
        /\ \A u \in accepted : callbacks[u] = "client" \/ answers[u] # <<>>
    BY DEF TrxInv, CallbacksRight
  <1>7. callbacks' \in [Trxs -> {"none", "empty", "client"}] /\ callbacks'[t] = "client"
        /\ \A u \in Trxs : u # t => callbacks'[u] = callbacks[u]
    BY <1>1, <1>6
  <1>8. CallbacksRight' BY <1>1, <1>5, <1>6, <1>7 DEF CallbacksRight
  <1>9. WaitsForTask'
    <2> SUFFICES ASSUME NEW u \in accepted', callbacks'[u] = "client", NEW i \in 1..Done
                 PROVE  u \notin Range(trx_blocks[i].txs)
      BY <1>1, <1>3 DEF WaitsForTask
    <2>1. CASE u = t /\ u \notin accepted
      <3>1. t \notin InChain BY <1>5, <2>1
      <3>2. Len(tasks) \in Nat /\ Len(trx_blocks) \in Nat /\ i \in 1..(Len(trx_blocks) - Len(tasks))
        BY DEF TrxInv, TasksRight, BlocksRight, Done
      <3>3. i \in 1..Len(trx_blocks) BY <3>2
      <3> QED BY <2>1, <3>1, <3>3, InChainIs DEF TrxInv
    <2>2. CASE u = t /\ u \in accepted
      <3>1. callbacks[t] = "client" \/ answers[t] # <<>> BY <1>6, <2>2
      <3> QED BY <3>1
    <2>3. CASE u # t
      <3>1. u \in accepted /\ callbacks[u] = "client" BY <1>5, <1>6, <1>7, <2>3
      <3> QED BY <3>1 DEF TrxInv, WaitsForTask
    <2> QED BY <2>1, <2>2, <2>3
  <1>10. ExpiredForEver' BY <1>1, <1>2, <1>5 DEF TrxInv, ExpiredForEver
  <1>11. AnsweredRightly'
    <2> SUFFICES ASSUME NEW u \in Trxs
                 PROVE  /\ Len(answers[u]) <= 1
                        /\ answers[u] # <<>> =>
                             IF answers[u][1].expired THEN u \in accepted' => u \notin InChain
                             ELSE \E c \in Range(trx_blocks) : u \in Range(c.txs) /\ c.time = answers[u][1].time
      BY <1>1, <1>2 DEF AnsweredRightly
    <2> QED BY <1>5 DEF TrxInv, AnsweredRightly
  <1>12. Stands(ledger', pending', HeadTime') BY <1>1, <1>2, <1>5
  <1>13. Stays BY <1>5 DEF Stays
  <1> QED BY <1>2, <1>4, <1>5, <1>8, <1>9, <1>10, <1>11, <1>12, <1>13 DEF TrxInv

\* The task of a block answers the clients it can, and stays behind none of them.
LEMMA TaskStep ==
  ASSUME TrxInv, on_applied_block
  PROVE  TrxInv' /\ Stays
  <1> DEFINE N == Len(trx_blocks)
             L == Len(tasks)
             b == Head(tasks)
             found == {t \in Range(b.txs) : callbacks[t] # "none"}
             old == {t \in expirations : Expiration[t] < b.time}
             told == {t \in found : callbacks[t] = "client"}
             missed == {t \in old \ found : callbacks[t] = "client"}
  <1>1. /\ tasks # <<>> /\ tasks' = Tail(tasks)
        /\ trx_blocks' = trx_blocks /\ ledger' = ledger /\ pending' = pending /\ accepted' = accepted
        /\ callbacks' = [t \in Trxs |-> IF t \in old THEN "none"
                                        ELSE IF t \in found THEN "empty" ELSE callbacks[t]]
        /\ answers' = [t \in Trxs |-> IF t \in told THEN Append(answers[t], Confirmed(b))
                                      ELSE IF t \in missed THEN Append(answers[t], Expired(b))
                                      ELSE answers[t]]
    BY DEF on_applied_block
  <1>2. /\ BlocksRight' /\ KnownKept' /\ AppliedOnce' /\ ledger' \in LedgerStates
        /\ HeadTime' = HeadTime /\ InChain' = InChain /\ Range(trx_blocks') = Range(trx_blocks)
    BY <1>1, ChainUntouched
  <1>3. /\ accepted \subseteq Trxs /\ callbacks \in [Trxs -> {"none", "empty", "client"}]
        /\ answers \in [Trxs -> Seq([time : Nat, expired : BOOLEAN])]
        /\ \A u \in Trxs : callbacks[u] = "client" => answers[u] = <<>>
        /\ \A u \in accepted : callbacks[u] = "client" \/ answers[u] # <<>>
    BY DEF TrxInv, CallbacksRight
  <1>4. tasks \in Seq(BlockRecords) /\ L \in Nat /\ L < N /\ N \in Nat /\ Done = N - L
        /\ \A i \in 1..L : tasks[i] = trx_blocks[Done + i]
    BY DEF TrxInv, TasksRight, BlocksRight, Done
  <1>5. L >= 1 /\ b = tasks[1] /\ Len(tasks') = L - 1 /\ tasks' \in Seq(BlockRecords)
        /\ \A i \in 1..(L - 1) : tasks'[i] = tasks[i + 1]
    BY <1>1, <1>4
  <1>6. /\ Done \in Nat /\ Done + 1 \in 1..N /\ Done' = Done + 1 /\ b = trx_blocks[Done + 1]
    <2>1. 1 \in 1..L BY <1>4, <1>5
    <2>2. b = trx_blocks[Done + 1] BY <1>4, <1>5, <2>1
    <2>3. Done \in Nat /\ Done + 1 \in 1..N BY <1>4, <1>5
    <2>4. Done' = N - (L - 1) BY <1>1, <1>5 DEF Done
    <2> QED BY <1>4, <2>2, <2>3, <2>4
  <1>7. DOMAIN trx_blocks = 1..N /\ HeadTime \in Nat /\ b \in BlockRecords /\ b.time \in Nat /\ b.time <= HeadTime
        /\ b \in Range(trx_blocks)
    <2>1. DOMAIN trx_blocks = 1..N BY DEF TrxInv, BlocksRight
    <2>2. HeadTime \in Nat /\ b \in BlockRecords /\ b.time <= HeadTime BY <1>6, HeadTimeIs DEF TrxInv
    <2>3. b.time \in Nat BY <2>2 DEF BlockRecords
    <2>4. b \in Range(trx_blocks) BY <1>6, <2>1 DEF Range
    <2> QED BY <2>1, <2>2, <2>3, <2>4
  <1> HIDE DEF N, L, b
  <1>8. TasksRight'
    <2>1. ASSUME NEW i \in 1..(L - 1) PROVE tasks'[i] = trx_blocks[(Done + 1) + i]
      <3>1. L \in Nat /\ Done \in Nat BY <1>4, <1>6
      <3>2. i + 1 \in 1..L /\ Done + (i + 1) = (Done + 1) + i BY <3>1
      <3> QED BY <1>4, <1>5, <3>2
    <2>2. L - 1 < N BY <1>4
    <2> QED BY <1>1, <1>5, <1>6, <2>1, <2>2 DEF TasksRight, N
  <1>9. ASSUME NEW t \in missed, t \in accepted PROVE t \notin InChain /\ Expiration[t] < HeadTime
    <2>1. callbacks[t] = "client" /\ t \notin Range(b.txs) /\ Expiration[t] < b.time /\ t \in Trxs
      BY <1>3, <1>9
    <2>2. Expiration[t] \in Nat BY <2>1, TrxConstants
    <2>3. ASSUME NEW i \in 1..N PROVE t \notin Range(trx_blocks[i].txs)
      <3>1. CASE i <= Done
        <4>1. i \in 1..Done BY <1>6, <3>1
        <4> QED BY <1>9, <2>1, <4>1 DEF TrxInv, WaitsForTask
      <3>2. CASE i = Done + 1 BY <1>6, <2>1, <3>2
      <3>3. CASE i > Done + 1
        <4> SUFFICES ASSUME t \in Range(trx_blocks[i].txs) PROVE FALSE OBVIOUS
        <4>1. i > 1 /\ i - 1 \in 1..N /\ Done + 1 <= i - 1 BY <1>4, <1>6, <3>3
        <4>2. trx_blocks[i - 1].time < Expiration[t] BY <4>1 DEF TrxInv, BlocksRight, N
        <4>3. b.time <= trx_blocks[i - 1].time /\ trx_blocks[i - 1] \in BlockRecords
          BY <1>6, <4>1, HeadTimeIs DEF TrxInv, N
        <4>4. trx_blocks[i - 1].time \in Nat BY <4>3 DEF BlockRecords
        <4> QED BY <1>7, <2>1, <2>2, <4>2, <4>3, <4>4
      <3> QED BY <1>4, <1>6, <3>1, <3>2, <3>3
    <2>4. t \notin InChain BY <2>3, InChainIs DEF TrxInv, N
    <2> QED BY <1>7, <2>1, <2>2, <2>4
  <1>10. Confirmed(b) \in [time : Nat, expired : BOOLEAN] /\ Expired(b) \in [time : Nat, expired : BOOLEAN]
         /\ ~Confirmed(b).expired /\ Expired(b).expired /\ Confirmed(b).time = b.time
    BY <1>7 DEF Confirmed, Expired
  <1>11. \A x \in [time : Nat, expired : BOOLEAN] : LET q == Append(<<>>, x) IN q # <<>> /\ Len(q) = 1 /\ q[1] = x /\ q \in Seq([time : Nat, expired : BOOLEAN])
    OBVIOUS
  <1>12. ASSUME NEW t \in Trxs
         PROVE  \/ /\ callbacks[t] = "client" /\ t \in Range(b.txs) /\ callbacks'[t] # "client"
                   /\ answers'[t] = Append(<<>>, Confirmed(b))
                \/ /\ callbacks[t] = "client" /\ t \in missed /\ callbacks'[t] # "client"
                   /\ answers'[t] = Append(<<>>, Expired(b))
                \/ /\ callbacks'[t] = callbacks[t] /\ answers'[t] = answers[t] /\ callbacks[t] = "client"
                   /\ t \notin Range(b.txs)
                \/ callbacks[t] # "client" /\ callbacks'[t] # "client" /\ answers'[t] = answers[t]
    <2>1. CASE t \in told
      <3>1. callbacks[t] = "client" /\ t \in Range(b.txs) /\ t \in found /\ answers[t] = <<>> BY <1>3, <2>1
      <3>2. callbacks'[t] # "client" /\ answers'[t] = Append(answers[t], Confirmed(b)) BY <1>1, <2>1, <3>1
      <3> QED BY <3>1, <3>2
    <2>2. CASE t \in missed
      <3>1. callbacks[t] = "client" /\ t \in old /\ t \notin found /\ t \notin told /\ answers[t] = <<>> BY <1>3, <2>2
      <3> HIDE DEF found, old, told, missed
      <3>2. callbacks'[t] # "client" /\ answers'[t] = Append(answers[t], Expired(b)) BY <1>1, <2>2, <3>1
      <3> QED BY <2>2, <3>1, <3>2
    <2>3. CASE t \notin told /\ t \notin missed
      <3>1. answers'[t] = answers[t]
        <4> HIDE DEF found, old, told, missed
        <4> QED BY <1>1, <2>3
      <3>2. CASE callbacks[t] = "client"
        <4>1. t \notin found /\ t \notin Range(b.txs) BY <2>3, <3>2
        <4>2. t \notin old BY <2>3, <3>2, <4>1
        <4> HIDE DEF found, old, told, missed
        <4>3. callbacks'[t] = callbacks[t] BY <1>1, <4>1, <4>2
        <4> QED BY <3>1, <3>2, <4>1, <4>3
      <3>3. CASE callbacks[t] # "client"
        <4> HIDE DEF found, old, told, missed
        <4>1. callbacks'[t] # "client" BY <1>1, <3>3
        <4> QED BY <3>1, <3>3, <4>1
      <3> QED BY <3>2, <3>3
    <2> QED BY <2>1, <2>2, <2>3
  <1>13. callbacks' \in [Trxs -> {"none", "empty", "client"}]
    <2> HIDE DEF found, old, told, missed
    <2> QED BY <1>1, <1>3
  <1>14. answers' \in [Trxs -> Seq([time : Nat, expired : BOOLEAN])]
    <2>1. \A t \in Trxs : answers'[t] \in Seq([time : Nat, expired : BOOLEAN])
      <3> HIDE DEF found, old, told, missed
      <3> QED BY <1>3, <1>10, <1>11, <1>12
    <2>2. answers' = [t \in Trxs |-> answers'[t]] BY <1>1
    <2> QED BY <2>1, <2>2
  <1> HIDE DEF found, old, told, missed
  <1>15. CallbacksRight'
    <2>1. \A t \in Trxs : callbacks'[t] = "client" => answers'[t] = <<>> BY <1>3, <1>12
    <2>2. \A t \in accepted : callbacks'[t] = "client" \/ answers'[t] # <<>> BY <1>3, <1>10, <1>11, <1>12
    <2> QED BY <1>1, <1>3, <1>13, <1>14, <2>1, <2>2 DEF CallbacksRight
  <1>16. WaitsForTask'
    <2> SUFFICES ASSUME NEW t \in accepted, callbacks'[t] = "client", NEW i \in 1..(Done + 1)
                 PROVE  t \notin Range(trx_blocks[i].txs)
      BY <1>1, <1>6 DEF WaitsForTask
    <2>1. callbacks[t] = "client" /\ t \notin Range(b.txs) BY <1>3, <1>12
    <2>2. CASE i = Done + 1 BY <1>6, <2>1, <2>2
    <2>3. CASE i # Done + 1
      <3>1. i \in 1..Done BY <1>6, <2>3
      <3> QED BY <2>1, <3>1 DEF TrxInv, WaitsForTask
    <2> QED BY <2>2, <2>3
  <1>17. ExpiredForEver'
    <2> SUFFICES ASSUME NEW t \in accepted, answers'[t] # <<>>, answers'[t][1].expired PROVE Expiration[t] < HeadTime
      BY <1>1, <1>2 DEF ExpiredForEver
    <2>0. t \in Trxs BY <1>3
    <2>1. CASE answers'[t] = answers[t] BY <2>1 DEF TrxInv, ExpiredForEver
    <2>2. CASE answers'[t] # answers[t]
      <3>1. t \in missed BY <1>10, <1>11, <1>12, <2>0, <2>2
      <3> QED BY <1>9, <3>1
    <2> QED BY <2>1, <2>2
  <1>18. AnsweredRightly'
    <2> SUFFICES ASSUME NEW t \in Trxs
                 PROVE  /\ Len(answers'[t]) <= 1
                        /\ answers'[t] # <<>> =>
                             IF answers'[t][1].expired THEN t \in accepted => t \notin InChain
                             ELSE \E c \in Range(trx_blocks) : t \in Range(c.txs) /\ c.time = answers'[t][1].time
      BY <1>1, <1>2 DEF AnsweredRightly
    <2>1. CASE answers'[t] = answers[t] BY <2>1 DEF TrxInv, AnsweredRightly
    <2>2. CASE t \in Range(b.txs) /\ answers'[t] = Append(<<>>, Confirmed(b))
      <3>1. Len(answers'[t]) <= 1 /\ answers'[t][1] = Confirmed(b) BY <1>10, <1>11, <2>2
      <3> QED BY <1>7, <1>10, <2>2, <3>1
    <2>3. CASE t \in missed /\ answers'[t] = Append(<<>>, Expired(b))
      <3>1. Len(answers'[t]) <= 1 /\ answers'[t][1] = Expired(b) BY <1>10, <1>11, <2>3
      <3> QED BY <1>9, <1>10, <2>3, <3>1
    <2> QED BY <1>12, <2>1, <2>2, <2>3
  <1>19. pending' \in Seq(Trxs) /\ Stands(ledger', pending', HeadTime') BY <1>1, <1>2 DEF TrxInv
  <1>20. Stays BY <1>1 DEF Stays
  <1> QED BY <1>2, <1>8, <1>15, <1>16, <1>17, <1>18, <1>19, <1>20 DEF TrxInv

LEMMA LaterTime ==
  ASSUME TrxInv, NEW when \in NextTimes
  PROVE  when \in Nat /\ HeadTime < when
  <1>1. HeadTime \in Nat BY HeadTimeIs DEF TrxInv
  <1>2. PICK g \in Gaps : when = HeadTime + g BY DEF NextTimes
  <1>3. g \in Nat /\ g >= 1 BY <1>2, TrxConstants
  <1> QED BY <1>1, <1>2, <1>3

LEMMA OwnBlockStep ==
  ASSUME TrxInv, NEW when \in NextTimes, generate_block(when)
  PROVE  TrxInv' /\ Stays
  <1> DEFINE b == [time |-> when, txs |-> Chosen(when)]
  <1>1. when \in Nat /\ HeadTime < when BY LaterTime
  <1>2. ledger \in LedgerStates /\ pending \in Seq(Trxs) /\ HeadTime \in Nat /\ Len(pending) \in Nat
    BY HeadTimeIs DEF TrxInv
  <1>3. PICK f : Taking(f, ledger, pending, HeadTime) /\ Chosen(when) = f[Len(pending)].txs BY <1>2, ChosenIs
  <1>4. Len(pending) \in 0..Len(pending) BY <1>2
  <1>5. TakenRight(f[Len(pending)], ledger, pending, HeadTime, Len(pending)) BY <1>2, <1>3, <1>4, TakingRight
  <1>6. Chosen(when) \in Seq(Trxs) /\ Stands(ledger, Chosen(when), HeadTime)
    BY <1>3, <1>5 DEF TakenRight, Results
  <1>7. b \in BlockRecords /\ b.time = when /\ b.txs = Chosen(when) BY <1>1, <1>6 DEF BlockRecords
  <1>8. CASE HeaderSize + Sizes(b.txs) <= BlockSizeLimit
    <2>1. push_block(b) BY <1>8 DEF generate_block
    <2> HIDE DEF b
    <2> QED BY <1>1, <1>6, <1>7, <2>1, BlockTaken
  <1>9. CASE ~(HeaderSize + Sizes(b.txs) <= BlockSizeLimit)
    <2>1. UNCHANGED <<trx_blocks, ledger, pending, callbacks, tasks, answers, accepted>>
      BY <1>9 DEF generate_block
    <2>2. pending' \in Seq(Trxs) /\ Stands(ledger, pending', HeadTime) /\ Range(pending) \subseteq Range(pending')
      BY <2>1 DEF TrxInv
    <2> QED BY <2>1, <2>2, RestUntouched
  <1> QED BY <1>8, <1>9

LEMMA OthersBlockStep ==
  ASSUME TrxInv, NEW when \in NextTimes, NEW txs \in Seq(Trxs), handle_block([time |-> when, txs |-> txs])
  PROVE  TrxInv' /\ Stays
  <1> DEFINE b == [time |-> when, txs |-> txs]
  <1>1. when \in Nat /\ HeadTime < when BY LaterTime
  <1>2. ledger \in LedgerStates /\ HeadTime \in Nat BY HeadTimeIs DEF TrxInv
  <1>3. b \in BlockRecords /\ b.time = when /\ b.txs = txs BY <1>1 DEF BlockRecords
  <1>4. Pushed(ledger, txs, HeadTime).txs = txs /\ push_block(b) BY DEF handle_block
  <1>5. Stands(ledger, txs, HeadTime) BY <1>2, <1>4, PushedRight
  <1> HIDE DEF b
  <1> QED BY <1>1, <1>3, <1>4, <1>5, BlockTaken

LEMMA TrxNextInv ==
  ASSUME TrxInv, [TransactionsNext]_trxVars
  PROVE  TrxInv' /\ Stays
  <1>1. CASE UNCHANGED trxVars
    <2>1. UNCHANGED <<trx_blocks, ledger, pending, callbacks, tasks, answers, accepted>> BY <1>1 DEF trxVars
    <2>2. pending' \in Seq(Trxs) /\ Stands(ledger, pending', HeadTime) /\ Range(pending) \subseteq Range(pending')
      BY <2>1 DEF TrxInv
    <2> QED BY <2>1, <2>2, RestUntouched
  <1>2. ASSUME NEW t \in Trxs, callbacks[t] = "none", answers[t] = <<>>, broadcast_transaction_with_callback(t)
        PROVE  TrxInv' /\ Stays
    BY <1>2, BroadcastStep
  <1>3. ASSUME NEW t \in Trxs, push_transaction(t) PROVE TrxInv' /\ Stays
    BY <1>3, PushStep
  <1>4. CASE on_applied_block BY <1>4, TaskStep
  <1>5. ASSUME NEW when \in NextTimes, generate_block(when) PROVE TrxInv' /\ Stays
    BY <1>5, OwnBlockStep
  <1>6. ASSUME NEW when \in NextTimes, NEW n \in 0..MaxForeign, NEW txs \in [1..n -> Trxs],
               handle_block([time |-> when, txs |-> txs])
        PROVE  TrxInv' /\ Stays
    <2>1. txs \in Seq(Trxs)
      <3>1. n \in Nat BY TransactionsAssumption
      <3> QED BY <1>6, <3>1
    <2> QED BY <1>6, <2>1, OthersBlockStep
  <1> QED BY <1>1, <1>2, <1>3, <1>4, <1>5, <1>6 DEF TransactionsNext

\* For any transactions, expirations, sizes and what they use up, and whatever blocks are
\* made: no transaction is applied twice, what is pending applies and stays until it
\* cannot any more, and a client is told once and rightly (push_transaction, _apply_block,
\* clear_expired_transactions, on_applied_block).
THEOREM TransactionsAlwaysSound == TransactionsSpec => TransactionsSound
  <1>1. TransactionsInit => TrxInv BY TrxInitInv
  <1>2. TrxInv /\ [TransactionsNext]_trxVars => TrxInv' BY TrxNextInv
  <1>3. TrxInv => AppliedOnce /\ PendingApplies /\ AnsweredRightly BY PendingLeaves DEF TrxInv
  <1>4. TrxInv /\ [TransactionsNext]_trxVars =>
          [\A t \in Range(pending) \ Range(pending') :
              t \in ledger'.known \/ Expiration[t] <= Last(trx_blocks').time
                \/ Spends[t] \in ledger'.spent \/ t \in InChain']_trxVars
    BY TrxNextInv DEF Stays
  <1> QED BY <1>1, <1>2, <1>3, <1>4, PTL DEF TransactionsSpec, TransactionsSound, PendingStays
=============================================================================
