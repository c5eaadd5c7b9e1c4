------------------------ MODULE ChainDatabaseProofs -------------------------
(***************************************************************************)
(* The chain database, for every set of blocks, forks, witnesses, bad      *)
(* blocks and limits: undo states are those of blocks, no transaction that *)
(* was accepted is lost, what was reported irreversible stays, and the     *)
(* types hold.                                                             *)
(*                                                                         *)
(* The invariant looks at the chain below the pending session              *)
(* (ClearPending): its undo stack holds the states of consecutive ancestors *)
(* of the head (Chained), each of which knows the transactions of the one  *)
(* below it and those of its block (KnownGrows).  Every step of push_block *)
(* does one of four things to it (Moves): nothing, take a block back, mark *)
(* a block as complete, or apply one and commit.  A commit leaves no undo  *)
(* state below the last irreversible block, so that nothing reported can be *)
(* taken back (Kept); the files of a node that is down hold either such a  *)
(* chain or an unfinished replay, which its revision gives away            *)
(* (KeptInFiles).                                                          *)
(*                                                                         *)
(* That the block log follows the chain is a hypothesis of the last two    *)
(* theorems: a block that is pushed again and fails is removed from the    *)
(* fork database, from which the log is written.                           *)
(***************************************************************************)
EXTENDS ChainDatabase, SumTheorems, SequenceTheorems

-----------------------------------------------------------------------------
(* Blocks and their chains.                                                  *)

Blocks == Block \cup {Genesis}

\* The block of b's chain with number n.
Ancestor(b, n) == IF n = 0 THEN Genesis ELSE Path[b][n]

OnPath(r, h) == Num(r) <= Num(h) /\ Ancestor(h, Num(r)) = r

LEMMA PathOf ==
  ASSUME NEW b \in Block
  PROVE  /\ Path[b] \in Seq(Block) /\ Num(b) \in Nat \ {0}
         /\ Previous(b) \in Blocks
         /\ Path[Previous(b)] \in Seq(Block)
         /\ Path[b] = Append(Path[Previous(b)], b)
         /\ Num(Previous(b)) \in Nat
         /\ Num(Previous(b)) = Num(b) - 1
         /\ Previous(b) = Ancestor(b, Num(b) - 1)
<1>1. Path[b] \in Seq(Block) /\ Num(b) \in Nat /\ Num(b) > 0
  BY PathAssumption DEF Num
<1>2. Previous(b) = Ancestor(b, Num(b) - 1) /\ Previous(b) \in Blocks
  <2>1. CASE Num(b) = 1
    BY <2>1 DEF Previous, Ancestor, Blocks
  <2>2. CASE Num(b) # 1
    <3>0. Num(b) = Len(Path[b])
      BY DEF Num
    <3>4. ASSUME NEW k \in Nat, k > 0, k # 1 PROVE k - 1 \in 1 .. k /\ k - 1 # 0
      BY <3>4
    <3>1. Num(b) - 1 \in 1 .. Len(Path[b]) /\ Num(b) - 1 # 0
      BY ONLY <1>1, <2>2, <3>0, <3>4
    <3>2. Path[b][Num(b) - 1] \in Block
      BY <1>1, <3>1
    <3> QED
      BY <2>2, <3>1, <3>2 DEF Previous, Ancestor, Blocks
  <2> QED
    BY <2>1, <2>2
<1>3. Path[Previous(b)] \in Seq(Block)
  BY <1>2, PathAssumption DEF Blocks
<1>4. Path[b] = Append(Path[Previous(b)], b)
  BY PathAssumption
<1>5. Len(Path[b]) = Len(Path[Previous(b)]) + 1 /\ Len(Path[Previous(b)]) \in Nat
  BY <1>3, <1>4
<1> QED
  BY <1>1, <1>2, <1>3, <1>4, <1>5 DEF Num

LEMMA PathOfGenesis == Path[Genesis] = <<>> /\ Num(Genesis) = 0 /\ Genesis \in Blocks
  BY PathAssumption DEF Num, Blocks

LEMMA NumOf ==
  ASSUME NEW b \in Blocks
  PROVE  Path[b] \in Seq(Block) /\ Num(b) \in Nat /\ (Num(b) = 0 => b = Genesis)
<1>1. CASE b \in Block
  BY <1>1, PathOf
<1>2. CASE b = Genesis
  BY <1>2, PathOfGenesis
<1> QED
  BY <1>1, <1>2 DEF Blocks

\* The chain of an ancestor is the first part of the chain.
LEMMA PathOfAncestor ==
  ASSUME NEW b \in Blocks, NEW n \in 0 .. Num(b)
  PROVE  /\ Ancestor(b, n) \in Blocks
         /\ Path[Ancestor(b, n)] = SubSeq(Path[b], 1, n)
         /\ Num(Ancestor(b, n)) = n
<1> DEFINE Right(c, k) == Ancestor(c, k) \in Blocks /\ Path[Ancestor(c, k)] = SubSeq(Path[c], 1, k)
           right == {m \in Nat : \A c \in Blocks : Num(c) = m => \A k \in 0 .. m : Right(c, k)}
<1>1. 0 \in right
  <2>1. ASSUME NEW c \in Blocks, Num(c) = 0, NEW k \in 0 .. 0 PROVE Right(c, k)
    <3>1. k = 0 /\ c = Genesis
      BY <2>1, NumOf
    <3>2. SubSeq(Path[c], 1, k) = <<>>
      BY <3>1, PathOfGenesis
    <3> QED
      BY <3>1, <3>2, PathOfGenesis DEF Ancestor
  <2> QED
    BY <2>1
<1>2. ASSUME NEW m \in Nat, m \in right PROVE m + 1 \in right
  <2>1. ASSUME NEW c \in Blocks, Num(c) = m + 1, NEW k \in 0 .. m + 1 PROVE Right(c, k)
    <3>1. c \in Block
      BY <2>1, PathOfGenesis DEF Blocks
    <3> DEFINE p == Previous(c)
    <3>2. /\ p \in Blocks /\ Path[p] \in Seq(Block) /\ Path[c] = Append(Path[p], c) /\ Num(p) = m
          /\ Path[c] \in Seq(Block) /\ Len(Path[p]) = m
      <4>1. /\ Previous(c) \in Blocks /\ Path[Previous(c)] \in Seq(Block)
            /\ Path[c] = Append(Path[Previous(c)], c)
            /\ Num(Previous(c)) = Num(c) - 1 /\ Path[c] \in Seq(Block)
        BY <3>1, PathOf
      <4> QED
        BY <2>1, <4>1 DEF Num
    <3> HIDE DEF p
    <3>3. CASE k = m + 1
      <4>1. Path[c][m + 1] = c /\ Len(Path[c]) = m + 1
        BY <3>2
      <4>2. SubSeq(Path[c], 1, m + 1) = Path[c]
        BY <3>2, <4>1
      <4> QED
        BY <3>3, <4>1, <4>2 DEF Ancestor
    <3>4. CASE k # m + 1
      <4>1. k \in 0 .. m
        BY <3>4
      <4>2. Right(p, k)
        BY <1>2, <3>2, <4>1
      <4>3. Ancestor(c, k) = Ancestor(p, k)
        BY <3>2, <4>1 DEF Ancestor
      <4>4. SubSeq(Path[c], 1, k) = SubSeq(Path[p], 1, k)
        BY <3>2, <4>1
      <4> QED
        BY <4>2, <4>3, <4>4
    <3> QED
      BY <3>3, <3>4
  <2>2. m + 1 \in Nat
    OBVIOUS
  <2> QED
    BY <2>1, <2>2
<1>3. Right(b, n)
  <2>1. Nat \subseteq right
    <3> HIDE DEF right
    <3> QED
      BY <1>1, <1>2, NatSetInduction
  <2>2. Num(b) \in right
    BY <2>1, NumOf
  <2> QED
    BY <2>2
<1>4. Num(Ancestor(b, n)) = n
  <2>1. Path[b] \in Seq(Block) /\ Len(Path[b]) = Num(b) /\ Num(b) \in Nat
    BY NumOf DEF Num
  <2>2. Len(SubSeq(Path[b], 1, n)) = n
    BY <2>1
  <2> QED
    BY <1>3, <2>2 DEF Num
<1> QED
  BY <1>3, <1>4

\* The ancestors of an ancestor.
LEMMA AncestorOfAncestor ==
  ASSUME NEW b \in Blocks, NEW n \in 0 .. Num(b), NEW m \in 0 .. n
  PROVE  Ancestor(Ancestor(b, n), m) = Ancestor(b, m)
<1>1. Path[b] \in Seq(Block) /\ Len(Path[b]) = Num(b) /\ Num(b) \in Nat
  BY NumOf DEF Num
<1>2. Path[Ancestor(b, n)] = SubSeq(Path[b], 1, n)
  BY PathOfAncestor
<1>3. m # 0 => SubSeq(Path[b], 1, n)[m] = Path[b][m]
  BY <1>1
<1> QED
  BY <1>2, <1>3 DEF Ancestor

LEMMA AncestorItself ==
  ASSUME NEW b \in Blocks
  PROVE  Ancestor(b, Num(b)) = b
<1>1. CASE b = Genesis
  BY <1>1, PathOfGenesis DEF Ancestor
<1>2. CASE b \in Block
  <2> DEFINE p == Path[Previous(b)]
  <2>1. p \in Seq(Block) /\ Path[b] = Append(p, b) /\ Num(b) # 0 /\ Num(b) = Len(Path[b])
    BY <1>2, PathOf DEF Num
  <2> HIDE DEF p
  <2>2. Path[b][Num(b)] = b
    BY <2>1
  <2> QED
    BY <2>1, <2>2 DEF Ancestor
<1> QED
  BY <1>1, <1>2 DEF Blocks

\* A block that is on the path of another has a chain that is a first part of it.
LEMMA OnPathPrefix ==
  ASSUME NEW r \in Blocks, NEW h \in Blocks
  PROVE  /\ OnPath(r, h) => IsPrefixOf(Path[r], Path[h])
         /\ IsPrefixOf(Path[r], Path[h]) => OnPath(r, h)
<1>1. /\ Path[r] \in Seq(Block) /\ Path[h] \in Seq(Block)
      /\ Num(r) = Len(Path[r]) /\ Num(h) = Len(Path[h]) /\ Num(r) \in Nat /\ Num(h) \in Nat
  BY NumOf DEF Num
<1>2. ASSUME OnPath(r, h) PROVE IsPrefixOf(Path[r], Path[h])
  <2>1. Num(r) \in 0 .. Num(h)
    BY <1>1, <1>2 DEF OnPath
  <2>2. Path[Ancestor(h, Num(r))] = SubSeq(Path[h], 1, Num(r))
    BY <2>1, PathOfAncestor
  <2> QED
    BY <1>1, <1>2, <2>2 DEF OnPath, IsPrefixOf
<1>3. ASSUME IsPrefixOf(Path[r], Path[h]) PROVE OnPath(r, h)
  <2>1. Num(r) <= Num(h) /\ SubSeq(Path[h], 1, Num(r)) = Path[r]
    BY <1>1, <1>3 DEF IsPrefixOf
  <2>2. Num(r) # 0 => Path[r][Num(r)] = Path[h][Num(r)]
    BY <1>1, <2>1
  <2>3. Ancestor(h, Num(r)) = Ancestor(r, Num(r))
    BY <2>2 DEF Ancestor
  <2> QED
    BY <2>1, <2>3, AncestorItself DEF OnPath
<1> QED
  BY <1>2, <1>3

LEMMA OnPathTransitive ==
  ASSUME NEW a \in Blocks, NEW b \in Blocks, NEW c \in Blocks, OnPath(a, b), OnPath(b, c)
  PROVE  OnPath(a, c)
<1>1. Num(a) \in Nat /\ Num(b) \in Nat /\ Num(c) \in Nat
  BY NumOf
<1>2. Num(b) \in 0 .. Num(c) /\ Num(a) \in 0 .. Num(b)
  BY <1>1 DEF OnPath
<1>3. Ancestor(Ancestor(c, Num(b)), Num(a)) = Ancestor(c, Num(a))
  BY <1>2, AncestorOfAncestor
<1>4. Ancestor(c, Num(b)) = b /\ Ancestor(b, Num(a)) = a
  BY DEF OnPath
<1>5. Ancestor(c, Num(a)) = a /\ Num(a) <= Num(c)
  BY <1>1, <1>2, <1>3, <1>4
<1> QED
  BY <1>5 DEF OnPath

-----------------------------------------------------------------------------
(* What the operators of the model return.                                   *)

Contents == [top : StateRecord, stack : Seq(StateRecord), revision : Int]

ForkRecord == [index : SUBSET Block, linked : SUBSET Block, head : Blocks,
               headLinked : BOOLEAN, maxSize : Int]

\* State i of the undo stack, the top above it included.
StateAt(c, i) == IF i <= Len(c.stack) THEN c.stack[i] ELSE c.top

LEMMA UndoSessionType ==
  ASSUME NEW c \in Contents
  PROVE  /\ UndoSession(c) \in Contents
         /\ c.stack = <<>> => UndoSession(c) = c
         /\ c.stack # <<>> =>
              /\ Len(c.stack) \in Nat \ {0}
              /\ UndoSession(c).top = c.stack[Len(c.stack)]
              /\ Len(UndoSession(c).stack) = Len(c.stack) - 1
              /\ \A i \in 1 .. Len(c.stack) - 1 : UndoSession(c).stack[i] = c.stack[i]
              /\ UndoSession(c).revision = c.revision - 1
<1>1. CASE c.stack = <<>>
  BY <1>1 DEF UndoSession
<1>2. CASE c.stack # <<>>
  <2>1. c.stack \in Seq(StateRecord) /\ c.revision \in Int
    BY DEF Contents
  <2>2. Len(c.stack) \in Nat \ {0} /\ Last(c.stack) = c.stack[Len(c.stack)]
    BY <1>2, <2>1, EmptySeq DEF Last
  <2>3. Last(c.stack) \in StateRecord
    BY <2>1, <2>2
  <2> DEFINE f == SubSeq(c.stack, 1, Len(c.stack) - 1)
  <2>4. /\ f \in Seq(StateRecord) /\ Len(f) = Len(c.stack) - 1
        /\ \A i \in 1 .. Len(c.stack) - 1 : f[i] = c.stack[i]
    BY <2>1, <2>2, SubSeqProperties
  <2>5. UndoSession(c) = [top |-> Last(c.stack), stack |-> f, revision |-> c.revision - 1]
    BY <1>2 DEF UndoSession, Front
  <2> HIDE DEF f
  <2> QED
    BY <1>2, <2>1, <2>2, <2>3, <2>4, <2>5 DEF Contents
<1> QED
  BY <1>1, <1>2

LEMMA StartSessionType ==
  ASSUME NEW c \in Contents, NEW s \in StateRecord
  PROVE  LET d == [StartSession(c) EXCEPT !.top = s]
         IN  /\ d \in Contents /\ d.top = s
             /\ StartSession(c) \in Contents /\ StartSession(c).top = c.top
             /\ StartSession(c).stack = d.stack /\ StartSession(c).revision = c.revision + 1
             /\ Len(d.stack) = Len(c.stack) + 1 /\ Len(c.stack) \in Nat
             /\ d.stack[Len(c.stack) + 1] = c.top
             /\ \A i \in 1 .. Len(c.stack) : d.stack[i] = c.stack[i]
             /\ d.revision = c.revision + 1
<1> DEFINE a == Append(c.stack, c.top)
           e == StartSession(c)
           d == [e EXCEPT !.top = s]
<1>1. c.stack \in Seq(StateRecord) /\ c.top \in StateRecord /\ c.revision \in Int
  BY DEF Contents
<1>2. /\ a \in Seq(StateRecord) /\ Len(a) = Len(c.stack) + 1 /\ a[Len(c.stack) + 1] = c.top
      /\ Len(c.stack) \in Nat
      /\ \A i \in 1 .. Len(c.stack) : a[i] = c.stack[i]
  BY <1>1
<1>3. e = [c EXCEPT !.stack = a, !.revision = c.revision + 1]
  BY DEF StartSession
<1> HIDE DEF a, e
<1>4. e \in Contents /\ e.stack = a /\ e.top = c.top /\ e.revision = c.revision + 1
  <2>1. c.revision + 1 \in Int
    BY <1>1
  <2>2. a \in Seq(StateRecord)
    BY <1>2
  <2> DEFINE r == c.revision + 1
  <2> HIDE DEF r
  <2>3. r \in Int /\ e = [c EXCEPT !.stack = a, !.revision = r]
    BY <1>3, <2>1 DEF r
  <2>4. e \in Contents /\ e.stack = a /\ e.top = c.top /\ e.revision = r
    BY <2>2, <2>3 DEF Contents
  <2> QED
    BY <2>4 DEF r
<1>5. d \in Contents /\ d.stack = a /\ d.top = s /\ d.revision = c.revision + 1
  BY <1>4 DEF Contents
<1> HIDE DEF d
<1>6. /\ d \in Contents /\ d.top = s
      /\ e \in Contents /\ e.top = c.top
      /\ e.stack = d.stack /\ e.revision = c.revision + 1
      /\ Len(d.stack) = Len(c.stack) + 1 /\ Len(c.stack) \in Nat
      /\ d.stack[Len(c.stack) + 1] = c.top
      /\ \A i \in 1 .. Len(c.stack) : d.stack[i] = c.stack[i]
      /\ d.revision = c.revision + 1
  BY <1>2, <1>4, <1>5
<1> QED
  BY <1>6 DEF d, e

\* Only what the top knows is changed.
LEMMA KnowsType ==
  ASSUME NEW c \in Contents, NEW T \in SUBSET Tx
  PROVE  LET d == [c EXCEPT !.top.known = @ \cup T]
         IN  /\ d \in Contents /\ d.stack = c.stack /\ d.revision = c.revision
             /\ d.top.head = c.top.head /\ d.top.known = c.top.known \cup T
             /\ d.top.lib = c.top.lib /\ d.top.confirmed = c.top.confirmed
<1>1. c.top \in StateRecord
  BY DEF Contents
<1> DEFINE t == [c.top EXCEPT !.known = @ \cup T]
           d == [c EXCEPT !.top = t]
<1>2. /\ t \in StateRecord /\ t.head = c.top.head /\ t.known = c.top.known \cup T
      /\ t.lib = c.top.lib /\ t.confirmed = c.top.confirmed
  BY <1>1 DEF StateRecord
<1> HIDE DEF t
<1>3. d \in Contents /\ d.stack = c.stack /\ d.revision = c.revision /\ d.top = t
  BY <1>2 DEF Contents
<1>4. [c EXCEPT !.top.known = @ \cup T] = d
  BY DEF t
<1> HIDE DEF d
<1> QED
  BY <1>2, <1>3, <1>4

LEMMA WholeType ==
  ASSUME NEW c \in Contents
  PROVE  LET d == [c EXCEPT !.top.whole = TRUE]
         IN  /\ d \in Contents /\ d.stack = c.stack /\ d.revision = c.revision
             /\ d.top.head = c.top.head /\ d.top.known = c.top.known
             /\ d.top.lib = c.top.lib /\ d.top.confirmed = c.top.confirmed
<1>1. c.top \in StateRecord
  BY DEF Contents
<1> DEFINE t == [c.top EXCEPT !.whole = TRUE]
           d == [c EXCEPT !.top = t]
<1>2. /\ t \in StateRecord /\ t.head = c.top.head /\ t.known = c.top.known
      /\ t.lib = c.top.lib /\ t.confirmed = c.top.confirmed
  BY <1>1 DEF StateRecord
<1> HIDE DEF t
<1>3. d \in Contents /\ d.stack = c.stack /\ d.revision = c.revision /\ d.top = t
  BY <1>2 DEF Contents
<1>4. [c EXCEPT !.top.whole = TRUE] = d
  BY DEF t
<1> HIDE DEF d
<1> QED
  BY <1>2, <1>3, <1>4

\* commit drops states from the front, so many that the oldest left has
\* revision r, or as many as there are.
LEMMA CommitToType ==
  ASSUME NEW c \in Contents, NEW r \in Nat
  PROVE  /\ CommitTo(c, r) \in Contents
         /\ CommitTo(c, r).top = c.top /\ CommitTo(c, r).revision = c.revision
         /\ \E k \in 0 .. Len(c.stack) :
              /\ Len(CommitTo(c, r).stack) = Len(c.stack) - k
              /\ \A i \in 1 .. Len(c.stack) - k : CommitTo(c, r).stack[i] = c.stack[i + k]
              /\ \/ k = Len(c.stack)
                 \/ r <= (c.revision - Len(c.stack)) + k
<1>1. c.stack \in Seq(StateRecord) /\ c.revision \in Int /\ Len(c.stack) \in Nat
  BY DEF Contents
<1> DEFINE oldest == c.revision - Len(c.stack)
           k == IF r <= oldest THEN 0
                ELSE IF r - oldest > Len(c.stack) THEN Len(c.stack) ELSE r - oldest
           d == SubSeq(c.stack, k + 1, Len(c.stack))
<1>2. k \in 0 .. Len(c.stack) /\ (k = Len(c.stack) \/ r <= oldest + k)
  BY <1>1
<1>3. CommitTo(c, r) = [c EXCEPT !.stack = d]
  BY DEF CommitTo
<1> HIDE DEF k
<1>4. /\ d \in Seq(StateRecord) /\ Len(d) = Len(c.stack) - k
      /\ \A i \in 1 .. Len(c.stack) - k : d[i] = c.stack[i + k]
  <2>1. k + 1 \in Int /\ k \in Nat /\ Len(c.stack) - k \in Nat
    BY <1>1, <1>2
  <2>2. Len(d) = Len(c.stack) - k
    BY <1>1, <1>2, <2>1, SubSeqProperties
  <2>3. d \in Seq(StateRecord)
    BY <1>1, <1>2, <2>1, SubSeqProperties
  <2>4. ASSUME NEW i \in 1 .. Len(c.stack) - k PROVE d[i] = c.stack[i + k]
    <3>1. d[i] = c.stack[(k + 1) + i - 1] /\ (k + 1) + i - 1 = i + k
      BY <1>1, <1>2, <2>1, SubSeqProperties
    <3> QED
      BY <3>1
  <2> QED
    BY <2>2, <2>3, <2>4
<1> HIDE DEF d
<1>5. /\ CommitTo(c, r) \in Contents /\ CommitTo(c, r).top = c.top
      /\ CommitTo(c, r).revision = c.revision /\ CommitTo(c, r).stack = d
  BY <1>3, <1>4 DEF Contents
<1> QED
  BY <1>2, <1>4, <1>5

LEMMA UndoAllType ==
  ASSUME NEW c \in Contents
  PROVE  /\ UndoAll(c) \in Contents /\ UndoAll(c).stack = <<>> /\ UndoAll(c).top = Base(c)
         /\ Base(c) = StateAt(c, 1) /\ Base(c) \in StateRecord
         /\ UndoAll(c).revision = c.revision - Len(c.stack)
<1>1. /\ c.stack \in Seq(StateRecord) /\ c.revision \in Int /\ c.top \in StateRecord
      /\ Len(c.stack) \in Nat
  BY DEF Contents
<1>2. Base(c) = StateAt(c, 1) /\ Base(c) \in StateRecord
  <2>1. CASE c.stack = <<>>
    BY <1>1, <2>1 DEF Base, StateAt
  <2>2. CASE c.stack # <<>>
    <3>1. Len(c.stack) \in Nat \ {0}
      BY <1>1, <2>2, EmptySeq
    <3> QED
      BY <1>1, <2>2, <3>1 DEF Base, StateAt
  <2> QED
    BY <2>1, <2>2
<1> QED
  BY <1>1, <1>2 DEF UndoAll, Contents

\* wit_objs[offset]: some witness has confirmed that block.
LEMMA NthConfirmedIn ==
  ASSUME NEW confirmed \in [Witness -> Nat]
  PROVE  NthConfirmed(confirmed) \in {confirmed[w] : w \in Witness}
<1> DEFINE count == Cardinality(Witness)
           offset == ((100 - 75) * count) \div 100
           lower(v) == {w \in Witness : confirmed[w] < v}
           upTo(v) == {w \in Witness : confirmed[w] <= v}
           reached == {v \in Nat : offset < Cardinality(upTo(v))}
<1>1. IsFiniteSet(Witness) /\ count \in Nat /\ count > 0
  <2>1. IsFiniteSet(Witness) /\ Witness # {}
    BY WitnessAssumption
  <2>2. count \in Nat /\ count # 0
    BY <2>1, FS_CardinalityType, FS_EmptySet
  <2> QED
    BY <2>1, <2>2
<1>2. offset \in Nat /\ offset < count
  <2> HIDE DEF count
  <2> QED
    BY <1>1
<1> HIDE DEF offset, count
<1>3. \E bound \in Nat : \A w \in Witness : confirmed[w] <= bound
  <2> DEFINE bounded == {T \in SUBSET Witness : \E bound \in Nat : \A w \in T : confirmed[w] <= bound}
  <2>1. {} \in bounded
    OBVIOUS
  <2>2. ASSUME NEW T \in SUBSET Witness, NEW x \in Witness \ T, T \in bounded
        PROVE  T \cup {x} \in bounded
    <3>1. PICK bound \in Nat : \A w \in T : confirmed[w] <= bound
      BY <2>2
    <3>2. PICK more \in Nat : bound <= more /\ confirmed[x] <= more
      <4>1. confirmed[x] \in Nat
        OBVIOUS
      <4>2. bound + confirmed[x] \in Nat /\ bound <= bound + confirmed[x] /\ confirmed[x] <= bound + confirmed[x]
        BY <4>1
      <4> QED
        BY <4>2
    <3>3. \A w \in T \cup {x} : confirmed[w] <= more
      BY <3>1, <3>2
    <3> QED
      BY <3>3
  <2>3. Witness \in bounded
    <3> HIDE DEF bounded
    <3> QED
      BY <1>1, <2>1, <2>2, SetInduction
  <2> QED
    BY <2>3
<1>4. reached # {}
  <2>1. PICK bound \in Nat : \A w \in Witness : confirmed[w] <= bound
    BY <1>3
  <2>2. upTo(bound) = Witness
    BY <2>1
  <2>3. bound \in reached
    BY <1>2, <2>2 DEF count
  <2> QED
    BY <2>3
<1>5. PICK v \in reached : \A u \in reached : v <= u
  BY <1>4, LeastNatural
<1>6. /\ IsFiniteSet(upTo(v)) /\ Cardinality(upTo(v)) \in Nat
      /\ IsFiniteSet(lower(v)) /\ Cardinality(lower(v)) \in Nat
  <2>1. upTo(v) \subseteq Witness /\ lower(v) \subseteq Witness
    OBVIOUS
  <2> QED
    BY <1>1, <2>1, FS_Subset, FS_CardinalityType
<1>7. Cardinality(lower(v)) <= offset
  <2>1. CASE v = 0
    <3>1. lower(v) = {}
      BY <2>1
    <3> QED
      BY <1>2, <3>1, FS_EmptySet
  <2>2. CASE v # 0
    <3>1. v - 1 \in Nat /\ v - 1 \notin reached
      BY <1>5, <2>2
    <3>2. upTo(v - 1) = lower(v)
      BY <3>1
    <3>3. ~(offset < Cardinality(lower(v)))
      BY <3>1, <3>2
    <3> QED
      BY <1>2, <1>6, <3>3
  <2> QED
    BY <2>1, <2>2
<1>8. \E w \in Witness : confirmed[w] = v
  <2>1. upTo(v) # lower(v)
    BY <1>2, <1>5, <1>6, <1>7
  <2>2. PICK w \in Witness : confirmed[w] <= v /\ ~(confirmed[w] < v)
    BY <2>1
  <2> QED
    BY <2>2
<1>9. /\ v \in {confirmed[w] : w \in Witness}
      /\ Cardinality(lower(v)) <= offset /\ offset < Cardinality(upTo(v))
  BY <1>5, <1>7, <1>8
<1>10. NthConfirmed(confirmed) =
         CHOOSE x \in {confirmed[w] : w \in Witness} :
           Cardinality(lower(x)) <= offset /\ offset < Cardinality(upTo(x))
  BY DEF NthConfirmed, offset, count
<1> HIDE DEF lower, upTo
<1> QED
  BY <1>9, <1>10

LEMMA HeadMovedType ==
  ASSUME NEW s \in StateRecord, NEW b \in Block
  PROVE  /\ HeadMoved(s, b) \in StateRecord /\ HeadMoved(s, b).head = b
         /\ HeadMoved(s, b).known = s.known \cup Range(Txs[b])
         /\ HeadMoved(s, b).confirmed = [s.confirmed EXCEPT ![Producer[b]] = Num(b)]
         /\ HeadMoved(s, b).lib = NewLib(s, HeadMoved(s, b).confirmed, Num(b))
<1> DEFINE c == [s.confirmed EXCEPT ![Producer[b]] = Num(b)]
<1>1. Num(b) \in Nat
  BY PathOf
<1>2. c \in [Witness -> Nat]
  BY <1>1 DEF StateRecord
<1> HIDE DEF c
<1>3. NthConfirmed(c) \in Nat
  BY <1>2, NthConfirmedIn
<1>4. s.lib \in Nat /\ MAX_WITNESSES \in Nat
  BY BoundAssumption DEF StateRecord
<1>5. NewLib(s, c, Num(b)) \in Nat
  BY <1>1, <1>3, <1>4 DEF NewLib
<1>6. Range(Txs[b]) \subseteq Tx
  BY BlockAssumption DEF Range
<1>7. s.known \cup Range(Txs[b]) \in SUBSET Tx
  BY <1>6 DEF StateRecord
<1>8. HeadMoved(s, b) = [head |-> b, lib |-> NewLib(s, c, Num(b)), confirmed |-> c,
                         known |-> s.known \cup Range(Txs[b]), whole |-> FALSE]
  BY DEF HeadMoved, c
<1> QED
  BY <1>2, <1>5, <1>7, <1>8 DEF StateRecord, c

LEMMA GenesisStateType == GenesisState \in StateRecord
  BY DEF GenesisState, StateRecord

LEMMA ReplayedType ==
  ASSUME NEW s \in StateRecord, NEW b \in Block
  PROVE  /\ Replayed(s, b) \in StateRecord /\ Replayed(s, b).head = b
         /\ Replayed(s, b).confirmed = [s.confirmed EXCEPT ![Producer[b]] = Num(b)]
         /\ Replayed(s, b).lib = NewLib(s, Replayed(s, b).confirmed, Num(b))
<1> DEFINE m == HeadMoved(s, b)
<1>1. /\ m \in StateRecord /\ m.head = b
      /\ m.confirmed = [s.confirmed EXCEPT ![Producer[b]] = Num(b)]
      /\ m.lib = NewLib(s, m.confirmed, Num(b))
  BY HeadMovedType
<1> HIDE DEF m
<1> DEFINE r == [m EXCEPT !.known = {}, !.whole = TRUE]
<1>2. Replayed(s, b) = r
  BY DEF Replayed, m
<1>3. r \in StateRecord /\ r.head = m.head /\ r.confirmed = m.confirmed /\ r.lib = m.lib
  BY <1>1 DEF StateRecord
<1> HIDE DEF r
<1> QED
  BY <1>1, <1>2, <1>3

\* The states of a replay, one after the other.
LEMMA ReplayStates ==
  ASSUME NEW blocks \in Seq(Block)
  PROVE  \E g \in [0 .. Len(blocks) -> StateRecord] :
           /\ g[0] = GenesisState
           /\ \A n \in 1 .. Len(blocks) : g[n] = Replayed(g[n - 1], blocks[n])
           /\ Replay(blocks) = g[Len(blocks)]
<1> DEFINE N == Len(blocks)
           F == [n \in 1 .. N |-> [s \in StateRecord |-> Replayed(s, blocks[n])]]
           body(g) == [n \in 0 .. N |-> IF n = 0 THEN GenesisState ELSE Replayed(g[n - 1], blocks[n])]
           chosen == CHOOSE g : g = body(g)
<1>1. N \in Nat
  OBVIOUS
<1>2. ASSUME NEW n \in 1 .. N PROVE F[n] \in [StateRecord -> StateRecord]
  <2>1. blocks[n] \in Block
    OBVIOUS
  <2> QED
    BY <2>1, ReplayedType
<1>3. Steps(F, N, StateRecord)
  <2>1. F = [n \in 1 .. N |-> F[n]]
    OBVIOUS
  <2> HIDE DEF F
  <2> QED
    BY <1>2, <2>1 DEF Steps
<1> HIDE DEF N
<1>31. \E g : Iterates(g, GenesisState, F, N, StateRecord)
  <2> HIDE DEF F
  <2> QED
    BY <1>1, <1>3, GenesisStateType, RecursionExists
<1>4. PICK g \in [0 .. N -> StateRecord] :
        g[0] = GenesisState /\ \A n \in 1 .. N : g[n] = F[n][g[n - 1]]
  <2> HIDE DEF F
  <2> QED
    BY <1>31 DEF Iterates
<1> USE DEF N
<1>5. ASSUME NEW n \in 1 .. N PROVE g[n] = Replayed(g[n - 1], blocks[n])
  <2>1. n - 1 \in 0 .. N
    OBVIOUS
  <2>2. g[n - 1] \in StateRecord
    BY <1>4, <2>1
  <2> QED
    BY <1>4, <2>2
<1>6. g = body(g)
  <2>1. ASSUME NEW n \in 0 .. N PROVE g[n] = body(g)[n]
    BY <1>4, <1>5
  <2>2. g = [n \in 0 .. N |-> g[n]]
    OBVIOUS
  <2> QED
    BY <2>1, <2>2
<1>7. chosen = body(chosen)
  BY <1>6
<1>8. Replay(blocks) = chosen[N]
  BY DEF Replay
<1> HIDE DEF chosen
<1>9. /\ chosen = [n \in 0 .. N |-> chosen[n]] /\ chosen[0] = GenesisState
      /\ \A n \in 1 .. N : chosen[n] = Replayed(chosen[n - 1], blocks[n])
  <2>1. DOMAIN chosen = 0 .. N
    BY <1>7
  <2>2. \A n \in 0 .. N : chosen[n] = IF n = 0 THEN GenesisState ELSE Replayed(chosen[n - 1], blocks[n])
    BY <1>7
  <2>3. chosen = [n \in 0 .. N |-> chosen[n]]
    BY <1>7
  <2> QED
    BY <2>2, <2>3
<1>10. \A n \in 0 .. N : chosen[n] \in StateRecord
  <2> DEFINE right == {n \in Nat : n <= N => chosen[n] \in StateRecord}
  <2>1. 0 \in right
    BY <1>9, GenesisStateType
  <2>2. ASSUME NEW n \in Nat, n \in right PROVE n + 1 \in right
    <3>1. CASE n + 1 <= N
      <4>1. n + 1 \in 1 .. N /\ (n + 1) - 1 = n /\ n <= N
        BY <3>1
      <4>2. chosen[n] \in StateRecord /\ blocks[n + 1] \in Block
        BY <2>2, <4>1
      <4>3. chosen[n + 1] = Replayed(chosen[n], blocks[n + 1])
        BY <1>9, <4>1
      <4> QED
        BY <4>2, <4>3, ReplayedType
    <3>2. CASE ~(n + 1 <= N)
      BY <3>2
    <3> QED
      BY <3>1, <3>2
  <2>3. Nat \subseteq right
    <3> HIDE DEF right
    <3> QED
      BY <2>1, <2>2, NatSetInduction
  <2> QED
    BY <2>3
<1>11. chosen \in [0 .. N -> StateRecord]
  BY <1>9, <1>10
<1> QED
  BY <1>8, <1>9, <1>11

LEMMA ReplayType ==
  ASSUME NEW blocks \in Seq(Block)
  PROVE  /\ Replay(blocks) \in StateRecord
         /\ blocks # <<>> => Replay(blocks).head = blocks[Len(blocks)]
<1>1. PICK g \in [0 .. Len(blocks) -> StateRecord] :
           /\ \A n \in 1 .. Len(blocks) : g[n] = Replayed(g[n - 1], blocks[n])
           /\ Replay(blocks) = g[Len(blocks)]
  BY ReplayStates
<1>2. Len(blocks) \in Nat
  OBVIOUS
<1>3. ASSUME blocks # <<>> PROVE Replay(blocks).head = blocks[Len(blocks)]
  <2>1. Len(blocks) \in 1 .. Len(blocks) /\ Len(blocks) - 1 \in 0 .. Len(blocks)
    BY <1>3, EmptySeq
  <2>2. g[Len(blocks) - 1] \in StateRecord /\ blocks[Len(blocks)] \in Block
    BY <2>1
  <2>3. Replay(blocks) = Replayed(g[Len(blocks) - 1], blocks[Len(blocks)])
    BY <1>1, <2>1
  <2> QED
    BY <2>2, <2>3, ReplayedType
<1> QED
  BY <1>1, <1>2, <1>3

LEMMA AppendRange ==
  ASSUME NEW S, NEW s \in Seq(S), NEW x \in S
  PROVE  Append(s, x) \in Seq(S) /\ Range(Append(s, x)) = Range(s) \cup {x}
<1> DEFINE a == Append(s, x)
<1>1. /\ a \in Seq(S) /\ Len(a) = Len(s) + 1 /\ a[Len(s) + 1] = x /\ Len(s) \in Nat
      /\ \A i \in 1 .. Len(s) : a[i] = s[i]
      /\ DOMAIN a = 1 .. Len(s) + 1 /\ DOMAIN s = 1 .. Len(s)
  OBVIOUS
<1> HIDE DEF a
<1>2. Range(a) = Range(s) \cup {x}
  <2>1. ASSUME NEW y \in Range(a) PROVE y \in Range(s) \cup {x}
    <3>1. PICK i \in DOMAIN a : y = a[i]
      BY DEF Range
    <3>2. i = Len(s) + 1 \/ i \in 1 .. Len(s)
      BY <1>1
    <3> QED
      BY <1>1, <3>1, <3>2 DEF Range
  <2>2. ASSUME NEW i \in 1 .. Len(s) PROVE s[i] \in Range(a)
    <3>1. i \in DOMAIN a /\ a[i] = s[i]
      BY <1>1
    <3> QED
      BY <3>1 DEF Range
  <2>3. Len(s) + 1 \in DOMAIN a /\ x \in Range(a)
    BY <1>1 DEF Range
  <2>4. \A y \in Range(s) : y \in Range(a)
    BY <1>1, <2>2 DEF Range
  <2> QED
    BY <2>1, <2>3, <2>4
<1> QED
  BY <1>1, <1>2 DEF a

LEMMA ConcatRange ==
  ASSUME NEW S, NEW s \in Seq(S), NEW t \in Seq(S)
  PROVE  s \o t \in Seq(S) /\ Range(s \o t) = Range(s) \cup Range(t)
<1> DEFINE a == s \o t
<1>1. /\ a \in Seq(S) /\ Len(a) = Len(s) + Len(t) /\ Len(s) \in Nat /\ Len(t) \in Nat
      /\ \A i \in 1 .. Len(s) : a[i] = s[i]
      /\ \A i \in 1 .. Len(t) : a[Len(s) + i] = t[i]
      /\ DOMAIN a = 1 .. Len(s) + Len(t) /\ DOMAIN s = 1 .. Len(s) /\ DOMAIN t = 1 .. Len(t)
  OBVIOUS
<1> HIDE DEF a
<1>2. Range(a) = Range(s) \cup Range(t)
  <2>1. ASSUME NEW y \in Range(a) PROVE y \in Range(s) \cup Range(t)
    <3>1. PICK i \in 1 .. Len(s) + Len(t) : y = a[i]
      BY <1>1 DEF Range
    <3>2. CASE i <= Len(s)
      <4>1. i \in DOMAIN s /\ y = s[i]
        BY <1>1, <3>1, <3>2
      <4> QED
        BY <4>1 DEF Range
    <3>3. CASE ~(i <= Len(s))
      <4>1. i - Len(s) \in 1 .. Len(t) /\ Len(s) + (i - Len(s)) = i
        BY <1>1, <3>3
      <4>2. y = t[i - Len(s)]
        BY <1>1, <3>1, <4>1
      <4> QED
        BY <1>1, <4>1, <4>2 DEF Range
    <3> QED
      BY <3>2, <3>3
  <2>2. ASSUME NEW i \in 1 .. Len(s) PROVE s[i] \in Range(a)
    <3>1. i \in DOMAIN a /\ a[i] = s[i]
      BY <1>1
    <3> QED
      BY <3>1 DEF Range
  <2>3. ASSUME NEW i \in 1 .. Len(t) PROVE t[i] \in Range(a)
    <3>1. Len(s) + i \in DOMAIN a /\ a[Len(s) + i] = t[i]
      BY <1>1
    <3> QED
      BY <3>1 DEF Range
  <2>4. (\A y \in Range(s) : y \in Range(a)) /\ (\A y \in Range(t) : y \in Range(a))
    BY <1>1, <2>2, <2>3 DEF Range
  <2> QED
    BY <2>1, <2>4
<1> QED
  BY <1>1, <1>2 DEF a

LEMMA RangeIn ==
  ASSUME NEW S, NEW s \in Seq(S)
  PROVE  Range(s) \subseteq S
  BY DEF Range

\* A transaction of txs that does not validate after some of what is kept.
Stale(head, known, k, t) ==
  \E m \in 0 .. Len(k) : ~Validates(t, head, known \cup Range(SubSeq(k, 1, m)))

LEMMA StaleStays ==
  ASSUME NEW head, NEW known, NEW k \in Seq(Tx), NEW t, NEW u \in Tx
  PROVE  /\ Stale(head, known, k, t) => Stale(head, known, Append(k, u), t)
         /\ ~Validates(t, head, known \cup Range(k)) => Stale(head, known, k, t)
<1> DEFINE a == Append(k, u)
<1>1. Len(k) \in Nat /\ Len(a) = Len(k) + 1 /\ a \in Seq(Tx) /\ \A i \in 1 .. Len(k) : a[i] = k[i]
  OBVIOUS
<1>2. ASSUME NEW m \in 0 .. Len(k) PROVE SubSeq(a, 1, m) = SubSeq(k, 1, m) /\ m \in 0 .. Len(a)
  <2>1. /\ SubSeq(a, 1, m) \in Seq(Tx) /\ SubSeq(k, 1, m) \in Seq(Tx)
        /\ Len(SubSeq(a, 1, m)) = m /\ Len(SubSeq(k, 1, m)) = m
        /\ \A i \in 1 .. m : SubSeq(a, 1, m)[i] = a[i] /\ SubSeq(k, 1, m)[i] = k[i]
    BY <1>1
  <2>2. \A i \in 1 .. m : a[i] = k[i]
    BY <1>1
  <2> HIDE DEF a
  <2>3. SubSeq(a, 1, m) = SubSeq(k, 1, m)
    BY <2>1, <2>2, SeqEqual
  <2> QED
    BY <1>1, <2>3
<1>3. SubSeq(k, 1, Len(k)) = k
  OBVIOUS
<1> HIDE DEF a
<1>4. ASSUME Stale(head, known, k, t) PROVE Stale(head, known, a, t)
  <2>1. PICK m \in 0 .. Len(k) : ~Validates(t, head, known \cup Range(SubSeq(k, 1, m)))
    BY <1>4 DEF Stale
  <2> QED
    BY <1>2, <2>1 DEF Stale
<1>5. ASSUME ~Validates(t, head, known \cup Range(k)) PROVE Stale(head, known, k, t)
  <2>1. Len(k) \in 0 .. Len(k)
    BY <1>1
  <2>2. ~Validates(t, head, known \cup Range(SubSeq(k, 1, Len(k))))
    BY <1>3, <1>5
  <2> QED
    BY <2>1, <2>2, Zenon DEF Stale
<1> QED
  BY <1>4, <1>5 DEF a

\* Each transaction given is known, or among those that are kept, or did not
\* validate when it was tried.
LEMMA RepushedKeeps ==
  ASSUME NEW head, NEW known, NEW txs \in Seq(Tx)
  PROVE  LET k == Repushed(head, known, txs)
         IN  /\ k \in Seq(Tx)
             /\ \A t \in Range(txs) : t \in known \cup Range(k) \/ Stale(head, known, k, t)
<1> DEFINE N == Len(txs)
           takes(k, t) == t \notin known \cup Range(k) /\ Validates(t, head, known \cup Range(k))
           next(k, t) == IF takes(k, t) THEN Append(k, t) ELSE k
           F == [n \in 1 .. N |-> [k \in Seq(Tx) |-> next(k, txs[n])]]
           body(g) == [n \in 0 .. N |->
                         IF n = 0 THEN <<>>
                         ELSE LET before == known \cup Range(g[n - 1])
                              IN  IF txs[n] \notin before /\ Validates(txs[n], head, before)
                                  THEN Append(g[n - 1], txs[n]) ELSE g[n - 1]]
           chosen == CHOOSE g : g = body(g)
<1>1. N \in Nat
  OBVIOUS
<1>2. ASSUME NEW n \in 1 .. N PROVE F[n] \in [Seq(Tx) -> Seq(Tx)]
  <2>1. txs[n] \in Tx
    OBVIOUS
  <2>2. ASSUME NEW k \in Seq(Tx) PROVE next(k, txs[n]) \in Seq(Tx)
    <3> HIDE DEF takes
    <3> QED
      BY <2>1
  <2>3. F[n] = [k \in Seq(Tx) |-> next(k, txs[n])]
    OBVIOUS
  <2> HIDE DEF next, F
  <2> QED
    BY <2>2, <2>3
<1>3. Steps(F, N, Seq(Tx))
  <2>1. F = [n \in 1 .. N |-> F[n]]
    OBVIOUS
  <2> HIDE DEF F
  <2> QED
    BY <1>2, <2>1 DEF Steps
<1>4. <<>> \in Seq(Tx)
  OBVIOUS
<1>5. \E g : Iterates(g, <<>>, F, N, Seq(Tx))
  <2> HIDE DEF F, N
  <2> QED
    BY <1>1, <1>3, <1>4, RecursionExists
<1>6. PICK g : Iterates(g, <<>>, F, N, Seq(Tx))
  BY <1>5
<1>7. ASSUME NEW n \in 1 .. N PROVE g[n] = next(g[n - 1], txs[n])
  <2>1. n - 1 \in 0 .. N
    OBVIOUS
  <2>2. g[n - 1] \in Seq(Tx)
    BY <1>6, <2>1 DEF Iterates
  <2>3. g[n] = F[n][g[n - 1]]
    BY <1>6 DEF Iterates
  <2> HIDE DEF next
  <2> QED
    BY <2>2, <2>3
<1>70. ASSUME NEW f, NEW n \in 0 .. N
       PROVE  body(f)[n] = IF n = 0 THEN <<>> ELSE next(f[n - 1], txs[n])
  OBVIOUS
<1>71. \A f : body(f) = [n \in 0 .. N |-> body(f)[n]]
  OBVIOUS
<1> HIDE DEF body, next
<1>8. g = body(g)
  <2>1. ASSUME NEW n \in 0 .. N PROVE g[n] = body(g)[n]
    <3>1. CASE n = 0
      BY <1>6, <1>70, <3>1 DEF Iterates
    <3>2. CASE n # 0
      BY <1>7, <1>70, <3>2
    <3> QED
      BY <3>1, <3>2
  <2>2. g = [n \in 0 .. N |-> g[n]]
    BY <1>6 DEF Iterates
  <2> QED
    BY <1>71, <2>1, <2>2
<1>9. chosen = body(chosen)
  BY <1>8
<1>10. Repushed(head, known, txs) = chosen[N]
  BY DEF Repushed, body
<1> HIDE DEF chosen
<1>11. /\ chosen[0] = <<>>
       /\ \A n \in 1 .. N : chosen[n] = next(chosen[n - 1], txs[n])
  <2>1. \A n \in 0 .. N : chosen[n] = IF n = 0 THEN <<>> ELSE next(chosen[n - 1], txs[n])
    BY <1>9, <1>70
  <2>2. 0 \in 0 .. N /\ \A n \in 1 .. N : n \in 0 .. N /\ n # 0
    BY <1>1
  <2> HIDE DEF N
  <2> QED
    BY <2>1, <2>2
<1> DEFINE ok(n, i) == txs[i] \in known \cup Range(chosen[n]) \/ Stale(head, known, chosen[n], txs[i])
           right == {n \in Nat : n <= N => chosen[n] \in Seq(Tx) /\ \A i \in 1 .. n : ok(n, i)}
<1>12. 0 \in right
  <2>1. chosen[0] \in Seq(Tx)
    BY <1>4, <1>11
  <2> HIDE DEF N, ok
  <2>2. \A i \in 1 .. 0 : ok(0, i)
    OBVIOUS
  <2> QED
    BY <2>1, <2>2
<1>13. ASSUME NEW n \in Nat, n \in right PROVE n + 1 \in right
  <2>1. CASE ~(n + 1 <= N)
    BY <2>1
  <2>2. CASE n + 1 <= N
    <3>1. n + 1 \in 1 .. N /\ (n + 1) - 1 = n /\ n <= N
      BY <2>2
    <3> DEFINE c == chosen[n]
               d == chosen[n + 1]
               t == txs[n + 1]
    <3>20. c \in Seq(Tx) /\ t \in Tx /\ \A i \in 1 .. n : ok(n, i)
      BY <1>13, <3>1
    <3>2. \A i \in 1 .. n : txs[i] \in known \cup Range(c) \/ Stale(head, known, c, txs[i])
      BY <3>20
    <3>3. d = IF takes(c, t) THEN Append(c, t) ELSE c
      BY <1>11, <3>1 DEF next
    <3>4. Append(c, t) \in Seq(Tx) /\ Range(Append(c, t)) = Range(c) \cup {t}
      BY <3>20, AppendRange
    <3> HIDE DEF c, d, t
    <3>5. d \in Seq(Tx) /\ Range(c) \subseteq Range(d)
      BY <3>20, <3>3, <3>4
    <3>6. \A x : Stale(head, known, c, x) => Stale(head, known, d, x)
      BY <3>20, <3>3, StaleStays
    <3>7. t \in known \cup Range(d) \/ Stale(head, known, d, t)
      <4>1. CASE takes(c, t)
        BY <3>3, <3>4, <4>1
      <4>2. CASE ~takes(c, t)
        <5>1. d = c
          BY <3>3, <4>2
        <5>2. t \in known \cup Range(c) \/ ~Validates(t, head, known \cup Range(c))
          BY <4>2
        <5> QED
          BY <3>20, <5>1, <5>2, StaleStays
      <4> QED
        BY <4>1, <4>2
    <3>8. ASSUME NEW i \in 1 .. n + 1 PROVE ok(n + 1, i)
      <4>1. CASE i = n + 1
        BY <3>7, <4>1 DEF t, d
      <4>2. CASE i # n + 1
        <5>1. i \in 1 .. n
          BY <4>2
        <5>2. txs[i] \in known \cup Range(d) \/ Stale(head, known, d, txs[i])
          BY <3>2, <3>5, <3>6, <5>1
        <5> QED
          BY <5>2 DEF d
      <4> QED
        BY <4>1, <4>2
    <3> HIDE DEF ok
    <3> QED
      BY <3>5, <3>8 DEF d
  <2> QED
    BY <2>1, <2>2
<1>14. N \in right
  <2> HIDE DEF right
  <2> QED
    BY <1>1, <1>12, <1>13, NatSetInduction
<1>15. chosen[N] \in Seq(Tx) /\ \A i \in 1 .. N : ok(N, i)
  BY <1>14
<1>16. \A y \in Range(txs) : \E i \in 1 .. N : y = txs[i]
  BY DEF Range
<1> HIDE DEF right
<1> QED
  BY <1>10, <1>15, <1>16

\* The chains of two blocks part somewhere below both of them.
LEMMA ForkPointExists ==
  ASSUME NEW a \in Block, NEW b \in Block
  PROVE  ForkPoint(a, b) \in 0 .. Num(a) - 1 /\ ForkPoint(a, b) \in 0 .. Num(b) - 1
<1> DEFINE low == IF Num(a) < Num(b) THEN Num(a) ELSE Num(b)
           agree(n) == SubSeq(Path[a], 1, n) = SubSeq(Path[b], 1, n)
           part(n) == n + 1 < low => Path[a][n + 1] # Path[b][n + 1]
           below == {k \in Nat : k < low /\ agree(low - 1 - k)}
<1>1. /\ Path[a] \in Seq(Block) /\ Path[b] \in Seq(Block)
      /\ Len(Path[a]) = Num(a) /\ Len(Path[b]) = Num(b)
      /\ Num(a) \in Nat \ {0} /\ Num(b) \in Nat \ {0}
  BY PathOf DEF Num
<1>2. low \in Nat \ {0} /\ low <= Num(a) /\ low <= Num(b)
  BY <1>1
<1>0. ForkPoint(a, b) = CHOOSE n \in 0 .. low - 1 : agree(n) /\ part(n)
  BY DEF ForkPoint
<1> HIDE DEF low
<1>3. below # {}
  <2>1. agree(0)
    BY <1>1
  <2>2. low - 1 \in Nat /\ low - 1 < low /\ low - 1 - (low - 1) = 0
    BY <1>2
  <2> HIDE DEF agree
  <2> QED
    BY <2>1, <2>2
<1>4. PICK k \in below : \A j \in below : k <= j
  <2>1. below \subseteq Nat
    OBVIOUS
  <2> HIDE DEF below
  <2> QED
    BY <1>3, <2>1, LeastNatural
<1> DEFINE n == low - 1 - k
<1>5. n \in 0 .. low - 1 /\ agree(n) /\ k \in Nat
  BY <1>2, <1>4
<1>6. part(n)
  <2>1. SUFFICES ASSUME n + 1 < low, Path[a][n + 1] = Path[b][n + 1] PROVE FALSE
    OBVIOUS
  <2>2. k - 1 \in Nat /\ k - 1 < low /\ low - 1 - (k - 1) = n + 1
    BY <1>2, <1>5, <2>1
  <2>3. n + 1 <= Num(a) /\ n + 1 <= Num(b) /\ n \in Nat
    BY <1>1, <1>2, <1>5, <2>1
  <2> HIDE DEF n
  <2>4. \A i \in 1 .. n : Path[a][i] = Path[b][i]
    <3>1. ASSUME NEW i \in 1 .. n PROVE Path[a][i] = Path[b][i]
      <4>1. SubSeq(Path[a], 1, n)[i] = Path[a][i] /\ SubSeq(Path[b], 1, n)[i] = Path[b][i]
        BY <1>1, <2>3
      <4> QED
        BY <1>5, <4>1
    <3> QED
      BY <3>1
  <2>5. agree(n + 1)
    <3> DEFINE s == SubSeq(Path[a], 1, n + 1)
               t == SubSeq(Path[b], 1, n + 1)
    <3>1. /\ s \in Seq(Block) /\ Len(s) = n + 1 /\ \A i \in 1 .. n + 1 : s[i] = Path[a][i]
          /\ t \in Seq(Block) /\ Len(t) = n + 1 /\ \A i \in 1 .. n + 1 : t[i] = Path[b][i]
      BY <1>1, <2>3
    <3>2. \A i \in 1 .. n + 1 : Path[a][i] = Path[b][i]
      BY <2>1, <2>3, <2>4
    <3> HIDE DEF s, t
    <3>3. s = t
      BY <3>1, <3>2, SeqEqual
    <3> QED
      BY <3>3 DEF s, t
  <2> HIDE DEF agree
  <2>6. k - 1 \in below
    BY <2>2, <2>5
  <2> QED
    BY <1>4, <1>5, <2>6
<1> HIDE DEF agree, part, n
<1>7. ForkPoint(a, b) \in 0 .. low - 1
  BY <1>0, <1>5, <1>6
<1> QED
  BY <1>1, <1>2, <1>7

\* The branch above the fork point has at least one block.
LEMMA BranchType ==
  ASSUME NEW b \in Block, NEW n \in 0 .. Num(b) - 1
  PROVE  /\ Branch(b, n) \in Seq(Block) /\ Branch(b, n) # <<>>
         /\ Branch(b, n)[1] \in Block /\ Previous(Branch(b, n)[1]) \in Blocks
<1>1. Path[b] \in Seq(Block) /\ Len(Path[b]) = Num(b) /\ Num(b) \in Nat \ {0}
  BY PathOf DEF Num
<1> DEFINE s == SubSeq(Path[b], n + 1, Num(b))
<1>2. s \in Seq(Block) /\ Len(s) = Num(b) - n
  BY <1>1
<1>3. 1 \in 1 .. Len(s) /\ s # <<>>
  BY <1>1, <1>2
<1>4. s = Branch(b, n)
  BY DEF Branch
<1> HIDE DEF s
<1>5. s[1] \in Block
  BY <1>2, <1>3
<1> QED
  BY <1>2, <1>3, <1>4, <1>5, PathOf

-----------------------------------------------------------------------------
(* The fork database.                                                        *)

\* Only an item with a block has a link.
ForkRight(f) == f \in ForkRecord /\ (f.headLinked => f.head \in Block)

LEMMA ForkPushRight ==
  ASSUME NEW f, ForkRight(f), NEW b \in Block
  PROVE  ForkRight(ForkPush(f, b)) /\ ForkPush(f, b).head \in Block
<1>1. f.head = Genesis \/ f.head \in Block
  BY DEF ForkRight, ForkRecord, Blocks
<1> QED
  BY <1>1 DEF ForkRight, ForkRecord, ForkPush, Blocks

LEMMA SetHeadRight ==
  ASSUME NEW f, ForkRight(f), NEW b \in Blocks
  PROVE  ForkRight(SetHead(f, b))
<1> DEFINE l == b \in f.linked
<1>1. f \in ForkRecord /\ l \in BOOLEAN /\ (l => b \in Block)
  BY DEF ForkRight, ForkRecord
<1> HIDE DEF l
<1> DEFINE r == [f EXCEPT !.head = b, !.headLinked = l]
<1>2. r \in ForkRecord /\ r.head = b /\ r.headLinked = l
  BY <1>1 DEF ForkRecord
<1>3. SetHead(f, b) = r
  BY DEF SetHead, l
<1> HIDE DEF r
<1> QED
  BY <1>1, <1>2, <1>3 DEF ForkRight

LEMMA ForkRemoveRight ==
  ASSUME NEW f, ForkRight(f), NEW S
  PROVE  ForkRight(ForkRemove(f, S))
  BY DEF ForkRight, ForkRecord, ForkRemove

LEMMA DropDeadLinksRight ==
  ASSUME NEW f, ForkRight(f), NEW S
  PROVE  ForkRight(DropDeadLinks(f, S))
  BY DEF ForkRight, ForkRecord, DropDeadLinks

LEMMA TrimmedRight ==
  ASSUME NEW f, ForkRight(f), NEW s \in StateRecord
  PROVE  ForkRight(Trimmed(f, s))
<1>1. s.head \in Blocks /\ s.lib \in Nat
  BY DEF StateRecord, Blocks
<1>2. Num(s.head) - s.lib + 1 \in Int
  BY <1>1, NumOf
<1> DEFINE size == Num(s.head) - s.lib + 1
<1> HIDE DEF size
<1>3. ForkRight(SetMaxSize(f, size))
  BY <1>2 DEF ForkRight, ForkRecord, SetMaxSize, size
<1> QED
  BY <1>3, DropDeadLinksRight DEF Trimmed, size

LEMMA EmptyForkRight == ForkRight(EmptyFork(FORK_DB_SIZE))
<1>1. FORK_DB_SIZE \in Int
  BY BoundAssumption
<1> QED
  BY <1>1, PathOfGenesis DEF ForkRight, ForkRecord, EmptyFork

LEMMA StartBlockRight ==
  ASSUME NEW f, ForkRight(f), NEW b \in Block
  PROVE  ForkRight(StartBlock(f, b))
  BY DEF ForkRight, ForkRecord, StartBlock, Blocks

\* What the main branch holds at a number above zero is a block, if anything.
LEMMA FetchMainBranchBlockType ==
  ASSUME NEW f, ForkRight(f), NEW n \in Nat \ {0}
  PROVE  FetchMainBranchBlock(f, n) \in Blocks
<1>1. f.head \in Blocks /\ f.index \subseteq Block
  BY DEF ForkRight, ForkRecord
<1>2. WalkMainBranch(f, n) \in Blocks
  <2>1. Path[f.head] \in Seq(Block) /\ Len(Path[f.head]) = Num(f.head) /\ Num(f.head) \in Nat
    BY <1>1, NumOf DEF Num
  <2>2. ASSUME ~(n > Num(f.head)) PROVE Path[f.head][n] \in Block
    BY <2>1, <2>2
  <2> QED
    BY <1>1, <2>1, <2>2, PathOfGenesis DEF WalkMainBranch, Blocks
<1>3. ASSUME BlocksAt(f, n) # {}, Cardinality(BlocksAt(f, n)) = 1
      PROVE (CHOOSE b \in BlocksAt(f, n) : TRUE) \in Block
  BY <1>1, <1>3 DEF BlocksAt
<1> QED
  BY <1>2, <1>3, PathOfGenesis DEF FetchMainBranchBlock, Blocks

-----------------------------------------------------------------------------
(* The undo stack: one state per block, and each state knows the             *)
(* transactions of the one below it and those of its block.                  *)

Chained(c) ==
  /\ Len(c.stack) <= Num(c.top.head)
  /\ \A i \in 1 .. Len(c.stack) :
       c.stack[i].head = Ancestor(c.top.head, Num(c.top.head) - Len(c.stack) + i - 1)

KnownGrows(c) ==
  \A i \in 1 .. Len(c.stack) :
    StateAt(c, i + 1).known \subseteq c.stack[i].known \cup Range(Txs[StateAt(c, i + 1).head])

StackRight(c) == c \in Contents /\ Chained(c) /\ KnownGrows(c)

LEMMA ContentsFacts ==
  ASSUME NEW c \in Contents
  PROVE  /\ c.stack \in Seq(StateRecord) /\ c.top \in StateRecord /\ c.revision \in Int
         /\ Len(c.stack) \in Nat /\ c.top.head \in Blocks /\ Num(c.top.head) \in Nat
         /\ \A i \in 1 .. Len(c.stack) : c.stack[i] \in StateRecord /\ c.stack[i].head \in Blocks
<1>1. c.stack \in Seq(StateRecord) /\ c.top \in StateRecord /\ c.revision \in Int
  BY DEF Contents
<1>2. c.top.head \in Blocks
  BY <1>1 DEF StateRecord, Blocks
<1>3. ASSUME NEW i \in 1 .. Len(c.stack) PROVE c.stack[i] \in StateRecord /\ c.stack[i].head \in Blocks
  <2>1. c.stack[i] \in StateRecord
    BY <1>1
  <2> QED
    BY <2>1 DEF StateRecord, Blocks
<1> QED
  BY <1>1, <1>2, <1>3, NumOf

LEMMA EmptyStackRight ==
  ASSUME NEW c \in Contents, c.stack = <<>>
  PROVE  StackRight(c)
<1>1. Len(c.stack) = 0
  OBVIOUS
<1>2. 0 <= Num(c.top.head)
  BY ContentsFacts
<1> QED
  BY <1>1, <1>2 DEF StackRight, Chained, KnownGrows

\* undo takes back one block, and no more than the transactions of that block.
LEMMA UndoSessionRight ==
  ASSUME NEW c, StackRight(c)
  PROVE  /\ StackRight(UndoSession(c))
         /\ c.top.known \subseteq UndoSession(c).top.known \cup Range(Txs[c.top.head])
         /\ c.stack # <<>> => /\ Num(c.top.head) > 0
                              /\ UndoSession(c).top.head = Ancestor(c.top.head, Num(c.top.head) - 1)
                              /\ Num(UndoSession(c).top.head) = Num(c.top.head) - 1
<1>0. c \in Contents /\ Chained(c) /\ KnownGrows(c)
  BY DEF StackRight
<1>1. CASE c.stack = <<>>
  <2>1. UndoSession(c) = c
    BY <1>0, <1>1, UndoSessionType
  <2> QED
    BY <1>1, <2>1
<1>2. CASE c.stack # <<>>
  <2> DEFINE u == UndoSession(c)
             N == Len(c.stack)
             h == c.top.head
  <2>1. /\ u \in Contents /\ N \in Nat \ {0} /\ u.top = c.stack[N] /\ Len(u.stack) = N - 1
        /\ \A i \in 1 .. N - 1 : u.stack[i] = c.stack[i]
    BY <1>0, <1>2, UndoSessionType
  <2>2. h \in Blocks /\ Num(h) \in Nat /\ N <= Num(h)
        /\ \A i \in 1 .. N : c.stack[i].head = Ancestor(h, Num(h) - N + i - 1)
    BY <1>0, ContentsFacts DEF Chained
  <2>8. \A i \in 1 .. N : StateAt(c, i + 1).known \subseteq c.stack[i].known \cup Range(Txs[StateAt(c, i + 1).head])
    BY <1>0 DEF KnownGrows
  <2> HIDE DEF u
  <2>9. StateAt(c, N + 1) = c.top
    BY <2>1 DEF StateAt
  <2>10. \A i \in 1 .. N - 1 : StateAt(u, i + 1) = StateAt(c, i + 1)
    <3>1. ASSUME NEW i \in 1 .. N - 1 PROVE StateAt(u, i + 1) = StateAt(c, i + 1)
      <4>1. CASE i = N - 1
        BY <2>1, <4>1 DEF StateAt
      <4>2. CASE i # N - 1
        BY <2>1, <4>2 DEF StateAt
      <4> QED
        BY <4>1, <4>2
    <3> QED
      BY <3>1
  <2> HIDE DEF N, h
  <2>3. u.top.head = Ancestor(h, Num(h) - 1) /\ Num(h) > 0 /\ Num(h) - 1 \in 0 .. Num(h)
    <3>1. N \in 1 .. N /\ Num(h) - N + N - 1 = Num(h) - 1
      BY <2>1, <2>2
    <3> QED
      BY <2>1, <2>2, <3>1
  <2>4. Num(u.top.head) = Num(h) - 1
    BY <2>2, <2>3, PathOfAncestor
  <2>5. ASSUME NEW i \in 1 .. N - 1
        PROVE u.stack[i].head = Ancestor(u.top.head, Num(u.top.head) - Len(u.stack) + i - 1)
    <3>1. i \in 1 .. N /\ Num(h) - N + i - 1 \in 0 .. Num(h) - 1
          /\ Num(u.top.head) - Len(u.stack) + i - 1 = Num(h) - N + i - 1
      <4>1. ASSUME NEW m \in Nat, NEW k \in Nat \ {0}, k <= m, i \in 1 .. k - 1
            PROVE  i \in 1 .. k /\ m - k + i - 1 \in 0 .. m - 1 /\ (m - 1) - (k - 1) + i - 1 = m - k + i - 1
        BY <4>1
      <4>2. i \in 1 .. N /\ Num(h) - N + i - 1 \in 0 .. Num(h) - 1
            /\ (Num(h) - 1) - (N - 1) + i - 1 = Num(h) - N + i - 1
        BY ONLY <2>1, <2>2, <4>1, i \in 1 .. N - 1
      <4> QED
        BY <2>1, <2>4, <4>2
    <3>2. Ancestor(u.top.head, Num(h) - N + i - 1) = Ancestor(h, Num(h) - N + i - 1)
      BY <2>2, <2>3, <3>1, AncestorOfAncestor
    <3> QED
      BY <2>1, <2>2, <3>1, <3>2
  <2>6. Chained(u)
    BY <2>1, <2>2, <2>4, <2>5 DEF Chained
  <2>7. KnownGrows(u)
    <3>1. ASSUME NEW i \in 1 .. N - 1
          PROVE StateAt(u, i + 1).known \subseteq u.stack[i].known \cup Range(Txs[StateAt(u, i + 1).head])
      <4>1. i \in 1 .. N /\ u.stack[i] = c.stack[i] /\ StateAt(u, i + 1) = StateAt(c, i + 1)
        BY <2>1, <2>10
      <4> QED
        BY <2>8, <4>1
    <3> QED
      BY <2>1, <3>1 DEF KnownGrows
  <2>11. c.top.known \subseteq u.top.known \cup Range(Txs[h])
    <3>1. N \in 1 .. N
      BY <2>1
    <3> QED
      BY <2>1, <2>8, <2>9, <3>1 DEF h
  <2> QED
    BY <2>1, <2>3, <2>4, <2>6, <2>7, <2>11 DEF StackRight, h, u
<1> QED
  BY <1>1, <1>2

\* A block on top of the head.
LEMMA StartSessionRight ==
  ASSUME NEW c, StackRight(c), NEW s \in StateRecord, NEW b \in Block, s.head = b,
         Previous(b) = c.top.head, s.known \subseteq c.top.known \cup Range(Txs[b])
  PROVE  StackRight([StartSession(c) EXCEPT !.top = s])
<1> DEFINE d == [StartSession(c) EXCEPT !.top = s]
           N == Len(c.stack)
           h == c.top.head
<1>0. c \in Contents /\ Chained(c) /\ KnownGrows(c)
  BY DEF StackRight
<1>1. /\ d \in Contents /\ d.top = s /\ Len(d.stack) = N + 1 /\ N \in Nat /\ d.stack[N + 1] = c.top
      /\ \A i \in 1 .. N : d.stack[i] = c.stack[i]
  BY <1>0, StartSessionType
<1>2. h \in Blocks /\ Num(h) \in Nat /\ N <= Num(h)
      /\ \A i \in 1 .. N : c.stack[i].head = Ancestor(h, Num(h) - N + i - 1)
  BY <1>0, ContentsFacts DEF Chained
<1>3. \A i \in 1 .. N : StateAt(c, i + 1).known \subseteq c.stack[i].known \cup Range(Txs[StateAt(c, i + 1).head])
  BY <1>0 DEF KnownGrows
<1>4. StateAt(d, N + 2) = s /\ \A i \in 1 .. N : StateAt(d, i + 1) = StateAt(c, i + 1)
  <2> HIDE DEF d
  <2>1. ASSUME NEW i \in 1 .. N PROVE StateAt(d, i + 1) = StateAt(c, i + 1)
    <3>1. CASE i = N
      BY <1>1, <3>1 DEF StateAt
    <3>2. CASE i # N
      <4>1. i + 1 \in 1 .. N /\ i + 1 <= N + 1 /\ i + 1 <= N
        BY <1>1, <3>2
      <4> QED
        BY <1>1, <4>1 DEF StateAt
    <3> QED
      BY <3>1, <3>2
  <2> QED
    BY <1>1, <2>1 DEF StateAt
<1> HIDE DEF d, N, h
<1>5. b \in Blocks /\ Num(b) = Num(h) + 1 /\ h = Ancestor(b, Num(h))
  <2>1. Num(Previous(b)) = Num(b) - 1 /\ Previous(b) = Ancestor(b, Num(b) - 1) /\ Num(b) \in Nat
    BY PathOf
  <2>2. Num(b) = Num(h) + 1 /\ Num(b) - 1 = Num(h)
    BY <1>2, <2>1 DEF h
  <2> QED
    BY <2>1, <2>2 DEF h, Blocks
<1>6. ASSUME NEW i \in 1 .. N + 1
      PROVE d.stack[i].head = Ancestor(b, Num(b) - (N + 1) + i - 1)
  <2>1. Num(b) - (N + 1) + i - 1 = Num(h) - N + i - 1
    BY <1>1, <1>2, <1>5
  <2>2. CASE i = N + 1
    <3>1. Num(h) - N + i - 1 = Num(h)
      BY <1>1, <1>2, <2>2
    <3> QED
      BY <1>1, <1>5, <2>1, <2>2, <3>1 DEF h
  <2>3. CASE i # N + 1
    <3>1. i \in 1 .. N /\ Num(h) - N + i - 1 \in 0 .. Num(h) /\ Num(h) \in 0 .. Num(b)
      BY <1>1, <1>2, <1>5, <2>3
    <3>2. Ancestor(h, Num(h) - N + i - 1) = Ancestor(b, Num(h) - N + i - 1)
      BY <1>5, <3>1, AncestorOfAncestor
    <3> QED
      BY <1>1, <1>2, <2>1, <3>1, <3>2
  <2> QED
    BY <2>2, <2>3
<1>7. Chained(d)
  <2>1. N + 1 <= Num(b) /\ d.top.head = b
    BY <1>1, <1>2, <1>5
  <2> QED
    BY <1>1, <1>6, <2>1 DEF Chained
<1>8. KnownGrows(d)
  <2>1. ASSUME NEW i \in 1 .. N + 1
        PROVE StateAt(d, i + 1).known \subseteq d.stack[i].known \cup Range(Txs[StateAt(d, i + 1).head])
    <3>1. CASE i = N + 1
      <4>1. StateAt(d, i + 1) = s /\ d.stack[i] = c.top
        BY <1>1, <1>4, <3>1
      <4> QED
        BY <4>1
    <3>2. CASE i # N + 1
      <4>1. i \in 1 .. N
        BY <1>1, <3>2
      <4> QED
        BY <1>1, <1>3, <1>4, <4>1
    <3> QED
      BY <3>1, <3>2
  <2> QED
    BY <1>1, <2>1 DEF KnownGrows
<1> QED
  BY <1>1, <1>7, <1>8 DEF StackRight, d

LEMMA CommitToRight ==
  ASSUME NEW c, StackRight(c), NEW r \in Nat
  PROVE  StackRight(CommitTo(c, r))
<1> DEFINE d == CommitTo(c, r)
           N == Len(c.stack)
           h == c.top.head
<1>0. c \in Contents /\ Chained(c) /\ KnownGrows(c)
  BY DEF StackRight
<1>1. d \in Contents /\ d.top = c.top
  BY <1>0, CommitToType
<1>2. PICK k \in 0 .. N : Len(d.stack) = N - k /\ \A i \in 1 .. N - k : d.stack[i] = c.stack[i + k]
  BY <1>0, CommitToType
<1>3. h \in Blocks /\ Num(h) \in Nat /\ N <= Num(h) /\ N \in Nat
      /\ \A i \in 1 .. N : c.stack[i].head = Ancestor(h, Num(h) - N + i - 1)
  BY <1>0, ContentsFacts DEF Chained
<1>4. \A i \in 1 .. N : StateAt(c, i + 1).known \subseteq c.stack[i].known \cup Range(Txs[StateAt(c, i + 1).head])
  BY <1>0 DEF KnownGrows
<1>5. ASSUME NEW i \in 1 .. N - k PROVE StateAt(d, i + 1) = StateAt(c, (i + k) + 1)
  <2> HIDE DEF d
  <2>1. CASE i = N - k
    BY <1>1, <1>2, <1>3, <2>1 DEF StateAt
  <2>2. CASE i # N - k
    <3>1. i + 1 \in 1 .. N - k /\ (i + 1) + k = (i + k) + 1 /\ i + 1 <= Len(d.stack) /\ (i + k) + 1 <= N
      BY <1>2, <1>3, <2>2
    <3> QED
      BY <1>2, <3>1 DEF StateAt
  <2> QED
    BY <2>1, <2>2
<1> HIDE DEF d, N, h
<1>6. ASSUME NEW i \in 1 .. N - k PROVE d.stack[i].head = Ancestor(h, Num(h) - (N - k) + i - 1)
  <2>1. i + k \in 1 .. N /\ Num(h) - (N - k) + i - 1 = Num(h) - N + (i + k) - 1
    BY <1>3
  <2> QED
    BY <1>2, <1>3, <2>1
<1>7. Chained(d)
  BY <1>1, <1>2, <1>3, <1>6 DEF Chained, h
<1>8. KnownGrows(d)
  <2>1. ASSUME NEW i \in 1 .. N - k
        PROVE StateAt(d, i + 1).known \subseteq d.stack[i].known \cup Range(Txs[StateAt(d, i + 1).head])
    <3>1. i + k \in 1 .. N
      BY <1>3
    <3> QED
      BY <1>2, <1>4, <1>5, <3>1
  <2> QED
    BY <1>2, <2>1 DEF KnownGrows
<1> QED
  BY <1>1, <1>7, <1>8 DEF StackRight, d

\* The stack and what is at its top are all that counts.
LEMMA SameStackRight ==
  ASSUME NEW c, StackRight(c), NEW d \in Contents, d.stack = c.stack,
         d.top.head = c.top.head, d.top.known = c.top.known
  PROVE  StackRight(d)
<1>1. c \in Contents /\ Chained(c) /\ KnownGrows(c)
  BY DEF StackRight
<1>2. Chained(d)
  BY <1>1 DEF Chained
<1>3. ASSUME NEW i \in 1 .. Len(c.stack)
      PROVE  StateAt(d, i + 1).known = StateAt(c, i + 1).known /\ StateAt(d, i + 1).head = StateAt(c, i + 1).head
  BY DEF StateAt
<1>4. KnownGrows(d)
  BY <1>1, <1>3 DEF KnownGrows
<1> QED
  BY <1>2, <1>4 DEF StackRight

-----------------------------------------------------------------------------
(* The states push_block leaves behind.                                      *)

JobRecord == [mode : {"none", "direct", "switch", "restore"},
              block : Block \cup {Genesis}, todo : Seq(Block),
              first : Seq(Block), second : Seq(Block), target : Block \cup {Genesis}]

\* While a call is under way there is a block to apply.
JobRight ==
  /\ job \in JobRecord
  /\ step \in {"pop", "begin", "log", "tasks"} => job.todo # <<>> /\ job.mode # "none"
  /\ job.mode = "switch" => job.second # <<>>

\* The pending session is open only between calls, on the state of a block, and
\* holds pending transactions.
SessionRight ==
  session => /\ step = "idle" /\ cb.stack # <<>>
             /\ cb.top.head = UndoSession(cb).top.head
             /\ cb.top.known \subseteq UndoSession(cb).top.known \cup Range(pending)

CallRight ==
  /\ cb \in Contents /\ ForkRight(fork) /\ JobRight
  /\ step \in {"idle", "pop", "begin", "log", "tasks", "down"}
  /\ pending \in Seq(Tx) /\ popped \in Seq(Tx) /\ session \in BOOLEAN
  /\ step # "down" => StackRight(ClearPending)
  /\ SessionRight
  /\ step \in {"log", "tasks"} => cb.top.head = Head(job.todo)

LogRight ==
  log \in [blocks : Seq(Block), flushed : Nat] /\ log.flushed <= Len(log.blocks)

\* A session that only adds transactions is taken back without a trace.
LEMMA SessionTakenBack ==
  ASSUME NEW c \in Contents, NEW T \in SUBSET Tx
  PROVE  LET d == [StartSession(c) EXCEPT !.top.known = @ \cup T]
         IN  /\ d \in Contents /\ UndoSession(d) = c /\ d.stack # <<>>
             /\ d.top.head = c.top.head /\ d.top.known = c.top.known \cup T
<1> DEFINE e == StartSession(c)
           d == [e EXCEPT !.top.known = @ \cup T]
           N == Len(c.stack)
<1>0. c.stack \in Seq(StateRecord) /\ c.revision \in Int /\ c.top \in StateRecord
      /\ c = [top |-> c.top, stack |-> c.stack, revision |-> c.revision]
  BY DEF Contents
<1>1. /\ e \in Contents /\ e.top = c.top /\ Len(e.stack) = N + 1 /\ N \in Nat
      /\ e.stack[N + 1] = c.top /\ e.revision = c.revision + 1
      /\ \A i \in 1 .. N : e.stack[i] = c.stack[i]
  <2> DEFINE o == [StartSession(c) EXCEPT !.top = c.top]
  <2>1. /\ StartSession(c) \in Contents /\ StartSession(c).top = c.top
        /\ StartSession(c).stack = o.stack /\ StartSession(c).revision = c.revision + 1
        /\ Len(o.stack) = Len(c.stack) + 1 /\ Len(c.stack) \in Nat
        /\ o.stack[Len(c.stack) + 1] = c.top
        /\ \A i \in 1 .. Len(c.stack) : o.stack[i] = c.stack[i]
    BY <1>0, StartSessionType
  <2> HIDE DEF o
  <2> QED
    BY <2>1
<1> HIDE DEF e
<1>2. /\ d \in Contents /\ d.stack = e.stack /\ d.revision = e.revision
      /\ d.top.head = e.top.head /\ d.top.known = e.top.known \cup T
  BY <1>1, KnowsType
<1> HIDE DEF d
<1>3. d.stack # <<>>
  BY <1>1, <1>2
<1> DEFINE u == UndoSession(d)
<1>4. /\ u \in Contents /\ u.top = d.stack[Len(d.stack)] /\ Len(u.stack) = Len(d.stack) - 1
      /\ \A i \in 1 .. Len(d.stack) - 1 : u.stack[i] = d.stack[i]
      /\ u.revision = d.revision - 1
  BY <1>2, <1>3, UndoSessionType
<1> HIDE DEF u
<1>5. u.stack = c.stack
  <2>1. u.stack \in Seq(StateRecord) /\ Len(u.stack) = N
    BY <1>1, <1>2, <1>4 DEF Contents
  <2>2. \A i \in 1 .. N : u.stack[i] = c.stack[i]
    BY <1>1, <1>2, <1>4
  <2> HIDE DEF N
  <2> QED
    BY <1>0, <2>1, <2>2, SeqEqual DEF N
<1>6. u.top = c.top /\ u.revision = c.revision
  BY <1>0, <1>1, <1>2, <1>4
<1>7. u = [top |-> u.top, stack |-> u.stack, revision |-> u.revision]
  BY <1>4 DEF Contents
<1>8. u = c
  BY <1>0, <1>5, <1>6, <1>7
<1> QED
  BY <1>1, <1>2, <1>3, <1>8 DEF d, e, u

\* clear_pending forgets nothing but what is pending.
LEMMA ClearPendingKeeps ==
  ASSUME CallRight, step # "down"
  PROVE  /\ StackRight(ClearPending)
         /\ ClearPending.top.head = cb.top.head
         /\ Accepted \subseteq ClearPending.top.known \cup Range(pending) \cup Range(popped)
<1>1. CASE session
  BY <1>1 DEF CallRight, SessionRight, ClearPending, Accepted
<1>2. CASE ~session
  BY <1>2 DEF CallRight, ClearPending, Accepted
<1> QED
  BY <1>1, <1>2

NothingLost(c) ==
  \A t \in c.top.known \cup Range(popped) \cup Range(pending) :
     t \in Accepted' \/ (step' = "idle" /\ DoesNotApply(t)')

LEMMA LeaveRight ==
  ASSUME NEW c, StackRight(c), NEW f, ForkRight(f), NEW x,
         pending \in Seq(Tx), popped \in Seq(Tx), Leave(c, f, popped, x)
  PROVE  CallRight' /\ ClearPending' = c /\ NothingLost(c) /\ step' = "idle"
<1> DEFINE all == popped \o pending
           kept == Repushed(c.top.head, c.top.known, all)
           tried == ~(Range(all) \subseteq c.top.known)
<1>0. c \in Contents
  BY DEF StackRight
<1>1. all \in Seq(Tx) /\ Range(all) = Range(popped) \cup Range(pending)
  BY ConcatRange
<1>2. /\ kept \in Seq(Tx)
      /\ \A t \in Range(all) : t \in c.top.known \cup Range(kept) \/ Stale(c.top.head, c.top.known, kept, t)
  <2> HIDE DEF all
  <2> QED
    BY <1>1, RepushedKeeps
<1>3. /\ step' = "idle" /\ job' = NoJob /\ fork' = DropDeadLinks(f, {}) /\ popped' = <<>>
      /\ pending' = kept /\ session' = tried
      /\ cb' = IF tried THEN [StartSession(c) EXCEPT !.top.known = @ \cup Range(kept)] ELSE c
  BY DEF Leave, RestorePending
<1> HIDE DEF kept, all
<1>4. Range(kept) \in SUBSET Tx
  BY <1>2, RangeIn
<1>5. ForkRight(fork')
  BY <1>3, DropDeadLinksRight
<1>6. JobRight'
  BY <1>3 DEF JobRight, JobRecord, NoJob
<1>7. /\ cb' \in Contents /\ ClearPending' = c /\ SessionRight' /\ cb'.top.head = c.top.head
      /\ c.top.known \subseteq cb'.top.known
  <2>1. CASE ~tried
    <3>1. session' = FALSE /\ cb' = c
      BY <1>3, <2>1
    <3> QED
      BY <1>0, <3>1 DEF ClearPending, SessionRight
  <2>2. CASE tried
    <3> DEFINE d == [StartSession(c) EXCEPT !.top.known = @ \cup Range(kept)]
    <3>1. /\ d \in Contents /\ UndoSession(d) = c /\ d.stack # <<>>
          /\ d.top.head = c.top.head /\ d.top.known = c.top.known \cup Range(kept)
      BY <1>0, <1>4, SessionTakenBack
    <3> HIDE DEF d
    <3>2. session' = TRUE /\ cb' = d
      BY <1>3, <2>2 DEF d
    <3> QED
      BY <1>3, <3>1, <3>2 DEF ClearPending, SessionRight
  <2> QED
    BY <2>1, <2>2
<1>8. popped' \in Seq(Tx) /\ session' \in BOOLEAN /\ pending' \in Seq(Tx)
  BY <1>2, <1>3
<1>9. CallRight'
  BY <1>3, <1>5, <1>6, <1>7, <1>8 DEF CallRight
<1>10. NothingLost(c)
  <2>1. ASSUME NEW t \in c.top.known PROVE t \in Accepted'
    BY <1>7 DEF Accepted
  <2>2. ASSUME NEW t \in Range(all) PROVE t \in Accepted' \/ DoesNotApply(t)'
    <3>1. CASE t \in c.top.known
      BY <2>1, <3>1
    <3>2. CASE t \in Range(kept)
      BY <1>3, <3>2 DEF Accepted
    <3>3. CASE Stale(c.top.head, c.top.known, kept, t)
      <4>1. PICK m \in 0 .. Len(kept) :
              ~Validates(t, c.top.head, c.top.known \cup Range(SubSeq(kept, 1, m)))
        BY <3>3 DEF Stale
      <4> QED
        BY <1>3, <1>7, <4>1 DEF DoesNotApply
    <3> QED
      BY <1>2, <3>1, <3>2, <3>3
  <2> QED
    BY <1>1, <1>3, <2>1, <2>2 DEF NothingLost
<1> QED
  BY <1>3, <1>7, <1>9, <1>10

LEMMA LastIn ==
  ASSUME NEW S, NEW s \in Seq(S), s # <<>>
  PROVE  Last(s) \in S /\ Head(s) \in S /\ Tail(s) \in Seq(S) /\ Len(s) \in Nat \ {0}
         /\ Len(Tail(s)) = Len(s) - 1 /\ Last(s) = s[Len(s)]
<1>1. Len(s) \in Nat \ {0}
  BY EmptySeq
<1>2. s[Len(s)] \in S
  BY <1>1
<1> QED
  BY <1>1, <1>2 DEF Last

\* However apply_block fails, the chain is that of c and nothing else is lost.
LEMMA ApplyFailsRight ==
  ASSUME NEW c, StackRight(c), CallRight, step \in {"begin", "log", "tasks"}, ApplyFails(c)
  PROVE  CallRight' /\ ClearPending' = c /\ NothingLost(c)
         /\ step' \in {"idle", "pop", "begin"}
<1>0. /\ pending \in Seq(Tx) /\ popped \in Seq(Tx) /\ ForkRight(fork) /\ session = FALSE
      /\ job \in JobRecord /\ c \in Contents
      /\ job.todo # <<>> /\ job.mode # "none" /\ (job.mode = "switch" => job.second # <<>>)
  BY DEF CallRight, SessionRight, JobRight, StackRight
<1>1. CASE job.mode = "direct"
  <2>1. Leave(c, ForkRemove(fork, {job.block}), popped, TRUE)
    BY <1>1 DEF ApplyFails
  <2>2. ForkRight(ForkRemove(fork, {job.block}))
    BY <1>0, ForkRemoveRight
  <2> QED
    BY <1>0, <2>1, <2>2, LeaveRight
<1>2. CASE job.mode = "restore"
  <2>1. Leave(c, fork, popped, TRUE)
    BY <1>2 DEF ApplyFails
  <2> QED
    BY <1>0, <2>1, LeaveRight
<1>3. CASE job.mode = "switch"
  <2>1. /\ fork' = SetHead(ForkRemove(fork, Range(job.todo)), Last(job.second))
        /\ cb' = c
        /\ job' = [job EXCEPT !.mode = "restore", !.todo = job.second]
        /\ step' = IF c.top.head = job.target THEN "begin" ELSE "pop"
        /\ UNCHANGED <<pending, session, popped, threw>>
    BY <1>3 DEF ApplyFails
  <2>2. job.second \in Seq(Block) /\ job.second # <<>>
    BY <1>0, <1>3 DEF JobRecord
  <2>3. Last(job.second) \in Blocks
    BY <2>2, LastIn DEF Blocks
  <2>4. ForkRight(ForkRemove(fork, Range(job.todo)))
    BY <1>0, ForkRemoveRight
  <2>5. ForkRight(fork')
    BY <2>1, <2>3, <2>4, SetHeadRight
  <2>6. job' \in JobRecord /\ job'.mode = "restore" /\ job'.todo # <<>>
    BY <1>0, <2>1, <2>2 DEF JobRecord
  <2>7. JobRight'
    BY <2>6 DEF JobRight
  <2>8. SessionRight' /\ ClearPending' = c /\ step' \in {"begin", "pop"}
    BY <1>0, <2>1 DEF SessionRight, ClearPending
  <2>9. CallRight'
    BY <1>0, <2>1, <2>5, <2>7, <2>8 DEF CallRight
  <2>10. NothingLost(c)
    BY <2>1 DEF NothingLost, Accepted
  <2> QED
    BY <2>8, <2>9, <2>10
<1> QED
  BY <1>0, <1>1, <1>2, <1>3 DEF JobRecord

-----------------------------------------------------------------------------
(* Each action of push_block and push_transaction.                           *)

\* What a step does to the chain below the pending session: nothing, a block
\* taken back, a block complete, or a block applied and the old states committed.
Moves ==
  LET c == ClearPending
  IN  \/ /\ reported' = reported
         /\ ClearPending' \in {c, UndoSession(c), [c EXCEPT !.top.whole = TRUE]}
      \/ \E b \in Block :
           LET s == HeadMoved(c.top, b)
           IN  /\ CanApply(c.top, b)
               /\ ClearPending' = CommitTo([StartSession(c) EXCEPT !.top = s], s.lib)
               /\ reported' = IF s.lib > Num(reported) THEN Path[b][s.lib] ELSE reported

LosesNothing ==
  step # "down" /\ step' # "down" =>
    \A t \in Accepted \ Accepted' :
       \/ step \in {"log", "tasks"} /\ t \in Range(Txs[Head(job.todo)])
       \/ step' = "idle" /\ DoesNotApply(t)'

Good == CallRight' /\ Moves /\ LosesNothing

LEMMA LeaveGood ==
  ASSUME CallRight, step # "down", NEW f, ForkRight(f), NEW x,
         Leave(ClearPending, f, popped, x), reported' = reported
  PROVE  Good
<1>1. StackRight(ClearPending) /\ Accepted \subseteq ClearPending.top.known \cup Range(pending) \cup Range(popped)
  BY ClearPendingKeeps
<1>2. pending \in Seq(Tx) /\ popped \in Seq(Tx)
  BY DEF CallRight
<1>3. CallRight' /\ ClearPending' = ClearPending /\ NothingLost(ClearPending)
  BY <1>1, <1>2, LeaveRight
<1>5. LosesNothing
  BY <1>1, <1>3 DEF NothingLost, LosesNothing
<1>6. Moves
  BY <1>3 DEF Moves
<1> QED
  BY <1>3, <1>5, <1>6 DEF Good

LEMMA PushRefusedGood ==
  ASSUME CallRight, NEW b \in Block, PushRefused(b)
  PROVE  Good
<1>1. step # "down" /\ Leave(ClearPending, fork, popped, TRUE) /\ reported' = reported
  BY DEF PushRefused
<1>2. ForkRight(fork)
  BY DEF CallRight
<1> QED
  BY <1>1, <1>2, LeaveGood

LEMMA PushStoredGood ==
  ASSUME CallRight, NEW b \in Block, PushStored(b)
  PROVE  Good
<1>1. step # "down" /\ Leave(ClearPending, ForkPush(fork, b), popped, FALSE) /\ reported' = reported
  BY DEF PushStored
<1>2. ForkRight(ForkPush(fork, b))
  BY ForkPushRight DEF CallRight
<1> QED
  BY <1>1, <1>2, LeaveGood

\* The session is cleared and a call begins.
LEMMA CallBegins ==
  ASSUME CallRight, step # "down", ForkRight(fork'), JobRight', step' \in {"pop", "begin"},
         cb' = ClearPending, session' = FALSE, reported' = reported,
         UNCHANGED <<pending, popped>>
  PROVE  Good
<1>1. /\ StackRight(ClearPending)
      /\ Accepted \subseteq ClearPending.top.known \cup Range(pending) \cup Range(popped)
  BY ClearPendingKeeps
<1>2. ClearPending' = ClearPending /\ SessionRight'
  BY DEF ClearPending, SessionRight
<1>3. CallRight'
  BY <1>1, <1>2 DEF CallRight, StackRight
<1>4. Accepted \subseteq Accepted'
  BY <1>1 DEF Accepted
<1> QED
  BY <1>2, <1>3, <1>4 DEF Good, Moves, LosesNothing

LEMMA PushOnHeadGood ==
  ASSUME CallRight, NEW b \in Block, PushOnHead(b)
  PROVE  Good
<1>1. /\ step = "idle" /\ step' = "begin" /\ fork' = ForkPush(fork, b) /\ cb' = ClearPending
      /\ session' = FALSE /\ reported' = reported /\ UNCHANGED <<pending, popped>>
      /\ job' = [NoJob EXCEPT !.mode = "direct", !.block = b, !.todo = <<b>>]
  BY DEF PushOnHead
<1>2. ForkRight(fork')
  BY <1>1, ForkPushRight DEF CallRight
<1> DEFINE t == <<b>>
<1>3. t \in Seq(Block) /\ t # <<>> /\ job' = [NoJob EXCEPT !.mode = "direct", !.block = b, !.todo = t]
  BY <1>1
<1> HIDE DEF t
<1>31. NoJob \in JobRecord
  BY DEF NoJob, JobRecord
<1>4. job' \in JobRecord /\ job'.todo = t /\ job'.mode = "direct"
  BY <1>3, <1>31 DEF JobRecord
<1>5. JobRight'
  BY <1>3, <1>4 DEF JobRight
<1> QED
  BY <1>1, <1>2, <1>5, CallBegins

LEMMA PushOnForkGood ==
  ASSUME CallRight, NEW b \in Block, PushOnFork(b)
  PROVE  Good
<1> DEFINE f == ForkPush(fork, b)
           h == ClearPending.top.head
           n == ForkPoint(f.head, h)
<1>1. ForkRight(f) /\ f.head \in Block
  BY ForkPushRight DEF CallRight
<1>2. step = "idle" /\ reported' = reported
  BY DEF PushOnFork
<1>3. h \in Blocks
  BY <1>2, ContentsFacts DEF CallRight, StackRight
<1>4. CASE h # Genesis /\ CanFetchBranches(f, f.head, h)
  <2>1. /\ job' = [mode |-> "switch", block |-> b, todo |-> Branch(f.head, n),
                   first |-> Branch(f.head, n), second |-> Branch(h, n),
                   target |-> Previous(Branch(h, n)[1])]
        /\ fork' = f /\ cb' = ClearPending /\ session' = FALSE /\ step' = "pop"
        /\ UNCHANGED <<pending, popped>>
    BY <1>4 DEF PushOnFork
  <2>2. h \in Block
    BY <1>3, <1>4 DEF Blocks
  <2> HIDE DEF f, h
  <2>3. n \in 0 .. Num(f.head) - 1 /\ n \in 0 .. Num(h) - 1
    BY <1>1, <2>2, ForkPointExists
  <2> HIDE DEF n
  <2>4. /\ Branch(f.head, n) \in Seq(Block) /\ Branch(f.head, n) # <<>>
        /\ Branch(h, n) \in Seq(Block) /\ Branch(h, n) # <<>>
        /\ Previous(Branch(h, n)[1]) \in Blocks
    BY <1>1, <2>2, <2>3, BranchType
  <2>5. JobRight'
    <3> DEFINE x == Branch(f.head, n)
               y == Branch(h, n)
               t == Previous(y[1])
    <3>1. job' = [mode |-> "switch", block |-> b, todo |-> x, first |-> x, second |-> y, target |-> t]
          /\ x \in Seq(Block) /\ x # <<>> /\ y \in Seq(Block) /\ y # <<>> /\ t \in Blocks
      BY <2>1, <2>4
    <3> HIDE DEF x, y, t
    <3>2. job' \in JobRecord /\ job'.todo = x /\ job'.second = y /\ job'.mode = "switch"
      BY <3>1 DEF JobRecord, Blocks
    <3> QED
      BY <3>1, <3>2 DEF JobRight
  <2> QED
    BY <1>1, <1>2, <2>1, <2>5, CallBegins
<1>5. CASE ~(h # Genesis /\ CanFetchBranches(f, f.head, h))
  <2>1. Leave(ClearPending, f, popped, TRUE)
    BY <1>5 DEF PushOnFork
  <2> QED
    BY <1>1, <1>2, <2>1, LeaveGood
<1> QED
  BY <1>4, <1>5

\* Within a call no session is open.
LEMMA NoSession ==
  ASSUME CallRight, step \in {"pop", "begin", "log", "tasks"}
  PROVE  session = FALSE /\ ClearPending = cb /\ StackRight(cb) /\ cb \in Contents
<1>1. session = FALSE
  BY DEF CallRight, SessionRight
<1>2. step # "down"
  OBVIOUS
<1>3. ClearPending = cb
  BY <1>1 DEF ClearPending
<1> QED
  BY <1>1, <1>2, <1>3 DEF CallRight

LEMMA PopBlockGood ==
  ASSUME CallRight, PopBlock
  PROVE  Good
<1>1. /\ step = "pop" /\ CanPop /\ cb' = UndoSession(cb) /\ fork' = SetHead(fork, Previous(fork.head))
      /\ popped' = Txs[cb.top.head] \o popped
      /\ step' \in {"begin", "pop"}
      /\ UNCHANGED <<job, pending, session, reported>>
  BY DEF PopBlock
<1>2. session = FALSE /\ ClearPending = cb /\ StackRight(cb) /\ cb \in Contents
  BY <1>1, NoSession
<1>3. StackRight(cb') /\ cb.top.known \subseteq cb'.top.known \cup Range(Txs[cb.top.head])
  BY <1>1, <1>2, UndoSessionRight
<1>4. fork.head \in Block /\ ForkRight(fork)
  BY <1>1 DEF CanPop, CallRight, ForkRight
<1>5. ForkRight(fork')
  BY <1>1, <1>4, PathOf, SetHeadRight
<1>6. cb.top.head \in Block
  <2>1. cb.top.head \in Blocks /\ cb.top.head # Genesis
    BY <1>1, <1>2, ContentsFacts DEF CanPop
  <2> QED
    BY <2>1 DEF Blocks
<1>7. Txs[cb.top.head] \in Seq(Tx) /\ popped \in Seq(Tx)
  BY <1>6, BlockAssumption DEF CallRight
<1>8. popped' \in Seq(Tx) /\ Range(popped') = Range(Txs[cb.top.head]) \cup Range(popped)
  BY <1>1, <1>7, ConcatRange
<1>9. JobRight'
  BY <1>1 DEF CallRight, JobRight
<1>10. ClearPending' = UndoSession(ClearPending) /\ SessionRight'
  BY <1>1, <1>2 DEF ClearPending, SessionRight
<1>11. CallRight'
  <2>1. cb' \in Contents /\ ClearPending' = cb'
    BY <1>1, <1>2, <1>3 DEF StackRight, ClearPending
  <2> QED
    BY <1>1, <1>2, <1>3, <1>5, <1>8, <1>9, <1>10, <2>1 DEF CallRight
<1>12. Accepted \subseteq Accepted'
  BY <1>1, <1>3, <1>8 DEF Accepted
<1> QED
  BY <1>1, <1>10, <1>11, <1>12 DEF Good, Moves, LosesNothing

LEMMA PopFailsGood ==
  ASSUME CallRight, PopFails
  PROVE  Good
<1>1. step = "pop" /\ Leave(cb, fork, popped, TRUE) /\ reported' = reported
  BY DEF PopFails
<1>2. ClearPending = cb /\ ForkRight(fork)
  BY <1>1, NoSession DEF CallRight
<1> QED
  BY <1>1, <1>2, LeaveGood

\* A block fails: its session, if it had one, is undone.
LEMMA ApplyFailsGood ==
  ASSUME CallRight, step \in {"begin", "log", "tasks"}, reported' = reported,
         \/ step = "begin" /\ ApplyFails(cb)
         \/ step # "begin" /\ ApplyFails(UndoSession(cb))
  PROVE  Good
<1>1. session = FALSE /\ ClearPending = cb /\ StackRight(cb)
  BY NoSession
<1>2. CASE step = "begin" /\ ApplyFails(cb)
  <2>1. CallRight' /\ ClearPending' = cb /\ NothingLost(cb)
    BY <1>1, <1>2, ApplyFailsRight
  <2>2. LosesNothing
    BY <2>1 DEF NothingLost, Accepted, LosesNothing
  <2> QED
    BY <1>1, <2>1, <2>2 DEF Good, Moves
<1>3. CASE step # "begin" /\ ApplyFails(UndoSession(cb))
  <2> DEFINE u == UndoSession(cb)
  <2>1. StackRight(u) /\ cb.top.known \subseteq u.top.known \cup Range(Txs[cb.top.head])
    BY <1>1, UndoSessionRight
  <2>2. CallRight' /\ ClearPending' = u /\ NothingLost(u)
    BY <1>3, <2>1, ApplyFailsRight
  <2>3. step \in {"log", "tasks"} /\ cb.top.head = Head(job.todo)
    BY <1>3 DEF CallRight
  <2> HIDE DEF u
  <2>4. LosesNothing
    BY <2>1, <2>2, <2>3 DEF NothingLost, Accepted, LosesNothing
  <2> QED
    BY <1>1, <2>2, <2>4 DEF Good, Moves, u
<1> QED
  BY <1>2, <1>3

LEMMA BeginBlockGood ==
  ASSUME CallRight, BeginBlock
  PROVE  Good
<1> DEFINE b == Head(job.todo)
           s == HeadMoved(cb.top, b)
<1>1. step = "begin"
  BY DEF BeginBlock
<1>2. session = FALSE /\ ClearPending = cb /\ StackRight(cb) /\ cb \in Contents
  BY <1>1, NoSession
<1>3. b \in Block /\ cb.top \in StateRecord
  <2>1. job.todo \in Seq(Block) /\ job.todo # <<>>
    BY <1>1 DEF CallRight, JobRight, JobRecord
  <2> QED
    BY <1>2, <2>1, LastIn, ContentsFacts
<1>4. CASE ~CanApply(cb.top, b)
  <2>1. ApplyFails(cb) /\ reported' = reported
    BY <1>4 DEF BeginBlock
  <2> QED
    BY <1>1, <2>1, ApplyFailsGood
<1>5. CASE CanApply(cb.top, b)
  <2> DEFINE d == [StartSession(cb) EXCEPT !.top = s]
  <2>1. /\ cb' = CommitTo(d, s.lib)
        /\ reported' = IF s.lib > Num(reported) THEN Path[b][s.lib] ELSE reported
        /\ UNCHANGED <<job, pending, session, popped, threw>>
        /\ \/ step' = "log" /\ fork' = fork
           \/ step' = "tasks" /\ fork' = Trimmed(fork, s)
    BY <1>5 DEF BeginBlock
  <2>2. /\ s \in StateRecord /\ s.head = b /\ s.known = cb.top.known \cup Range(Txs[b])
        /\ s.lib \in Nat
    BY <1>3, HeadMovedType DEF StateRecord
  <2>3. Previous(b) = cb.top.head
    BY <1>5 DEF CanApply
  <2>30. d \in Contents /\ d.top = s
    BY <1>2, <2>2, StartSessionType
  <2>4. StackRight(d)
    <3> HIDE DEF s, b
    <3> QED
      BY <1>2, <1>3, <2>2, <2>3, StartSessionRight
  <2>9. ClearPending' = cb' /\ SessionRight'
    BY <1>2, <2>1 DEF ClearPending, SessionRight
  <2>10. Moves
    <3>1. /\ CanApply(ClearPending.top, b)
          /\ ClearPending' = CommitTo([StartSession(ClearPending) EXCEPT !.top = HeadMoved(ClearPending.top, b)], HeadMoved(ClearPending.top, b).lib)
          /\ reported' = IF HeadMoved(ClearPending.top, b).lib > Num(reported) THEN Path[b][HeadMoved(ClearPending.top, b).lib] ELSE reported
      BY <1>2, <1>5, <2>1, <2>9
    <3> QED
      BY <1>3, <3>1 DEF Moves
  <2> HIDE DEF d, s, b
  <2>5. StackRight(cb') /\ cb' \in Contents /\ cb'.top = s
    BY <2>1, <2>2, <2>30, <2>4, CommitToRight, CommitToType DEF StackRight
  <2>6. ForkRight(fork')
    BY <2>1, <2>2, TrimmedRight DEF CallRight
  <2>7. JobRight' /\ step' \in {"log", "tasks"}
    BY <1>1, <2>1 DEF CallRight, JobRight
  <2>8. cb'.top.head = Head(job'.todo)
    BY <2>1, <2>2, <2>5 DEF b
  <2>11. CallRight'
    BY <2>1, <2>5, <2>6, <2>7, <2>8, <2>9 DEF CallRight
  <2>12. Accepted \subseteq Accepted'
    BY <2>1, <2>2, <2>5 DEF Accepted
  <2> QED
    BY <2>10, <2>11, <2>12 DEF Good, LosesNothing
<1> QED
  BY <1>4, <1>5

LEMMA AppendBlockGood ==
  ASSUME CallRight, AppendBlock
  PROVE  Good
<1>1. step = "log" /\ reported' = reported
  BY DEF AppendBlock
<1>2. session = FALSE /\ ClearPending = cb /\ StackRight(cb) /\ cb \in Contents
  BY <1>1, NoSession
<1>3. CASE FetchMainBranchBlock(fork, Len(log.blocks) + 1) = Genesis
  <2>1. ApplyFails(UndoSession(cb))
    BY <1>3 DEF AppendBlock
  <2> QED
    BY <1>1, <2>1, ApplyFailsGood
<1>4. CASE FetchMainBranchBlock(fork, Len(log.blocks) + 1) # Genesis
  <2>1. /\ UNCHANGED <<cb, job, pending, session, popped, threw>>
        /\ \/ step' = "tasks" /\ fork' = Trimmed(fork, cb.top)
           \/ step' = "log" /\ fork' = fork
    BY <1>1, <1>4 DEF AppendBlock
  <2>2. ForkRight(fork')
    BY <1>2, <2>1, TrimmedRight, ContentsFacts DEF CallRight
  <2>3. JobRight' /\ step' \in {"log", "tasks"}
    BY <1>1, <2>1 DEF CallRight, JobRight
  <2>4. ClearPending' = ClearPending /\ SessionRight'
    BY <1>2, <2>1 DEF ClearPending, SessionRight
  <2>5. CallRight'
    BY <1>1, <1>2, <2>1, <2>2, <2>3, <2>4 DEF CallRight
  <2>6. Accepted = Accepted'
    BY <2>1 DEF Accepted
  <2> QED
    BY <1>1, <2>4, <2>5, <2>6 DEF Good, Moves, LosesNothing
<1> QED
  BY <1>3, <1>4

LEMMA EndBlockGood ==
  ASSUME CallRight, EndBlock
  PROVE  Good
<1> DEFINE c == [cb EXCEPT !.top.whole = TRUE]
<1>1. step = "tasks" /\ reported' = reported
  BY DEF EndBlock
<1>2. session = FALSE /\ ClearPending = cb /\ StackRight(cb) /\ cb \in Contents
  BY <1>1, NoSession
<1>3. /\ c \in Contents /\ c.stack = cb.stack /\ c.top.head = cb.top.head /\ c.top.known = cb.top.known
  BY <1>2, WholeType
<1>0. \/ ApplyFails(UndoSession(cb))
      \/ Leave(c, fork, popped, job.mode = "restore")
      \/ /\ Len(job.todo) # 1 /\ cb' = c /\ step' = "begin"
         /\ job' = [job EXCEPT !.todo = Tail(@)]
         /\ UNCHANGED <<fork, pending, session, popped, threw>>
  BY DEF EndBlock
<1>20. [ClearPending EXCEPT !.top.whole = TRUE] = c
  BY <1>2
<1> HIDE DEF c
<1>4. StackRight(c)
  BY <1>2, <1>3, SameStackRight
<1>5. CASE ApplyFails(UndoSession(cb))
  BY <1>1, <1>5, ApplyFailsGood
<1>6. CASE Leave(c, fork, popped, job.mode = "restore")
  <2>1. pending \in Seq(Tx) /\ popped \in Seq(Tx) /\ ForkRight(fork)
    BY DEF CallRight
  <2>2. CallRight' /\ ClearPending' = c /\ NothingLost(c)
    BY <1>4, <1>6, <2>1, LeaveRight
  <2>3. LosesNothing
    BY <1>3, <2>2 DEF NothingLost, Accepted, LosesNothing
  <2>4. Moves
    BY <1>1, <1>20, <2>2 DEF Moves
  <2> QED
    BY <2>2, <2>3, <2>4 DEF Good
<1>7. CASE /\ Len(job.todo) # 1 /\ cb' = c /\ step' = "begin"
           /\ job' = [job EXCEPT !.todo = Tail(@)]
           /\ UNCHANGED <<fork, pending, session, popped, threw>>
  <2> DEFINE t == Tail(job.todo)
  <2>1. job \in JobRecord /\ job.todo \in Seq(Block) /\ job.todo # <<>> /\ job.mode # "none"
        /\ (job.mode = "switch" => job.second # <<>>)
    BY <1>1 DEF CallRight, JobRight, JobRecord
  <2>2. t \in Seq(Block) /\ t # <<>>
    <3>1. t \in Seq(Block) /\ Len(t) = Len(job.todo) - 1 /\ Len(job.todo) \in Nat \ {0}
      BY <2>1, LastIn
    <3>2. Len(t) # 0
      BY <1>7, <3>1
    <3> HIDE DEF t
    <3> QED
      BY <3>1, <3>2, EmptySeq
  <2>3. job' = [job EXCEPT !.todo = t]
    BY <1>7
  <2> HIDE DEF t
  <2>4. job' \in JobRecord /\ job'.todo = t /\ job'.mode = job.mode /\ job'.second = job.second
    BY <2>1, <2>2, <2>3 DEF JobRecord
  <2>5. JobRight'
    BY <2>1, <2>2, <2>4 DEF JobRight
  <2>6. ClearPending' = c /\ SessionRight'
    BY <1>2, <1>7 DEF ClearPending, SessionRight
  <2>7. CallRight'
    BY <1>2, <1>3, <1>4, <1>7, <2>5, <2>6 DEF CallRight
  <2>8. Accepted \subseteq Accepted'
    BY <1>3, <1>7 DEF Accepted
  <2>9. Moves
    BY <1>1, <1>20, <2>6 DEF Moves
  <2> QED
    BY <2>7, <2>8, <2>9 DEF Good, LosesNothing
<1> QED
  BY <1>0, <1>5, <1>6, <1>7

\* undo does not look at what it takes back.
LEMMA UndoSame ==
  ASSUME NEW c \in Contents, NEW d \in Contents, d.stack = c.stack, d.revision = c.revision,
         c.stack # <<>>
  PROVE  UndoSession(d) = UndoSession(c)
  BY DEF UndoSession

LEMMA PushTransactionGood ==
  ASSUME CallRight, PushTransaction
  PROVE  Good
<1> DEFINE c == ClearPending
           e == IF session THEN cb ELSE StartSession(cb)
<1>1. /\ step = "idle" /\ step' = step /\ reported' = reported /\ session' = TRUE
      /\ UNCHANGED <<fork, job, popped>>
  BY DEF PushTransaction
<1>2. PICK t \in Tx :
        \/ cb' = e /\ pending' = pending
        \/ /\ cb' = [e EXCEPT !.top.known = @ \cup {t}]
           /\ pending' = Append(pending, t)
  BY DEF PushTransaction
<1>3. /\ cb \in Contents /\ pending \in Seq(Tx) /\ StackRight(c) /\ c \in Contents
      /\ Accepted \subseteq c.top.known \cup Range(pending) \cup Range(popped)
  BY <1>1, ClearPendingKeeps DEF CallRight, StackRight
<1>4. /\ e \in Contents /\ e.stack # <<>> /\ UndoSession(e) = c /\ e.top.head = c.top.head
      /\ e.top.known = cb.top.known /\ e.top.known \subseteq c.top.known \cup Range(pending)
  <2>1. CASE session
    BY <1>3, <2>1 DEF CallRight, SessionRight, ClearPending
  <2>2. CASE ~session
    <3> DEFINE d == [StartSession(cb) EXCEPT !.top.known = @ \cup {}]
    <3>1. d \in Contents /\ UndoSession(d) = cb /\ d.stack # <<>>
      BY <1>3, SessionTakenBack
    <3>2. StartSession(cb) \in Contents /\ StartSession(cb).top = cb.top
      BY <1>3, StartSessionType, ContentsFacts
    <3>3. d.stack = StartSession(cb).stack /\ d.revision = StartSession(cb).revision
      BY <3>2, KnowsType
    <3> HIDE DEF d
    <3>4. UndoSession(StartSession(cb)) = cb /\ StartSession(cb).stack # <<>>
      BY <3>1, <3>2, <3>3, UndoSame
    <3>5. e = StartSession(cb) /\ c = cb
      BY <2>2 DEF ClearPending
    <3> HIDE DEF e, c
    <3> QED
      BY <3>2, <3>4, <3>5
  <2> QED
    BY <2>1, <2>2
<1>30. Accepted = cb.top.known \cup Range(pending) \cup Range(popped)
  BY DEF Accepted
<1>31. \A x : ClearPending' = x /\ x = c => ClearPending' = ClearPending
  OBVIOUS
<1>32. ClearPending' = UndoSession(cb')
  BY <1>1 DEF ClearPending
<1> HIDE DEF e, c
<1>5. /\ cb' \in Contents /\ cb'.stack # <<>> /\ UndoSession(cb') = c /\ cb'.top.head = c.top.head
      /\ pending' \in Seq(Tx) /\ cb'.top.known \subseteq c.top.known \cup Range(pending')
      /\ cb.top.known \subseteq cb'.top.known /\ Range(pending) \subseteq Range(pending')
  <2>1. CASE cb' = e /\ pending' = pending
    BY <1>3, <1>4, <2>1
  <2>2. CASE /\ cb' = [e EXCEPT !.top.known = @ \cup {t}]
             /\ pending' = Append(pending, t)
    <3> DEFINE d == [e EXCEPT !.top.known = @ \cup {t}]
    <3>1. /\ d \in Contents /\ d.stack = e.stack /\ d.revision = e.revision
          /\ d.top.head = e.top.head /\ d.top.known = e.top.known \cup {t}
      BY <1>4, KnowsType
    <3> HIDE DEF d
    <3>2. UndoSession(d) = UndoSession(e)
      BY <1>4, <3>1, UndoSame
    <3>3. pending' \in Seq(Tx) /\ Range(pending') = Range(pending) \cup {t}
      BY <1>3, <2>2, AppendRange
    <3>4. cb' = d
      BY <2>2 DEF d
    <3> QED
      BY <1>4, <3>1, <3>2, <3>3, <3>4
  <2> QED
    BY <1>2, <2>1, <2>2
<1>6. ClearPending' = c
  BY <1>5, <1>32
<1>7. SessionRight'
  BY <1>1, <1>5 DEF SessionRight
<1>8. JobRight'
  BY <1>1 DEF CallRight, JobRight
<1>9. CallRight'
  <2>1. ForkRight(fork') /\ popped' \in Seq(Tx) /\ session' \in BOOLEAN /\ StackRight(ClearPending')
        /\ step' = "idle"
    BY <1>1, <1>3, <1>6 DEF CallRight
  <2> QED
    BY <1>5, <1>7, <1>8, <2>1 DEF CallRight
<1>10. Accepted \subseteq Accepted'
  BY <1>1, <1>5 DEF Accepted
<1>11. Moves
  BY <1>1, <1>6, <1>31 DEF Moves, c
<1> QED
  BY <1>9, <1>10, <1>11 DEF Good, LosesNothing

-----------------------------------------------------------------------------
(* Stop and start.                                                           *)

LEMMA StoppedRight ==
  ASSUME NEW n \in 0 .. Len(log.blocks), LogRight, Stopped(n), cb' \in Contents
  PROVE  CallRight' /\ LogRight'
<1>1. /\ step' = "down" /\ job' = NoJob /\ fork' = EmptyFork(FORK_DB_SIZE)
      /\ log' = [blocks |-> SubSeq(log.blocks, 1, n), flushed |-> n]
      /\ pending' = <<>> /\ session' = FALSE /\ popped' = <<>>
  BY DEF Stopped
<1>2. JobRight'
  BY <1>1 DEF JobRight, JobRecord, NoJob
<1>3. ForkRight(fork')
  BY <1>1, EmptyForkRight
<1>4. SessionRight'
  BY <1>1 DEF SessionRight
<1>40. pending' \in Seq(Tx) /\ popped' \in Seq(Tx)
  BY <1>1
<1>5. CallRight'
  BY <1>1, <1>2, <1>3, <1>4, <1>40 DEF CallRight
<1> DEFINE s == SubSeq(log.blocks, 1, n)
<1>6. s \in Seq(Block) /\ Len(s) = n /\ n \in Nat
  BY DEF LogRight
<1> HIDE DEF s
<1>7. LogRight'
  BY <1>1, <1>6 DEF LogRight, s
<1> QED
  BY <1>5, <1>7

\* The node comes up with one state and no history to undo.
LEMMA StartedRight ==
  ASSUME CallRight, step = "down", step' \in {"idle", "down"}, cb' \in Contents, cb'.stack = <<>>,
         ForkRight(fork'), UNCHANGED <<job, pending, session, popped>>
  PROVE  CallRight'
<1>1. session = FALSE
  BY DEF CallRight, SessionRight
<1>2. ClearPending' = cb' /\ SessionRight'
  BY <1>1 DEF ClearPending, SessionRight
<1>3. StackRight(cb')
  BY EmptyStackRight
<1>4. JobRight'
  BY DEF CallRight, JobRight
<1> QED
  BY <1>2, <1>3, <1>4 DEF CallRight

LEMMA OpenRight ==
  ASSUME CallRight, Open
  PROVE  CallRight'
<1> DEFINE c == UndoAll(cb)
<1>1. c \in Contents /\ c.stack = <<>>
  BY UndoAllType DEF CallRight
<1>2. step = "down" /\ cb' = c /\ UNCHANGED <<job, pending, session, popped>>
      /\ step' \in {"idle", "down"}
      /\ fork' \in {fork, StartBlock(fork, c.top.head)}
      /\ (c.top.head = Genesis => fork' = fork)
  BY DEF Open
<1> HIDE DEF c
<1>3. c.top.head \in Blocks
  BY <1>1, ContentsFacts
<1>4. ForkRight(fork')
  <2>1. CASE c.top.head = Genesis
    BY <1>2, <2>1 DEF CallRight
  <2>2. CASE c.top.head \in Block
    BY <1>2, <2>2, StartBlockRight DEF CallRight
  <2> QED
    BY <1>3, <2>1, <2>2 DEF Blocks
<1> QED
  BY <1>1, <1>2, <1>4, StartedRight

LEMMA ReindexRight ==
  ASSUME CallRight, LogRight, Reindex
  PROVE  CallRight'
<1> DEFINE s == Replay(log.blocks)
           r == Num(s.head)
           z == r - s.lib + 1
           f == StartBlock(fork, Last(log.blocks))
<1>1. /\ step = "down" /\ log.blocks # <<>> /\ step' = "idle"
      /\ cb' = [top |-> s, stack |-> <<>>, revision |-> r]
      /\ fork' = [f EXCEPT !.maxSize = z]
      /\ UNCHANGED <<job, pending, session, popped>>
  BY DEF Reindex
<1>2. log.blocks \in Seq(Block) /\ s \in StateRecord
  BY ReplayType DEF LogRight
<1>3. Last(log.blocks) \in Block
  BY <1>1, <1>2, LastIn
<1>4. ForkRight(f)
  BY <1>3, StartBlockRight DEF CallRight
<1>5. r \in Int /\ z \in Int
  <2>1. s.head \in Blocks /\ s.lib \in Nat
    BY <1>2 DEF StateRecord, Blocks
  <2> QED
    BY <2>1, NumOf
<1> HIDE DEF s, r, z, f
<1>6. cb' \in Contents /\ cb'.stack = <<>>
  <2>1. <<>> \in Seq(StateRecord)
    OBVIOUS
  <2> QED
    BY <1>1, <1>2, <1>5, <2>1 DEF Contents
<1>7. ForkRight(fork')
  BY <1>1, <1>4, <1>5 DEF ForkRight, ForkRecord
<1> QED
  BY <1>1, <1>6, <1>7, StartedRight

LEMMA ReindexKilledRight ==
  ASSUME CallRight, LogRight, ReindexKilled
  PROVE  CallRight'
<1>1. PICK n \in ReplayKills \cap (0 .. Len(log.blocks)) :
        cb' = [top |-> Replay(SubSeq(log.blocks, 1, n)), stack |-> <<>>, revision |-> 0]
  BY DEF ReindexKilled
<1>2. step = "down" /\ UNCHANGED <<fork, step, job, pending, session, popped>>
  BY DEF ReindexKilled
<1> DEFINE b == SubSeq(log.blocks, 1, n)
           s == Replay(b)
<1>3. b \in Seq(Block)
  BY DEF LogRight
<1>4. s \in StateRecord
  <2> HIDE DEF b
  <2> QED
    BY <1>3, ReplayType
<1>5. cb' = [top |-> s, stack |-> <<>>, revision |-> 0]
  BY <1>1
<1> HIDE DEF s
<1>6. cb' \in Contents /\ cb'.stack = <<>>
  BY <1>4, <1>5 DEF Contents
<1> QED
  BY <1>2, <1>6, StartedRight DEF CallRight

-----------------------------------------------------------------------------
(* The block log.                                                            *)

LEMMA AppendBlockLog ==
  ASSUME CallRight, LogRight, AppendBlock
  PROVE  LogRight'
<1> DEFINE n == Len(log.blocks) + 1
           b == FetchMainBranchBlock(fork, n)
           a == Append(log.blocks, b)
           fl == IF n = cb.top.lib THEN n ELSE log.flushed
<1>0. log.blocks \in Seq(Block) /\ log.flushed \in Nat /\ log.flushed <= Len(log.blocks) /\ n \in Nat \ {0}
  BY DEF LogRight
<1>1. b \in Blocks
  BY <1>0, FetchMainBranchBlockType DEF CallRight
<1>2. \/ log' = log
      \/ b # Genesis /\ log' = [blocks |-> a, flushed |-> fl]
  BY DEF AppendBlock
<1>3. CASE log' = log
  BY <1>3 DEF LogRight
<1>4. CASE b # Genesis /\ log' = [blocks |-> a, flushed |-> fl]
  <2> HIDE DEF b
  <2>1. b \in Block
    BY <1>1, <1>4 DEF Blocks
  <2>2. a \in Seq(Block) /\ Len(a) = n /\ fl \in Nat /\ fl <= n
    BY <1>0, <2>1
  <2> HIDE DEF a, fl, n
  <2> QED
    BY <1>4, <2>2 DEF LogRight
<1> QED
  BY <1>2, <1>3, <1>4

-----------------------------------------------------------------------------
LEMMA RunningGood ==
  ASSUME CallRight, Running
  PROVE  Good
<1>1. ASSUME NEW b \in Block, PushRefused(b) \/ PushStored(b) \/ PushOnHead(b) \/ PushOnFork(b)
      PROVE  Good
  BY <1>1, PushRefusedGood, PushStoredGood, PushOnHeadGood, PushOnForkGood
<1>2. CASE PushBlock
  BY <1>1, <1>2 DEF PushBlock
<1>3. CASE PushTransaction
  BY <1>3, PushTransactionGood
<1>4. CASE Working
  BY <1>4, PopBlockGood, PopFailsGood, BeginBlockGood, AppendBlockGood, EndBlockGood DEF Working
<1> QED
  BY <1>2, <1>3, <1>4 DEF Running

LEMMA RunningLog ==
  ASSUME CallRight, LogRight, Running
  PROVE  LogRight' /\ step # "down" /\ step' # "down"
<1>1. CASE AppendBlock
  <2>1. step = "log" /\ (step' \in {"log", "tasks"} \/ ApplyFails(UndoSession(cb)))
    BY <1>1 DEF AppendBlock
  <2>2. ASSUME ApplyFails(UndoSession(cb)) PROVE step' # "down"
    <3>1. StackRight(UndoSession(cb))
      BY <2>1, NoSession, UndoSessionRight
    <3> QED
      BY <2>1, <2>2, <3>1, ApplyFailsRight
  <2> QED
    BY <1>1, <2>1, <2>2, AppendBlockLog
<1>2. CASE PushBlock
  BY <1>2 DEF PushBlock, PushRefused, PushStored, PushOnHead, PushOnFork, Leave, LogRight
<1>3. CASE PushTransaction
  BY <1>3 DEF PushTransaction, LogRight
<1>4. CASE PopBlock \/ PopFails
  BY <1>4 DEF PopBlock, PopFails, Leave, LogRight
<1>5. CASE BeginBlock
  <2>1. step = "begin" /\ log' = log /\ (step' \in {"log", "tasks"} \/ ApplyFails(cb))
    BY <1>5 DEF BeginBlock
  <2>2. ASSUME ApplyFails(cb) PROVE step' # "down"
    BY <2>1, <2>2, NoSession, ApplyFailsRight
  <2> QED
    BY <2>1, <2>2 DEF LogRight
<1>6. CASE EndBlock
  <2>1. step = "tasks" /\ log' = log /\ (step' \in {"begin", "idle"} \/ ApplyFails(UndoSession(cb)))
    BY <1>6 DEF EndBlock, Leave
  <2>2. ASSUME ApplyFails(UndoSession(cb)) PROVE step' # "down"
    <3>1. StackRight(UndoSession(cb))
      BY <2>1, NoSession, UndoSessionRight
    <3> QED
      BY <2>1, <2>2, <3>1, ApplyFailsRight
  <2> QED
    BY <2>1, <2>2 DEF LogRight
<1> QED
  BY <1>1, <1>2, <1>3, <1>4, <1>5, <1>6 DEF Running, Working

LEMMA CallInit == Init => CallRight /\ LogRight
<1> SUFFICES ASSUME Init PROVE CallRight /\ LogRight
  OBVIOUS
<1>1. cb \in Contents /\ cb.stack = <<>>
  <2>1. <<>> \in Seq(StateRecord)
    OBVIOUS
  <2> QED
    BY <2>1, GenesisStateType DEF Init, Contents
<1>2. ClearPending = cb /\ SessionRight
  BY DEF Init, ClearPending, SessionRight
<1>3. StackRight(cb)
  BY <1>1, EmptyStackRight
<1>4. JobRight
  BY DEF Init, JobRight, JobRecord, NoJob
<1>5. ForkRight(fork)
  BY EmptyForkRight DEF Init
<1>50. pending \in Seq(Tx) /\ popped \in Seq(Tx) /\ session \in BOOLEAN /\ step = "idle"
  <2>1. pending = <<>> /\ popped = <<>> /\ session = FALSE /\ step = "idle"
    BY DEF Init
  <2>2. <<>> \in Seq(Tx)
    OBVIOUS
  <2> QED
    BY <2>1, <2>2
<1>6. CallRight
  BY <1>1, <1>2, <1>3, <1>4, <1>5, <1>50 DEF CallRight
<1>7. LogRight
  BY DEF Init, LogRight
<1> QED
  BY <1>6, <1>7

LEMMA CallStep == CallRight /\ LogRight /\ [Next]_vars => (CallRight /\ LogRight)' /\ [LosesNothing]_vars
<1> SUFFICES ASSUME CallRight, LogRight, [Next]_vars
             PROVE  (CallRight /\ LogRight)' /\ [LosesNothing]_vars
  OBVIOUS
<1>1. CASE Running
  BY <1>1, RunningGood, RunningLog DEF Good
<1>2. CASE Crash
  <2>1. PICK n \in log.flushed .. Len(log.blocks) : Stopped(n)
    BY <1>2 DEF Crash
  <2>2. n \in 0 .. Len(log.blocks) /\ cb' \in Contents
    BY <1>2 DEF LogRight, Crash, CallRight
  <2> QED
    BY <2>1, <2>2, StoppedRight DEF LosesNothing, Stopped
<1>3. CASE Close
  <2>1. Len(log.blocks) \in 0 .. Len(log.blocks)
    BY DEF LogRight
  <2>2. cb' \in Contents
    BY <1>3, UndoSessionType DEF Close, CallRight, ClearPending
  <2> QED
    BY <1>3, <2>1, <2>2, StoppedRight DEF Close, LosesNothing, Stopped
<1>4. CASE Open
  BY <1>4, OpenRight DEF Open, LogRight, LosesNothing
<1>5. CASE Reindex
  BY <1>5, ReindexRight DEF Reindex, LogRight, LosesNothing
<1>6. CASE ReindexKilled
  BY <1>6, ReindexKilledRight DEF ReindexKilled, LogRight, LosesNothing
<1>7. CASE UNCHANGED vars
  BY <1>7 DEF vars, CallRight, LogRight, JobRight, SessionRight, ClearPending
<1> QED
  BY <1>1, <1>2, <1>3, <1>4, <1>5, <1>6, <1>7 DEF Next, Operating

\* Between calls every undo state is the state of one block of the chain, in
\* order and without a gap, so that each pop_block takes back exactly one block,
\* whatever blocks came, failed, or were switched to, and wherever the process died.
THEOREM UndoStatesAreBlocks == Spec => []OneUndoStatePerBlock
<1>1. CallRight => OneUndoStatePerBlock
  <2> SUFFICES ASSUME CallRight, step = "idle" PROVE OneUndoStatePerBlock
    BY DEF OneUndoStatePerBlock
  <2> DEFINE c == IF session THEN UndoSession(cb) ELSE cb
  <2>1. c \in Contents /\ Chained(c)
    BY DEF CallRight, StackRight, ClearPending
  <2> HIDE DEF c
  <2>2. Len(c.stack) \in Nat /\ Num(c.top.head) \in Nat
    BY <2>1, ContentsFacts
  <2>3. ASSUME NEW i \in 1 .. Len(c.stack)
        PROVE  LET n == Num(c.top.head) - Len(c.stack) + i - 1
               IN  /\ n >= 0
                   /\ c.stack[i].head = IF n = 0 THEN Genesis ELSE Path[c.top.head][n]
    BY <2>1, <2>2 DEF Chained, Ancestor
  <2> QED
    BY <2>3 DEF OneUndoStatePerBlock, c
<1> QED
  BY <1>1, CallInit, CallStep, PTL DEF Spec

\* A transaction the node accepted stays in its chain or in its pending list for
\* as long as the process lives, through forks and failing blocks.  Only those of a
\* block that fails to apply go, and one that does not validate when it is pushed
\* again after what is in the chain and pending by then.
THEOREM TransactionsKept == Spec => NoTransactionLost
<1>1. [LosesNothing]_vars =>
        [step # "down" /\ step' # "down" =>
           \A t \in Accepted \ Accepted' :
              \/ step \in {"log", "tasks"} /\ t \in Range(Txs[Head(job.todo)])
              \/ step' = "idle" /\ DoesNotApply(t)']_vars
  BY DEF LosesNothing
<1> QED
  BY <1>1, CallInit, CallStep, PTL DEF Spec, NoTransactionLost

-----------------------------------------------------------------------------
(* What is irreversible is never above the head.                             *)

BoundedState(s) == s.lib <= Num(s.head) /\ \A w \in Witness : s.confirmed[w] <= Num(s.head)

AllBounded(c) ==
  BoundedState(c.top) /\ \A i \in 1 .. Len(c.stack) : BoundedState(c.stack[i])

\* The two records agree on what the bounds are about.
SameBounds(s, t) == s.head = t.head /\ s.lib = t.lib /\ s.confirmed = t.confirmed

LEMMA MovedBounded ==
  ASSUME NEW s \in StateRecord, BoundedState(s), NEW b \in Block, Previous(b) = s.head,
         NEW t \in StateRecord, t.head = b,
         t.confirmed = [s.confirmed EXCEPT ![Producer[b]] = Num(b)],
         t.lib = NewLib(s, t.confirmed, Num(b))
  PROVE  BoundedState(t)
<1>1. /\ Num(b) \in Nat /\ Num(s.head) = Num(b) - 1 /\ s.lib \in Nat /\ MAX_WITNESSES \in Nat
      /\ s.confirmed \in [Witness -> Nat] /\ t.confirmed \in [Witness -> Nat]
      /\ START_MINER_VOTING_BLOCK \in Nat
  BY PathOf, BoundAssumption DEF StateRecord
<1>2. ASSUME NEW w \in Witness PROVE t.confirmed[w] <= Num(b)
  <2>1. CASE w = Producer[b]
    BY <1>1, <2>1
  <2>2. CASE w # Producer[b]
    <3>1. t.confirmed[w] = s.confirmed[w] /\ s.confirmed[w] <= Num(s.head) /\ s.confirmed[w] \in Nat
      BY <1>1, <2>2 DEF BoundedState
    <3> QED
      BY <1>1, <3>1
  <2> QED
    BY <2>1, <2>2
<1>3. NthConfirmed(t.confirmed) \in Nat /\ NthConfirmed(t.confirmed) <= Num(b)
  <2>1. PICK w \in Witness : NthConfirmed(t.confirmed) = t.confirmed[w]
    BY <1>1, NthConfirmedIn
  <2> QED
    BY <1>1, <1>2, <2>1
<1>4. s.lib <= Num(b)
  BY <1>1 DEF BoundedState
<1>5. t.lib <= Num(b)
  BY <1>1, <1>3, <1>4 DEF NewLib
<1> QED
  BY <1>2, <1>5 DEF BoundedState

LEMMA GenesisBounded == BoundedState(GenesisState)
  BY PathOfGenesis DEF BoundedState, GenesisState

LEMMA UndoBounded ==
  ASSUME NEW c \in Contents, AllBounded(c)
  PROVE  AllBounded(UndoSession(c))
<1>1. CASE c.stack = <<>>
  BY <1>1, UndoSessionType
<1>2. CASE c.stack # <<>>
  <2> DEFINE u == UndoSession(c)
  <2>1. /\ u.top = c.stack[Len(c.stack)] /\ Len(u.stack) = Len(c.stack) - 1 /\ Len(c.stack) \in Nat \ {0}
        /\ \A i \in 1 .. Len(c.stack) - 1 : u.stack[i] = c.stack[i]
    BY <1>2, UndoSessionType
  <2> HIDE DEF u
  <2>2. BoundedState(u.top)
    BY <2>1 DEF AllBounded
  <2>3. \A i \in 1 .. Len(u.stack) : BoundedState(u.stack[i])
    BY <2>1 DEF AllBounded
  <2> QED
    BY <2>2, <2>3 DEF AllBounded, u
<1> QED
  BY <1>1, <1>2

\* What a step makes of the bounds and of the chain of the block reported.
BoundInv ==
  /\ reported \in Blocks
  /\ step # "down" => AllBounded(ClearPending)
  /\ step = "down" => BoundedState(Base(cb))

LEMMA AppliedBounded ==
  ASSUME NEW c \in Contents, AllBounded(c), NEW b \in Block, Previous(b) = c.top.head
  PROVE  LET s == HeadMoved(c.top, b)
         IN  BoundedState(s) /\ AllBounded(CommitTo([StartSession(c) EXCEPT !.top = s], s.lib))
<1> DEFINE s == HeadMoved(c.top, b)
           d == [StartSession(c) EXCEPT !.top = s]
           e == CommitTo(d, s.lib)
           N == Len(c.stack)
<1>1. c.top \in StateRecord /\ BoundedState(c.top)
  BY ContentsFacts DEF AllBounded
<1>2. /\ s \in StateRecord /\ s.head = b
      /\ s.confirmed = [c.top.confirmed EXCEPT ![Producer[b]] = Num(b)]
      /\ s.lib = NewLib(c.top, s.confirmed, Num(b))
  BY <1>1, HeadMovedType
<1>20. s.lib \in Nat
  BY <1>2 DEF StateRecord
<1> HIDE DEF s
<1>3. BoundedState(s)
  BY <1>1, <1>2, MovedBounded
<1>4. /\ d \in Contents /\ d.top = s /\ Len(d.stack) = N + 1 /\ N \in Nat /\ d.stack[N + 1] = c.top
      /\ \A i \in 1 .. N : d.stack[i] = c.stack[i]
  BY <1>2, StartSessionType
<1> HIDE DEF d
<1>5. ASSUME NEW i \in 1 .. Len(d.stack) PROVE BoundedState(d.stack[i])
  <2>1. CASE i = N + 1
    BY <1>1, <1>4, <2>1
  <2>2. CASE i # N + 1
    <3>1. i \in 1 .. N
      BY <1>4, <2>2
    <3> QED
      BY <1>4, <3>1 DEF AllBounded
  <2> QED
    BY <2>1, <2>2
<1>6. e.top = s
  BY <1>4, <1>20, CommitToType
<1>7. PICK k \in 0 .. Len(d.stack) :
        Len(e.stack) = Len(d.stack) - k /\ \A i \in 1 .. Len(d.stack) - k : e.stack[i] = d.stack[i + k]
  BY <1>4, <1>20, CommitToType
<1> HIDE DEF e
<1>8. ASSUME NEW i \in 1 .. Len(e.stack) PROVE BoundedState(e.stack[i])
  <2>1. i + k \in 1 .. Len(d.stack) /\ i \in 1 .. Len(d.stack) - k
    BY <1>4, <1>7
  <2> QED
    BY <1>5, <1>7, <2>1
<1>9. AllBounded(e)
  BY <1>3, <1>6, <1>8 DEF AllBounded
<1> QED
  BY <1>3, <1>9 DEF e, d, s

LEMMA MovesBounded ==
  ASSUME CallRight, step # "down", BoundInv, Moves
  PROVE  AllBounded(ClearPending') /\ reported' \in Blocks
<1> DEFINE c == ClearPending
<1>1. c \in Contents /\ AllBounded(c) /\ reported \in Blocks
  BY DEF CallRight, StackRight, BoundInv
<1>2. CASE reported' = reported /\ ClearPending' \in {c, UndoSession(c), [c EXCEPT !.top.whole = TRUE]}
  <2>1. AllBounded(UndoSession(c))
    BY <1>1, UndoBounded
  <2>2. AllBounded([c EXCEPT !.top.whole = TRUE])
    <3> DEFINE d == [c EXCEPT !.top.whole = TRUE]
    <3>1. /\ d.stack = c.stack /\ d.top.head = c.top.head
          /\ d.top.lib = c.top.lib /\ d.top.confirmed = c.top.confirmed
      BY <1>1, WholeType
    <3> HIDE DEF d
    <3> QED
      BY <1>1, <3>1 DEF AllBounded, BoundedState, d
  <2> QED
    BY <1>1, <1>2, <2>1, <2>2
<1>3. ASSUME NEW b \in Block, CanApply(c.top, b),
             ClearPending' = CommitTo([StartSession(c) EXCEPT !.top = HeadMoved(c.top, b)], HeadMoved(c.top, b).lib),
             reported' = IF HeadMoved(c.top, b).lib > Num(reported) THEN Path[b][HeadMoved(c.top, b).lib] ELSE reported
      PROVE AllBounded(ClearPending') /\ reported' \in Blocks
  <2> DEFINE s == HeadMoved(c.top, b)
  <2>1. Previous(b) = c.top.head
    BY <1>3 DEF CanApply
  <2>2. BoundedState(s) /\ AllBounded(CommitTo([StartSession(c) EXCEPT !.top = s], s.lib))
    BY <1>1, <2>1, AppliedBounded
  <2>3. s \in StateRecord /\ s.head = b
    BY <1>1, HeadMovedType, ContentsFacts
  <2>4. s.lib <= Num(b) /\ s.lib \in Nat
    BY <2>2, <2>3 DEF BoundedState, StateRecord
  <2> HIDE DEF s
  <2>5. s.lib > Num(reported) => Path[b][s.lib] \in Block
    <3>1. Path[b] \in Seq(Block) /\ Len(Path[b]) = Num(b) /\ Num(b) \in Nat /\ Num(reported) \in Nat
      BY <1>1, PathOf, NumOf DEF Num
    <3> QED
      BY <2>4, <3>1
  <2>6. reported' = IF s.lib > Num(reported) THEN Path[b][s.lib] ELSE reported
    BY <1>3 DEF s
  <2>7. AllBounded(ClearPending')
    BY <1>3, <2>2 DEF s
  <2> QED
    BY <1>1, <2>5, <2>6, <2>7 DEF Blocks
<1> QED
  BY <1>2, <1>3 DEF Moves

LEMMA BaseKept ==
  ASSUME CallRight, step # "down"
  PROVE  Base(cb) = Base(ClearPending)
<1>1. CASE ~session
  BY <1>1 DEF ClearPending
<1>2. CASE session
  <2> DEFINE u == UndoSession(cb)
  <2>1. cb \in Contents /\ cb.stack # <<>> /\ ClearPending = u
    BY <1>2 DEF CallRight, SessionRight, ClearPending
  <2>2. /\ u \in Contents /\ Len(cb.stack) \in Nat \ {0} /\ u.top = cb.stack[Len(cb.stack)]
        /\ Len(u.stack) = Len(cb.stack) - 1
        /\ \A i \in 1 .. Len(cb.stack) - 1 : u.stack[i] = cb.stack[i]
    BY <2>1, UndoSessionType
  <2> HIDE DEF u
  <2>3. Base(cb) = cb.stack[1]
    BY <2>1 DEF Base
  <2>4. u.stack \in Seq(StateRecord)
    BY <2>2, ContentsFacts
  <2>5. CASE u.stack = <<>>
    <3>1. Len(cb.stack) = 1
      BY <2>2, <2>5
    <3> QED
      BY <2>1, <2>2, <2>3, <2>5, <3>1 DEF Base
  <2>6. CASE u.stack # <<>>
    <3>1. Len(u.stack) # 0
      BY <2>4, <2>6, EmptySeq
    <3>2. 1 \in 1 .. Len(cb.stack) - 1
      <4>1. ASSUME NEW k \in Nat \ {0}, k - 1 # 0 PROVE 1 \in 1 .. k - 1
        BY <4>1
      <4> QED
        BY ONLY <2>2, <3>1, <4>1
    <3> QED
      BY <2>1, <2>2, <2>3, <2>6, <3>2 DEF Base
  <2> QED
    BY <2>5, <2>6
<1> QED
  BY <1>1, <1>2

LEMMA BaseOfChain ==
  ASSUME NEW c, StackRight(c)
  PROVE  /\ Num(c.top.head) - Len(c.stack) \in 0 .. Num(c.top.head)
         /\ Base(c).head = Ancestor(c.top.head, Num(c.top.head) - Len(c.stack))
<1>1. c \in Contents /\ Chained(c)
  BY DEF StackRight
<1>2. Len(c.stack) \in Nat /\ Num(c.top.head) \in Nat /\ c.top.head \in Blocks /\ c.stack \in Seq(StateRecord)
  BY <1>1, ContentsFacts
<1>3. CASE c.stack = <<>>
  <2>1. Len(c.stack) = 0 /\ Num(c.top.head) - 0 = Num(c.top.head) /\ Base(c) = c.top
    BY <1>2, <1>3 DEF Base
  <2> QED
    BY <1>2, <2>1, AncestorItself
<1>4. CASE c.stack # <<>>
  <2>1. 1 \in 1 .. Len(c.stack) /\ Base(c) = c.stack[1]
    BY <1>2, <1>4, EmptySeq DEF Base
  <2>2. Num(c.top.head) - Len(c.stack) + 1 - 1 = Num(c.top.head) - Len(c.stack)
    BY <1>2
  <2>3. c.stack[1].head = Ancestor(c.top.head, Num(c.top.head) - Len(c.stack))
    BY <1>1, <2>1, <2>2 DEF Chained
  <2>4. Len(c.stack) <= Num(c.top.head)
    BY <1>1 DEF Chained
  <2>5. Num(c.top.head) - Len(c.stack) \in 0 .. Num(c.top.head)
    BY <1>2, <2>4
  <2> QED
    BY <2>1, <2>3, <2>5
<1> QED
  BY <1>3, <1>4

LEMMA BaseBounded ==
  ASSUME NEW c \in Contents, AllBounded(c)
  PROVE  BoundedState(Base(c))
<1>1. c.stack # <<>> => 1 \in 1 .. Len(c.stack)
  BY ContentsFacts, EmptySeq
<1> QED
  BY <1>1 DEF Base, AllBounded

LEMMA BoundInit == Init => BoundInv
<1> SUFFICES ASSUME Init PROVE BoundInv
  OBVIOUS
<1>1. ClearPending = cb /\ cb.top = GenesisState /\ cb.stack = <<>>
  BY DEF Init, ClearPending
<1>2. AllBounded(cb)
  BY <1>1, GenesisBounded DEF AllBounded
<1> QED
  BY <1>1, <1>2, PathOfGenesis DEF Init, BoundInv

LEMMA BoundStep ==
  CallRight /\ LogRight /\ BoundInv /\ [Operating]_vars => BoundInv'
<1> SUFFICES ASSUME CallRight, LogRight, BoundInv, [Operating]_vars PROVE BoundInv'
  OBVIOUS
<1>1. CASE Running
  <2>1. step # "down" /\ step' # "down" /\ Moves
    BY <1>1, RunningLog, RunningGood DEF Good
  <2> QED
    BY <2>1, MovesBounded DEF BoundInv
<1>20. ASSUME step # "down" PROVE BoundedState(Base(cb)) /\ BoundedState(Base(ClearPending))
  <2>1. ClearPending \in Contents /\ AllBounded(ClearPending)
    BY <1>20 DEF CallRight, StackRight, BoundInv
  <2> QED
    BY <1>20, <2>1, BaseKept, BaseBounded
<1>2. CASE Crash
  <2>1. step # "down" /\ step' = "down" /\ cb' = cb /\ reported' = reported
    BY <1>2 DEF Crash, Stopped
  <2> QED
    BY <1>20, <2>1 DEF BoundInv
<1>3. CASE Close
  <2>1. step = "idle" /\ step' = "down" /\ cb' = ClearPending /\ reported' = reported
    BY <1>3 DEF Close, Stopped
  <2> QED
    BY <1>20, <2>1 DEF BoundInv
<1>30. ASSUME step = "down", cb' \in Contents, cb'.stack = <<>>, BoundedState(cb'.top), session' = session,
              reported' \in Blocks
       PROVE  BoundInv'
  <2>1. session' = FALSE
    BY <1>30 DEF CallRight, SessionRight
  <2>2. ClearPending' = cb' /\ Base(cb') = cb'.top
    BY <1>30, <2>1 DEF ClearPending, Base
  <2>3. AllBounded(cb')
    BY <1>30 DEF AllBounded
  <2> QED
    BY <1>30, <2>2, <2>3 DEF BoundInv
<1>4. CASE Open
  <2>1. step = "down" /\ cb' = UndoAll(cb) /\ UNCHANGED <<session, reported>>
    BY <1>4 DEF Open
  <2>2. cb' \in Contents /\ cb'.stack = <<>> /\ cb'.top = Base(cb)
    BY <2>1, UndoAllType DEF CallRight
  <2> QED
    BY <1>30, <2>1, <2>2 DEF BoundInv
<1>5. CASE UNCHANGED vars
  BY <1>5 DEF vars, BoundInv, ClearPending, Base
<1> QED
  BY <1>1, <1>2, <1>3, <1>4, <1>5 DEF Operating

-----------------------------------------------------------------------------
(* What was reported irreversible stays below the undo stack.                *)

Kept(c) ==
  /\ c.revision = Num(c.top.head)
  /\ OnPath(reported, c.top.head)
  /\ Num(reported) <= Num(c.top.head) - Len(c.stack)

\* The files of a node that is down are those of its last call.
KeptInFiles ==
  /\ OneChain(Path[reported], Path[cb.top.head])
  /\ OnPath(reported, Base(cb).head)

KeptInv ==
  /\ step # "down" => Kept(ClearPending)
  /\ step = "down" => KeptInFiles

LEMMA OnPathBelow ==
  ASSUME NEW r \in Blocks, NEW h \in Blocks, NEW n \in 0 .. Num(h), OnPath(r, h), Num(r) <= n
  PROVE  OnPath(r, Ancestor(h, n))
<1>1. Num(r) \in 0 .. n /\ Num(r) \in Nat
  BY NumOf
<1>2. Ancestor(Ancestor(h, n), Num(r)) = Ancestor(h, Num(r))
  BY <1>1, AncestorOfAncestor
<1>3. Num(Ancestor(h, n)) = n
  BY PathOfAncestor
<1> QED
  BY <1>2, <1>3 DEF OnPath

LEMMA OnPathOneChain ==
  ASSUME NEW r \in Blocks, NEW h \in Blocks
  PROVE  /\ OnPath(r, h) => OneChain(Path[r], Path[h]) /\ OneChain(Path[h], Path[r])
         /\ OneChain(Path[r], Path[h]) => OnPath(r, h) \/ OnPath(h, r)
  BY OnPathPrefix DEF OneChain

LEMMA MovesKeep ==
  ASSUME CallRight, step # "down", BoundInv, Kept(ClearPending), Moves
  PROVE  Kept(ClearPending)'
<1> DEFINE c == ClearPending
           h == c.top.head
           N == Len(c.stack)
<1>1. /\ c \in Contents /\ StackRight(c) /\ reported \in Blocks /\ AllBounded(c)
      /\ h \in Blocks /\ Num(h) \in Nat /\ N \in Nat /\ Num(reported) \in Nat /\ c.revision \in Int
  BY ContentsFacts, NumOf DEF CallRight, StackRight, BoundInv
<1>2. c.revision = Num(h) /\ OnPath(reported, h) /\ Num(reported) <= Num(h) - N
  BY DEF Kept
<1>3. CASE reported' = reported /\ ClearPending' = c
  BY <1>2, <1>3 DEF Kept
<1>4. CASE reported' = reported /\ ClearPending' = UndoSession(c)
  <2> DEFINE u == UndoSession(c)
  <2>1. CASE c.stack = <<>>
    <3>1. u = c
      BY <1>1, <2>1, UndoSessionType
    <3> QED
      BY <1>2, <1>4, <3>1 DEF Kept
  <2>2. CASE c.stack # <<>>
    <3>1. /\ Num(h) > 0 /\ u.top.head = Ancestor(h, Num(h) - 1) /\ Num(u.top.head) = Num(h) - 1
      BY <1>1, <2>2, UndoSessionRight
    <3>2. N \in Nat \ {0} /\ Len(u.stack) = N - 1 /\ u.revision = c.revision - 1
      BY <1>1, <2>2, UndoSessionType
    <3> HIDE DEF c, u, h, N
    <3>3. Num(h) - 1 \in 0 .. Num(h) /\ Num(reported) <= Num(h) - 1
          /\ Num(reported) <= (Num(h) - 1) - (N - 1)
      BY <1>1, <1>2, <3>1, <3>2
    <3>4. OnPath(reported, u.top.head)
      BY <1>1, <1>2, <3>1, <3>3, OnPathBelow
    <3>5. u.revision = Num(u.top.head) /\ Num(reported) <= Num(u.top.head) - Len(u.stack)
      BY <1>2, <3>1, <3>2, <3>3
    <3>6. ClearPending' = u /\ reported' = reported
      BY <1>4 DEF u
    <3> QED
      BY <3>4, <3>5, <3>6 DEF Kept
  <2> QED
    BY <2>1, <2>2
<1>5. CASE reported' = reported /\ ClearPending' = [c EXCEPT !.top.whole = TRUE]
  <2> DEFINE d == [c EXCEPT !.top.whole = TRUE]
  <2>1. d.stack = c.stack /\ d.revision = c.revision /\ d.top.head = h
    BY <1>1, WholeType
  <2>2. ClearPending' = d
    BY <1>5
  <2> HIDE DEF d
  <2> QED
    BY <1>2, <1>5, <2>1, <2>2 DEF Kept
<1>6. ASSUME NEW b \in Block, CanApply(c.top, b),
             ClearPending' = CommitTo([StartSession(c) EXCEPT !.top = HeadMoved(c.top, b)], HeadMoved(c.top, b).lib),
             reported' = IF HeadMoved(c.top, b).lib > Num(reported) THEN Path[b][HeadMoved(c.top, b).lib] ELSE reported
      PROVE  Kept(ClearPending)'
  <2> DEFINE s == HeadMoved(c.top, b)
             d == [StartSession(c) EXCEPT !.top = s]
             e == CommitTo(d, s.lib)
  <2>1. Previous(b) = h
    BY <1>6 DEF CanApply
  <2>2. BoundedState(s)
    BY <1>1, <2>1, AppliedBounded
  <2>3. s \in StateRecord /\ s.head = b
    BY <1>1, HeadMovedType, ContentsFacts
  <2>4. s.lib <= Num(b) /\ s.lib \in Nat
    BY <2>2, <2>3 DEF BoundedState, StateRecord
  <2>5. d \in Contents /\ d.top = s /\ Len(d.stack) = N + 1 /\ d.revision = c.revision + 1
    BY <1>1, <2>3, StartSessionType
  <2>50. reported' = (IF s.lib > Num(reported) THEN Path[b][s.lib] ELSE reported) /\ ClearPending' = e
    BY <1>6
  <2> HIDE DEF s, d, c, h, N
  <2>6. e.top = s /\ e.revision = d.revision
    BY <2>4, <2>5, CommitToType
  <2>7. PICK k \in 0 .. Len(d.stack) :
          /\ Len(e.stack) = Len(d.stack) - k
          /\ k = Len(d.stack) \/ s.lib <= (d.revision - Len(d.stack)) + k
    BY <2>4, <2>5, CommitToType
  <2> HIDE DEF e
  <2>8. /\ b \in Blocks /\ Num(b) \in Nat /\ Num(b) = Num(h) + 1 /\ h = Ancestor(b, Num(h))
    <3>1. Num(Previous(b)) = Num(b) - 1 /\ Previous(b) = Ancestor(b, Num(b) - 1) /\ Num(b) \in Nat
      BY PathOf
    <3>2. Num(b) = Num(h) + 1 /\ Num(b) - 1 = Num(h)
      BY <1>1, <2>1, <3>1
    <3> QED
      BY <2>1, <3>1, <3>2 DEF Blocks
  <2>9. e.revision = Num(b) /\ e.top.head = b
    BY <1>1, <1>2, <2>3, <2>5, <2>6, <2>8
  <2>10. CASE s.lib > Num(reported)
    <3>1. reported' = Ancestor(b, s.lib) /\ s.lib \in 0 .. Num(b)
      BY <1>1, <2>4, <2>8, <2>10, <2>50 DEF Ancestor
    <3>2. Num(reported') = s.lib
      BY <2>8, <3>1, PathOfAncestor
    <3>3. OnPath(reported', b)
      BY <2>4, <3>1, <3>2 DEF OnPath
    <3>4. s.lib <= Num(b) - Len(e.stack)
      <4>1. CASE k = Len(d.stack)
        <5>1. Len(e.stack) = 0
          BY <1>1, <2>5, <2>7, <4>1
        <5> QED
          BY <2>4, <2>8, <5>1
      <4>2. CASE s.lib <= (d.revision - Len(d.stack)) + k
        BY <1>1, <1>2, <2>4, <2>5, <2>7, <2>8, <4>2
      <4> QED
        BY <2>7, <4>1, <4>2
    <3> QED
      BY <2>9, <2>50, <3>2, <3>3, <3>4 DEF Kept
  <2>11. CASE ~(s.lib > Num(reported))
    <3>1. reported' = reported
      BY <2>11, <2>50
    <3>2. OnPath(h, b)
      BY <1>1, <2>8 DEF OnPath
    <3>3. OnPath(reported, b)
      BY <1>1, <1>2, <2>8, <3>2, OnPathTransitive
    <3>4. Num(reported) <= Num(b) - Len(e.stack)
      BY <1>1, <1>2, <2>5, <2>7, <2>8
    <3> QED
      BY <2>9, <2>50, <3>1, <3>3, <3>4 DEF Kept
  <2> QED
    BY <2>10, <2>11
<1> QED
  BY <1>3, <1>4, <1>5, <1>6 DEF Moves

\* A node that stops leaves its base behind.
LEMMA StoppedKeeps ==
  ASSUME CallRight, step # "down", BoundInv, Kept(ClearPending)
  PROVE  /\ OneChain(Path[reported], Path[cb.top.head])
         /\ OnPath(reported, Base(cb).head) /\ OnPath(reported, Base(ClearPending).head)
         /\ ClearPending.top.head = cb.top.head
<1> DEFINE c == ClearPending
           h == c.top.head
<1>1. /\ c \in Contents /\ StackRight(c) /\ reported \in Blocks /\ h \in Blocks
      /\ c.top.head = cb.top.head /\ Base(cb) = Base(c)
  BY BaseKept, ContentsFacts, ClearPendingKeeps DEF StackRight, BoundInv
<1>2. OnPath(reported, h) /\ Num(reported) <= Num(h) - Len(c.stack)
  BY DEF Kept
<1>3. Num(h) - Len(c.stack) \in 0 .. Num(h) /\ Base(c).head = Ancestor(h, Num(h) - Len(c.stack))
  BY <1>1, BaseOfChain
<1> HIDE DEF c, h
<1>4. OnPath(reported, Base(c).head)
  BY <1>1, <1>2, <1>3, OnPathBelow
<1>5. OneChain(Path[reported], Path[h])
  BY <1>1, <1>2, OnPathOneChain
<1> QED
  BY <1>1, <1>4, <1>5 DEF c, h

LEMMA KeptInit == Init => KeptInv
<1> SUFFICES ASSUME Init PROVE KeptInv
  OBVIOUS
<1>1. ClearPending = cb /\ cb.top.head = Genesis /\ cb.stack = <<>> /\ cb.revision = 0
      /\ step = "idle" /\ reported = Genesis
  BY DEF Init, ClearPending, GenesisState
<1>2. Len(cb.stack) = 0
  BY <1>1
<1>3. OnPath(Genesis, Genesis)
  BY PathOfGenesis DEF OnPath, Ancestor
<1> QED
  BY <1>1, <1>2, <1>3, PathOfGenesis DEF KeptInv, Kept

LEMMA KeptStep == CallRight /\ LogRight /\ BoundInv /\ KeptInv /\ [Operating]_vars => KeptInv'
<1> SUFFICES ASSUME CallRight, LogRight, BoundInv, KeptInv, [Operating]_vars
             PROVE  KeptInv'
  OBVIOUS
<1>0. reported \in Blocks /\ Num(reported) \in Nat
  BY NumOf DEF BoundInv
<1>1. CASE Running
  <2>1. step # "down" /\ step' # "down" /\ Moves
    BY <1>1, RunningLog, RunningGood DEF Good
  <2>2. Kept(ClearPending)'
    BY <2>1, MovesKeep DEF KeptInv
  <2> QED
    BY <2>1, <2>2 DEF KeptInv
<1>2. CASE Crash
  <2>1. step # "down" /\ step' = "down" /\ cb' = cb /\ reported' = reported
    BY <1>2 DEF Crash, Stopped
  <2>2. OneChain(Path[reported], Path[cb.top.head]) /\ OnPath(reported, Base(cb).head)
    BY <2>1, StoppedKeeps DEF KeptInv
  <2> QED
    BY <2>1, <2>2 DEF KeptInv, KeptInFiles
<1>3. CASE Close
  <2>1. step = "idle" /\ step' = "down" /\ cb' = ClearPending /\ reported' = reported
    BY <1>3 DEF Close, Stopped
  <2>2. OneChain(Path[reported], Path[ClearPending.top.head]) /\ OnPath(reported, Base(ClearPending).head)
    BY <2>1, StoppedKeeps DEF KeptInv
  <2> QED
    BY <2>1, <2>2 DEF KeptInv, KeptInFiles
<1>30. ASSUME step = "down", cb' \in Contents, cb'.stack = <<>>, cb'.revision = Num(cb'.top.head),
              step' = "idle", session' = session, reported' \in Blocks, OnPath(reported', cb'.top.head)
       PROVE  KeptInv'
  <2>1. session' = FALSE
    BY <1>30 DEF CallRight, SessionRight
  <2>2. ClearPending' = cb' /\ Len(cb'.stack) = 0
    BY <1>30, <2>1 DEF ClearPending
  <2>3. Num(reported') <= Num(cb'.top.head) /\ Num(cb'.top.head) \in Nat
    BY <1>30, ContentsFacts DEF OnPath
  <2>4. Num(reported') <= Num(cb'.top.head) - Len(cb'.stack)
    BY <2>2, <2>3
  <2> QED
    BY <1>30, <2>2, <2>4 DEF KeptInv, Kept
<1>4. CASE Open
  <2> DEFINE c == UndoAll(cb)
  <2>1. step = "down" /\ cb' = c /\ UNCHANGED <<session, reported>>
        /\ \/ OpenChecks(c) /\ step' = "idle"
           \/ step' = "down"
    BY <1>4 DEF Open
  <2>2. /\ c \in Contents /\ c.stack = <<>> /\ c.top = Base(cb) /\ Base(cb) \in StateRecord
        /\ c.revision = cb.revision - Len(cb.stack) /\ cb.revision \in Int
    BY UndoAllType DEF CallRight, Contents
  <2> HIDE DEF c
  <2>3. Base(c) = c.top /\ c.top.head \in Blocks
    BY <2>2, ContentsFacts DEF Base
  <2>4. OnPath(reported, Base(cb).head)
    BY <2>1 DEF KeptInv, KeptInFiles
  <2>5. CASE OpenChecks(c) /\ step' = "idle"
    <3>1. c.revision = Num(c.top.head)
      BY <2>5 DEF OpenChecks
    <3> QED
      BY <1>0, <1>30, <2>1, <2>2, <2>4, <2>5, <3>1
  <2>6. CASE step' = "down"
    <3>1. OneChain(Path[reported], Path[c.top.head])
      BY <1>0, <2>2, <2>3, <2>4, OnPathOneChain
    <3> QED
      BY <2>1, <2>2, <2>3, <2>4, <2>6, <3>1 DEF KeptInv, KeptInFiles
  <2> QED
    BY <2>1, <2>5, <2>6
<1>5. CASE UNCHANGED vars
  BY <1>5 DEF vars, KeptInv, Kept, KeptInFiles, ClearPending, Base
<1> QED
  BY <1>1, <1>2, <1>3, <1>4, <1>5 DEF Operating

\* A block reported irreversible is never given up: no sequence of blocks, forks,
\* failures, crashes, stops and starts leads off it.  Nothing is assumed of the
\* blocks, of the fork database or of the block log.  Only a replay, which trusts
\* the block log, is left out.
THEOREM IrreversibleKept == Init /\ [][Operating]_vars => []IrreversibleStays
<1>1. [Operating]_vars => [Next]_vars
  BY DEF Next
<1>2. CallRight /\ BoundInv /\ KeptInv => IrreversibleStays
  <2> SUFFICES ASSUME CallRight, BoundInv, KeptInv PROVE IrreversibleStays
    OBVIOUS
  <2>1. CASE step # "down"
    BY <2>1, StoppedKeeps DEF KeptInv, IrreversibleStays
  <2>2. CASE step = "down"
    BY <2>2 DEF KeptInv, KeptInFiles, IrreversibleStays
  <2> QED
    BY <2>1, <2>2
<1> QED
  BY <1>1, <1>2, CallInit, CallStep, BoundInit, BoundStep, KeptInit, KeptStep, PTL

-----------------------------------------------------------------------------
(* The types.                                                                *)

SizeInv == fork.maxSize \in Nat /\ threw \in BOOLEAN

LEMMA MaxSizeKept ==
  ASSUME NEW f, ForkRight(f), NEW b, NEW S
  PROVE  /\ ForkPush(f, b).maxSize = f.maxSize /\ SetHead(f, b).maxSize = f.maxSize
         /\ ForkRemove(f, S).maxSize = f.maxSize /\ StartBlock(f, b).maxSize = f.maxSize
         /\ DropDeadLinks(f, S).maxSize = f.maxSize
<1>1. f \in ForkRecord
  BY DEF ForkRight
<1>2. ForkPush(f, b).maxSize = f.maxSize /\ StartBlock(f, b).maxSize = f.maxSize
  BY <1>1 DEF ForkRecord, ForkPush, StartBlock
<1>3. SetHead(f, b).maxSize = f.maxSize /\ ForkRemove(f, S).maxSize = f.maxSize
  BY <1>1 DEF ForkRecord, SetHead, ForkRemove
<1>4. DropDeadLinks(f, S).maxSize = f.maxSize
  BY <1>1 DEF ForkRecord, DropDeadLinks
<1> QED
  BY <1>2, <1>3, <1>4

LEMMA LeaveSize ==
  ASSUME NEW c, NEW f, ForkRight(f), f.maxSize \in Nat, NEW x \in BOOLEAN, NEW txs, Leave(c, f, txs, x)
  PROVE  SizeInv'
<1>1. fork' = DropDeadLinks(f, {}) /\ threw' = x
  BY DEF Leave
<1> QED
  BY <1>1, MaxSizeKept DEF SizeInv

LEMMA ApplyFailsSize ==
  ASSUME NEW c, CallRight, step \in {"begin", "log", "tasks"}, SizeInv, ApplyFails(c)
  PROVE  SizeInv'
<1>0. ForkRight(fork) /\ fork.maxSize \in Nat /\ threw \in BOOLEAN /\ job.mode \in {"direct", "switch", "restore"}
  BY DEF CallRight, JobRight, JobRecord, SizeInv
<1>1. CASE job.mode = "direct"
  <2>1. Leave(c, ForkRemove(fork, {job.block}), popped, TRUE)
    BY <1>1 DEF ApplyFails
  <2>2. ForkRight(ForkRemove(fork, {job.block})) /\ ForkRemove(fork, {job.block}).maxSize = fork.maxSize
    BY <1>0, ForkRemoveRight, MaxSizeKept
  <2> QED
    BY <1>0, <2>1, <2>2, LeaveSize
<1>2. CASE job.mode = "restore"
  <2>1. Leave(c, fork, popped, TRUE)
    BY <1>2 DEF ApplyFails
  <2> QED
    BY <1>0, <2>1, LeaveSize
<1>3. CASE job.mode = "switch"
  <2> DEFINE f == ForkRemove(fork, Range(job.todo))
  <2>1. fork' = SetHead(f, Last(job.second)) /\ threw' = threw
    BY <1>3 DEF ApplyFails
  <2>2. ForkRight(f) /\ f.maxSize = fork.maxSize
    BY <1>0, ForkRemoveRight, MaxSizeKept
  <2> HIDE DEF f
  <2> QED
    BY <1>0, <2>1, <2>2, MaxSizeKept DEF SizeInv
<1> QED
  BY <1>0, <1>1, <1>2, <1>3

\* set_max_size: the distance from the head to the irreversible block.
LEMMA TrimmedSize ==
  ASSUME NEW f, ForkRight(f), NEW s \in StateRecord, BoundedState(s)
  PROVE  Trimmed(f, s).maxSize \in Nat
<1> DEFINE z == Num(s.head) - s.lib + 1
           g == SetMaxSize(f, z)
<1>1. s.head \in Blocks /\ s.lib \in Nat /\ s.lib <= Num(s.head)
  BY DEF StateRecord, BoundedState, Blocks
<1>2. z \in Nat
  BY <1>1, NumOf
<1> HIDE DEF z
<1>20. z \in Int
  BY <1>2
<1>3. ForkRight(g) /\ g.maxSize = z
  BY <1>20 DEF ForkRight, ForkRecord, SetMaxSize
<1>4. Trimmed(f, s) = DropDeadLinks(g, Held)
  BY DEF Trimmed, z
<1> HIDE DEF g
<1> QED
  BY <1>2, <1>3, <1>4, MaxSizeKept

LEMMA RunningSize ==
  ASSUME CallRight, BoundInv, SizeInv, Running
  PROVE  SizeInv'
<1>0. ForkRight(fork) /\ fork.maxSize \in Nat /\ threw \in BOOLEAN
  BY DEF CallRight, SizeInv
<1>1. ASSUME NEW b \in Block, PushRefused(b) \/ PushStored(b) \/ PushOnHead(b) \/ PushOnFork(b)
      PROVE  SizeInv'
  <2> DEFINE f == ForkPush(fork, b)
  <2>1. ForkRight(f) /\ f.maxSize \in Nat
    BY <1>0, ForkPushRight, MaxSizeKept
  <2>2. \/ Leave(ClearPending, fork, popped, TRUE)
        \/ Leave(ClearPending, f, popped, FALSE)
        \/ Leave(ClearPending, f, popped, TRUE)
        \/ fork' = f /\ threw' = threw
    BY <1>1 DEF PushRefused, PushStored, PushOnHead, PushOnFork
  <2> HIDE DEF f
  <2>3. CASE fork' = f /\ threw' = threw
    BY <1>0, <2>1, <2>3 DEF SizeInv
  <2> QED
    BY <1>0, <2>1, <2>2, <2>3, LeaveSize
<1>2. CASE PushTransaction
  BY <1>0, <1>2 DEF PushTransaction, SizeInv
<1>3. CASE PopBlock
  BY <1>0, <1>3, MaxSizeKept DEF PopBlock, SizeInv
<1>4. CASE PopFails
  BY <1>0, <1>4, LeaveSize DEF PopFails
<1>5. CASE BeginBlock
  <2> DEFINE b == Head(job.todo)
             s == HeadMoved(cb.top, b)
  <2>1. step = "begin"
    BY <1>5 DEF BeginBlock
  <2>2. cb \in Contents /\ AllBounded(cb) /\ b \in Block
    <3>1. job.todo \in Seq(Block) /\ job.todo # <<>>
      BY <2>1 DEF CallRight, JobRight, JobRecord
    <3> QED
      BY <2>1, <3>1, NoSession, LastIn DEF BoundInv
  <2>3. \/ ApplyFails(cb)
        \/ threw' = threw /\ fork' = fork
        \/ threw' = threw /\ CanApply(cb.top, b) /\ fork' = Trimmed(fork, s)
    BY <1>5 DEF BeginBlock
  <2>4. CASE ApplyFails(cb)
    BY <2>1, <2>4, ApplyFailsSize
  <2>5. CASE threw' = threw /\ fork' = fork
    BY <1>0, <2>5 DEF SizeInv
  <2>6. CASE threw' = threw /\ CanApply(cb.top, b) /\ fork' = Trimmed(fork, s)
    <3>1. Previous(b) = cb.top.head
      BY <2>6 DEF CanApply
    <3>2. BoundedState(s) /\ s \in StateRecord
      BY <2>2, <3>1, AppliedBounded, HeadMovedType, ContentsFacts
    <3> HIDE DEF s
    <3> QED
      BY <1>0, <2>6, <3>2, TrimmedSize DEF SizeInv
  <2> QED
    BY <2>3, <2>4, <2>5, <2>6
<1>6. CASE AppendBlock
  <2>1. step = "log"
    BY <1>6 DEF AppendBlock
  <2>2. \/ ApplyFails(UndoSession(cb))
        \/ threw' = threw /\ fork' = fork
        \/ threw' = threw /\ fork' = Trimmed(fork, cb.top)
    BY <1>6 DEF AppendBlock
  <2>3. CASE ApplyFails(UndoSession(cb))
    BY <2>1, <2>3, ApplyFailsSize
  <2>4. CASE threw' = threw /\ fork' = fork
    BY <1>0, <2>4 DEF SizeInv
  <2>5. CASE threw' = threw /\ fork' = Trimmed(fork, cb.top)
    <3>1. cb \in Contents /\ AllBounded(cb)
      BY <2>1, NoSession DEF BoundInv
    <3>2. cb.top \in StateRecord /\ BoundedState(cb.top)
      BY <3>1, ContentsFacts DEF AllBounded
    <3> QED
      BY <1>0, <2>5, <3>2, TrimmedSize DEF SizeInv
  <2> QED
    BY <2>2, <2>3, <2>4, <2>5
<1>7. CASE EndBlock
  <2>1. step = "tasks"
    BY <1>7 DEF EndBlock
  <2> DEFINE c == [cb EXCEPT !.top.whole = TRUE]
             x == job.mode = "restore"
  <2>2. \/ ApplyFails(UndoSession(cb))
        \/ Leave(c, fork, popped, x)
        \/ threw' = threw /\ fork' = fork
    BY <1>7 DEF EndBlock
  <2>3. CASE ApplyFails(UndoSession(cb))
    BY <2>1, <2>3, ApplyFailsSize
  <2>4. x \in BOOLEAN
    OBVIOUS
  <2> HIDE DEF c, x
  <2>5. CASE Leave(c, fork, popped, x)
    BY <1>0, <2>4, <2>5, LeaveSize
  <2>6. CASE threw' = threw /\ fork' = fork
    BY <1>0, <2>6 DEF SizeInv
  <2> QED
    BY <2>2, <2>3, <2>5, <2>6
<1> QED
  BY <1>1, <1>2, <1>3, <1>4, <1>5, <1>6, <1>7 DEF Running, PushBlock, Working

LEMMA SizeStep ==
  CallRight /\ LogRight /\ BoundInv /\ SizeInv /\ [Operating]_vars => SizeInv'
<1> SUFFICES ASSUME CallRight, LogRight, BoundInv, SizeInv, [Operating]_vars PROVE SizeInv'
  OBVIOUS
<1>0. ForkRight(fork) /\ fork.maxSize \in Nat /\ threw \in BOOLEAN
  BY DEF CallRight, SizeInv
<1>1. CASE Running
  BY <1>1, RunningSize
<1>2. CASE Crash \/ Close
  <2>1. threw' = FALSE /\ fork' = EmptyFork(FORK_DB_SIZE)
    BY <1>2 DEF Crash, Close, Stopped
  <2> QED
    BY <2>1, BoundAssumption DEF SizeInv, EmptyFork
<1>3. CASE Open
  <2>1. threw' \in BOOLEAN /\ (fork' = fork \/ fork' = StartBlock(fork, UndoAll(cb).top.head))
    BY <1>0, <1>3 DEF Open
  <2> QED
    BY <1>0, <2>1, MaxSizeKept DEF SizeInv
<1>4. CASE UNCHANGED vars
  BY <1>0, <1>4 DEF vars, SizeInv
<1> QED
  BY <1>1, <1>2, <1>3, <1>4 DEF Operating

\* Of a node that is not replayed every variable has its type.  Among the types are
\* the fork database's window, an unsigned difference that would wrap around if the
\* irreversible block could be above the head, and push_block's list, which has a
\* block to apply whenever one is applied.
THEOREM ChainTypes == Init /\ [][Operating]_vars => []TypeOK
<1>1. [Operating]_vars => [Next]_vars
  BY DEF Next
<1>2. Init => SizeInv
  <2> SUFFICES ASSUME Init PROVE SizeInv
    OBVIOUS
  <2>1. fork = EmptyFork(FORK_DB_SIZE) /\ threw = FALSE
    BY DEF Init
  <2>2. EmptyFork(FORK_DB_SIZE).maxSize = FORK_DB_SIZE /\ FORK_DB_SIZE \in Nat
    BY BoundAssumption DEF EmptyFork
  <2> QED
    BY <2>1, <2>2 DEF SizeInv
<1>3. CallRight /\ LogRight /\ BoundInv /\ SizeInv => TypeOK
  <2> SUFFICES ASSUME CallRight, LogRight, BoundInv, SizeInv PROVE TypeOK
    OBVIOUS
  <2>1. cb \in [top : StateRecord, stack : Seq(StateRecord), revision : Int]
    BY DEF CallRight, Contents
  <2>2. fork \in [index : SUBSET Block, linked : SUBSET Block,
               head : Block \cup {Genesis}, headLinked : BOOLEAN, maxSize : Nat]
    BY DEF CallRight, ForkRight, ForkRecord, SizeInv, Blocks
  <2>3. log \in [blocks : Seq(Block), flushed : Nat] /\ log.flushed <= Len(log.blocks)
    BY DEF LogRight
  <2>4. job \in JobRecord /\ (step \in {"begin", "log", "tasks"} => job.todo # <<>>)
    BY DEF CallRight, JobRight
  <2> QED
    BY <2>1, <2>2, <2>3, <2>4 DEF TypeOK, CallRight, SizeInv, BoundInv, JobRecord, Blocks
<1> QED
  BY <1>1, <1>2, <1>3, CallInit, CallStep, BoundInit, BoundStep, SizeStep, PTL
=============================================================================
