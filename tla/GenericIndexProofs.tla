------------------------- MODULE GenericIndexProofs -------------------------
(***************************************************************************)
(* What chainbase's index guarantees for every set of keys and values and  *)
(* every bound, when its users never modify a unique key.                  *)
(*                                                                         *)
(* UndoRestores alone is not inductive: merging two undo states, or        *)
(* removing an object, restores the right table only because the ids an    *)
(* undo state created, kept the old value of, and removed are apart and on *)
(* the right side of old_next_id.  Fits says so for one undo state.        *)
(***************************************************************************)
EXTENDS GenericIndex, SequenceTheorems, TLAPS

\* What undo state u says of the table b below it, given the table t above.
Below(u, t, b) ==
  /\ DOMAIN b = (DOMAIN t \ u.new_ids) \cup DOMAIN u.removed_values
  /\ \A i \in DOMAIN u.removed_values : b[i] = u.removed_values[i]
  /\ \A i \in DOMAIN u.old_values : b[i] = u.old_values[i]
  /\ \A i \in (DOMAIN t \ u.new_ids) \ DOMAIN u.old_values : b[i] = t[i]

\* Undo state u leads back from table t and next id nid to table b and next
\* id bid.
Fits(u, t, nid, b, bid) ==
  /\ u.new_ids \subseteq DOMAIN t
  /\ DOMAIN u.old_values \subseteq DOMAIN t
  /\ u.new_ids \cap DOMAIN u.old_values = {}
  /\ DOMAIN u.removed_values \cap DOMAIN t = {}
  /\ u.old_next_id = bid /\ bid <= nid
  /\ \A i \in u.new_ids : bid <= i
  /\ \A i \in DOMAIN b : i < bid
  /\ \A i \in DOMAIN t : i < nid
  /\ Below(u, t, b)

Unique(t) == \A i, j \in DOMAIN t : t[i].key = t[j].key => i = j

SameKeys(t, b) == \A i \in DOMAIN t \cap DOMAIN b : t[i].key = b[i].key

\* Undo state n fits what lies above and below it, and its session changed no
\* key.
Sound(n) ==
  /\ Fits(stack[n], TableAbove(n), NextIdAbove(n), saved[n][1], saved[n][2])
  /\ SameKeys(TableAbove(n), saved[n][1])

TypeInv == TypeOK /\ Len(saved) = Len(stack)

IInv ==
  /\ TypeInv
  /\ \A i \in DOMAIN indices : i < next_id
  /\ Unique(indices)
  /\ \A n \in DOMAIN saved : Unique(saved[n][1])
  /\ \A n \in DOMAIN stack : Sound(n)
  /\ ~thrown

----------------------------------------------------------------------------
(* Tables. *)

\* A table is a function on a set of ids.
LEMMA TableElim ==
  ASSUME NEW t \in Table
  PROVE  /\ DOMAIN t \subseteq Ids
         /\ t = [i \in DOMAIN t |-> t[i]]
         /\ \A i \in DOMAIN t : t[i] \in Value
  BY DEF Table

LEMMA TableIntro ==
  ASSUME NEW D \in SUBSET Ids, NEW t \in [D -> Value]
  PROVE  t \in Table
  BY DEF Table

\* The operations on partial functions give tables.
LEMMA PutTable ==
  ASSUME NEW t \in Table, NEW i \in Ids, NEW v \in Value
  PROVE  Put(t, i, v) \in Table /\ DOMAIN Put(t, i, v) = DOMAIN t \cup {i}
<1>1. Put(t, i, v) \in [DOMAIN t \cup {i} -> Value]
  BY TableElim DEF Put
<1>2. DOMAIN t \cup {i} \in SUBSET Ids
  BY TableElim
<1> QED
  BY <1>1, <1>2, TableIntro

LEMMA WithoutTable ==
  ASSUME NEW t \in Table, NEW S
  PROVE  Without(t, S) \in Table /\ DOMAIN Without(t, S) = DOMAIN t \ S
<1>1. Without(t, S) \in [DOMAIN t \ S -> Value]
  BY TableElim DEF Without
<1>2. DOMAIN t \ S \in SUBSET Ids
  BY TableElim
<1> QED
  BY <1>1, <1>2, TableIntro

LEMMA OverrideTable ==
  ASSUME NEW t \in Table, NEW u \in Table
  PROVE  Override(t, u) \in Table /\ DOMAIN Override(t, u) = DOMAIN t \cup DOMAIN u
<1>1. Override(t, u) \in [DOMAIN t \cup DOMAIN u -> Value]
  BY TableElim DEF Override
<1>2. DOMAIN t \cup DOMAIN u \in SUBSET Ids
  BY TableElim
<1> QED
  BY <1>1, <1>2, TableIntro

LEMMA EmptyIsTable == EmptyTable \in Table /\ DOMAIN EmptyTable = {}
<1>1. EmptyTable \in [{} -> Value]
  BY DEF EmptyTable
<1> QED
  BY <1>1, TableIntro

\* Restricting a table.
LEMMA RestrictTable ==
  ASSUME NEW t \in Table, NEW D, D \subseteq DOMAIN t
  PROVE  [i \in D |-> t[i]] \in Table
<1>1. [i \in D |-> t[i]] \in [D -> Value]
  BY TableElim
<1>2. D \in SUBSET Ids
  BY TableElim
<1> QED
  BY <1>1, <1>2, TableIntro

\* Two tables with the same domain and the same values are the same.
LEMMA TableEqual ==
  ASSUME NEW t \in Table, NEW u \in Table, DOMAIN t = DOMAIN u,
         \A i \in DOMAIN t : t[i] = u[i]
  PROVE  t = u
  BY TableElim

----------------------------------------------------------------------------
(* Undo states. *)

LEMMA RollbackTable ==
  ASSUME NEW t \in Table, NEW u \in UndoState
  PROVE  /\ Rollback(t, u) \in Table
         /\ DOMAIN Rollback(t, u) =
              ((DOMAIN t \cup DOMAIN u.old_values) \ u.new_ids) \cup DOMAIN u.removed_values
         /\ \A i \in DOMAIN Rollback(t, u) :
              Rollback(t, u)[i] = IF i \in DOMAIN u.removed_values THEN u.removed_values[i]
                                  ELSE IF i \in DOMAIN u.old_values THEN u.old_values[i]
                                  ELSE t[i]
<1> DEFINE a == Override(t, u.old_values)
           b == Without(a, u.new_ids)
<1>0. u.old_values \in Table /\ u.removed_values \in Table
  BY DEF UndoState
<1>1. a \in Table /\ DOMAIN a = DOMAIN t \cup DOMAIN u.old_values
  BY <1>0, OverrideTable
<1>2. \A i \in DOMAIN a : a[i] = IF i \in DOMAIN u.old_values THEN u.old_values[i] ELSE t[i]
  BY DEF Override
<1>3. b \in Table /\ DOMAIN b = DOMAIN a \ u.new_ids
  BY <1>1, WithoutTable
<1>4. \A i \in DOMAIN b : b[i] = a[i]
  BY DEF Without
<1>5. Rollback(t, u) = Override(b, u.removed_values)
  BY DEF Rollback
<1> HIDE DEF a, b
<1>6. /\ Rollback(t, u) \in Table
      /\ DOMAIN Rollback(t, u) = DOMAIN b \cup DOMAIN u.removed_values
  BY <1>0, <1>3, <1>5, OverrideTable
<1>7. \A i \in DOMAIN Rollback(t, u) :
        Rollback(t, u)[i] = IF i \in DOMAIN u.removed_values THEN u.removed_values[i] ELSE b[i]
  BY <1>5, <1>6 DEF Override
<1> QED
  BY <1>1, <1>2, <1>3, <1>4, <1>6, <1>7

\* A fitting undo state rolls back to the table below it.
LEMMA FitsRollback ==
  ASSUME NEW t \in Table, NEW u \in UndoState, NEW b \in Table, NEW nid, NEW bid,
         Fits(u, t, nid, b, bid)
  PROVE  Rollback(t, u) = b
<1> DEFINE r == Rollback(t, u)
<1>1. /\ r \in Table
      /\ DOMAIN r = ((DOMAIN t \cup DOMAIN u.old_values) \ u.new_ids) \cup DOMAIN u.removed_values
      /\ \A i \in DOMAIN r : r[i] = IF i \in DOMAIN u.removed_values THEN u.removed_values[i]
                                    ELSE IF i \in DOMAIN u.old_values THEN u.old_values[i]
                                    ELSE t[i]
  BY RollbackTable
<1> HIDE DEF r
<1>2. DOMAIN r = DOMAIN b
  BY <1>1 DEF Fits, Below
<1>3. \A i \in DOMAIN r : r[i] = b[i]
  BY <1>1 DEF Fits, Below
<1>4. r = b
  BY <1>1, <1>2, <1>3, TableEqual
<1> QED
  BY <1>4 DEF r

\* undo() finds every object it wants and restores every value without a
\* collision, when the session kept the keys.
LEMMA FitsRestorable ==
  ASSUME NEW t \in Table, NEW u \in UndoState, NEW b \in Table, NEW nid, NEW bid,
         Fits(u, t, nid, b, bid), Unique(t), Unique(b), SameKeys(t, b)
  PROVE  Restorable(t, u)
<1>0. u.old_values \in Table /\ u.removed_values \in Table
  BY DEF UndoState
<1>1. Rollback(t, u) = b
  BY FitsRollback
<1>2. Below(u, t, b) /\ DOMAIN u.old_values \subseteq DOMAIN b
  BY DEF Fits, Below
<1>3. \A j \in DOMAIN u.old_values : u.old_values[j].key = t[j].key
  BY <1>2 DEF SameKeys, Fits, Below
<1>4. ASSUME NEW i \in DOMAIN u.old_values
      PROVE  ~Collides(RestoredBefore(t, u, i), i, u.old_values[i])
  <2> DEFINE r == RestoredBefore(t, u, i)
  <2>1. DOMAIN r = DOMAIN t /\ \A j \in DOMAIN t : r[j].key = t[j].key
    BY <1>3 DEF RestoredBefore
  <2>2. i \in DOMAIN t
    BY DEF Fits
  <2> HIDE DEF r
  <2>3. \A j \in DOMAIN r \ {i} : r[j].key # u.old_values[i].key
    BY <1>3, <2>1, <2>2 DEF Unique
  <2> QED
    BY <2>3 DEF Collides, r
<1>5. ASSUME NEW i \in DOMAIN u.removed_values
      PROVE  /\ i \notin DOMAIN Without(t, u.new_ids)
             /\ ~Collides(Rollback(t, u), i, u.removed_values[i])
  <2>1. i \notin DOMAIN Without(t, u.new_ids)
    BY DEF Fits, Without
  <2>2. i \in DOMAIN b /\ b[i] = u.removed_values[i]
    BY <1>2 DEF Below
  <2>3. ~Collides(b, i, u.removed_values[i])
    BY <2>2 DEF Collides, Unique
  <2> QED
    BY <1>1, <2>1, <2>3
<1> QED
  BY <1>4, <1>5 DEF Restorable, Fits

\* A new object is taken back by forgetting its id.
LEMMA CreateFits ==
  ASSUME NEW t \in Table, NEW u \in UndoState, NEW b \in Table, NEW nid \in Ids, NEW bid \in Ids,
         Fits(u, t, nid, b, bid), NEW v \in Value, nid < MaxId
  PROVE  /\ OnCreate(u, nid) \in UndoState
         /\ Fits(OnCreate(u, nid), Put(t, nid, v), nid + 1, b, bid)
<1> DEFINE w == OnCreate(u, nid)
           s == Put(t, nid, v)
<1>1. /\ w \in UndoState
      /\ w.new_ids = u.new_ids \cup {nid}
      /\ w.old_values = u.old_values
      /\ w.removed_values = u.removed_values
      /\ w.old_next_id = u.old_next_id
  BY DEF OnCreate, UndoState, Ids
<1>2. /\ DOMAIN s = DOMAIN t \cup {nid}
      /\ \A i \in DOMAIN t : i # nid => s[i] = t[i]
  BY DEF Put
<1>3. nid \notin DOMAIN t /\ nid \notin DOMAIN u.removed_values /\ DOMAIN t \subseteq Ids
  BY IndexAssumption, TableElim DEF Fits, Below, Ids
<1> HIDE DEF w, s
<1>4. Below(w, s, b)
  BY <1>1, <1>2, <1>3 DEF Fits, Below
<1>5. Fits(w, s, nid + 1, b, bid)
  <2>1. \A i \in DOMAIN s : i < nid + 1
    BY <1>2, <1>3, IndexAssumption DEF Fits, Ids
  <2>2. bid <= nid /\ bid <= nid + 1
    BY IndexAssumption DEF Fits, Ids
  <2> QED
    BY <1>1, <1>2, <1>3, <1>4, <2>1, <2>2 DEF Fits
<1> QED
  BY <1>1, <1>5 DEF w, s

\* The first modification of an object in a session keeps its old value.
LEMMA ModifyFits ==
  ASSUME NEW t \in Table, NEW u \in UndoState, NEW b \in Table, NEW nid \in Ids, NEW bid \in Ids,
         Fits(u, t, nid, b, bid), NEW i \in DOMAIN t, NEW v \in Value
  PROVE  /\ OnModify(u, i, t[i]) \in UndoState
         /\ Fits(OnModify(u, i, t[i]), [t EXCEPT ![i] = v], nid, b, bid)
<1> DEFINE w == OnModify(u, i, t[i])
           s == [t EXCEPT ![i] = v]
<1>1. DOMAIN s = DOMAIN t /\ \A j \in DOMAIN t : j # i => s[j] = t[j]
  BY TableElim
<1>2. CASE i \in u.new_ids \/ i \in DOMAIN u.old_values
  <2>1. w = u
    BY <1>2 DEF OnModify
  <2> HIDE DEF w, s
  <2>2. Below(u, s, b)
    BY <1>1, <1>2 DEF Fits, Below
  <2>3. Fits(u, s, nid, b, bid)
    BY <1>1, <2>2 DEF Fits
  <2> QED
    BY <2>1, <2>3 DEF w, s
<1>3. CASE ~(i \in u.new_ids \/ i \in DOMAIN u.old_values)
  <2> DEFINE o == Put(u.old_values, i, t[i])
  <2>1. o \in Table /\ DOMAIN o = DOMAIN u.old_values \cup {i}
    BY PutTable, TableElim DEF UndoState
  <2>2. o[i] = t[i] /\ \A j \in DOMAIN u.old_values : o[j] = u.old_values[j]
    BY <1>3 DEF Put
  <2>3. /\ w \in UndoState
        /\ w.new_ids = u.new_ids
        /\ w.old_values = o
        /\ w.removed_values = u.removed_values
        /\ w.old_next_id = u.old_next_id
    BY <1>3, <2>1 DEF OnModify, UndoState
  <2> HIDE DEF w, s, o
  <2>5. Below(w, s, b)
    BY <1>1, <1>3, <2>1, <2>2, <2>3 DEF Fits, Below
  <2>6. Fits(w, s, nid, b, bid)
    BY <1>1, <1>3, <2>1, <2>3, <2>5 DEF Fits
  <2> QED
    BY <2>3, <2>6 DEF w, s
<1> QED
  BY <1>2, <1>3

\* A removed object is dropped from new_ids, or kept as the session found it.
LEMMA RemoveFits ==
  ASSUME NEW t \in Table, NEW u \in UndoState, NEW b \in Table, NEW nid \in Ids, NEW bid \in Ids,
         Fits(u, t, nid, b, bid), NEW i \in DOMAIN t
  PROVE  /\ OnRemove(u, i, t[i]) \in UndoState
         /\ Fits(OnRemove(u, i, t[i]), Without(t, {i}), nid, b, bid)
<1> DEFINE w == OnRemove(u, i, t[i])
           s == Without(t, {i})
<1>1. DOMAIN s = DOMAIN t \ {i} /\ \A j \in DOMAIN s : s[j] = t[j]
  BY DEF Without
<1>2. CASE i \in u.new_ids
  <2>1. /\ w \in UndoState
        /\ w.new_ids = u.new_ids \ {i}
        /\ w.old_values = u.old_values
        /\ w.removed_values = u.removed_values
        /\ w.old_next_id = u.old_next_id
    BY <1>2 DEF OnRemove, UndoState
  <2> HIDE DEF w, s
  <2>2. Below(w, s, b)
    BY <1>1, <1>2, <2>1 DEF Fits, Below
  <2>3. Fits(w, s, nid, b, bid)
    BY <1>1, <1>2, <2>1, <2>2 DEF Fits
  <2> QED
    BY <2>1, <2>3 DEF w, s
<1>3. CASE i \notin u.new_ids
  <2> DEFINE v == IF i \in DOMAIN u.old_values THEN u.old_values[i] ELSE t[i]
             r == Put(u.removed_values, i, v)
             o == Without(u.old_values, {i})
  <2>0. u.old_values \in Table /\ u.removed_values \in Table /\ v \in Value /\ i \in Ids
    BY TableElim DEF UndoState
  <2>1. r \in Table /\ DOMAIN r = DOMAIN u.removed_values \cup {i}
    BY <2>0, PutTable
  <2>2. r[i] = v /\ \A j \in DOMAIN u.removed_values : j # i => r[j] = u.removed_values[j]
    BY DEF Put
  <2>3. o \in Table /\ DOMAIN o = DOMAIN u.old_values \ {i}
    BY <2>0, WithoutTable
  <2>4. \A j \in DOMAIN o : o[j] = u.old_values[j]
    BY DEF Without
  <2>5. i \notin DOMAIN u.old_values => o = u.old_values
    BY <2>0, <2>3, <2>4, TableEqual
  <2>6. i \notin DOMAIN u.removed_values
    BY DEF Fits
  <2>7. w = [u EXCEPT !.removed_values = r, !.old_values = o]
    <3>1. CASE i \in DOMAIN u.old_values
      BY <1>3, <3>1 DEF OnRemove
    <3>2. CASE i \notin DOMAIN u.old_values
      <4>1. w = [u EXCEPT !.removed_values = r]
        BY <1>3, <2>6, <3>2 DEF OnRemove
      <4> QED
        BY <2>5, <3>2, <4>1 DEF UndoState
    <3> QED
      BY <3>1, <3>2
  <2>8. /\ w \in UndoState
        /\ w.new_ids = u.new_ids
        /\ w.old_values = o
        /\ w.removed_values = r
        /\ w.old_next_id = u.old_next_id
    BY <2>1, <2>3, <2>7 DEF UndoState
  <2>9. v = b[i] /\ i \in DOMAIN b
    BY <1>3 DEF Fits, Below
  <2> HIDE DEF w, s, v, r, o
  <2>10. Below(w, s, b)
    BY <1>1, <1>3, <2>1, <2>2, <2>3, <2>4, <2>6, <2>8, <2>9 DEF Fits, Below
  <2>11. Fits(w, s, nid, b, bid)
    BY <1>1, <1>3, <2>1, <2>3, <2>6, <2>8, <2>10 DEF Fits
  <2> QED
    BY <2>8, <2>11 DEF w, s
<1> QED
  BY <1>2, <1>3

\* squash(): two undo states that fit one upon the other merge into one that
\* leads from the table above both to the table below both.
LEMMA MergeFits ==
  ASSUME NEW t \in Table, NEW m \in Table, NEW b \in Table,
         NEW nid \in Ids, NEW mid \in Ids, NEW bid \in Ids,
         NEW A \in UndoState, NEW B \in UndoState,
         Fits(B, t, nid, m, mid), Fits(A, m, mid, b, bid)
  PROVE  /\ Merge(A, B) \in UndoState
         /\ Merge(A, B).revision = A.revision
         /\ Fits(Merge(A, B), t, nid, b, bid)
<1> DEFINE known == A.new_ids \cup DOMAIN A.old_values
           newIds == A.new_ids \cup B.new_ids
           kept == Without(B.old_values, known)
           upd == Underride(A.old_values, kept)
           gone == DOMAIN B.removed_values
           fromOld == [i \in gone \cap (DOMAIN upd \ newIds) |-> upd[i]]
           fromB == Without(B.removed_values, newIds \cup DOMAIN upd)
           o == Without(upd, gone \ newIds)
           r == Underride(A.removed_values, Override(fromB, fromOld))
           w == Merge(A, B)
<1>0. /\ A.old_values \in Table /\ A.removed_values \in Table
      /\ B.old_values \in Table /\ B.removed_values \in Table
  BY DEF UndoState
<1>1. /\ kept \in Table /\ DOMAIN kept = DOMAIN B.old_values \ known
      /\ \A i \in DOMAIN kept : kept[i] = B.old_values[i]
  BY <1>0, WithoutTable DEF Without
<1>2. /\ upd \in Table /\ DOMAIN upd = DOMAIN kept \cup DOMAIN A.old_values
      /\ \A i \in DOMAIN upd : upd[i] = IF i \in DOMAIN A.old_values THEN A.old_values[i] ELSE kept[i]
  <2>1. upd = Override(kept, A.old_values)
    BY DEF Underride
  <2> HIDE DEF upd, kept
  <2>2. upd \in Table /\ DOMAIN upd = DOMAIN kept \cup DOMAIN A.old_values
    BY <1>0, <1>1, <2>1, OverrideTable
  <2> QED
    BY <2>1, <2>2 DEF Override
<1> HIDE DEF kept, upd
<1>3. fromOld \in Table
  BY <1>2, RestrictTable
<1>4. /\ fromB \in Table /\ DOMAIN fromB = gone \ (newIds \cup DOMAIN upd)
      /\ \A i \in DOMAIN fromB : fromB[i] = B.removed_values[i]
  BY <1>0, WithoutTable DEF Without
<1>5. /\ o \in Table /\ DOMAIN o = DOMAIN upd \ (gone \ newIds)
      /\ \A i \in DOMAIN o : o[i] = upd[i]
  BY <1>2, WithoutTable DEF Without
<1>6. /\ r \in Table
      /\ DOMAIN r = DOMAIN fromB \cup DOMAIN fromOld \cup DOMAIN A.removed_values
      /\ \A i \in DOMAIN r : r[i] = IF i \in DOMAIN A.removed_values THEN A.removed_values[i]
                                    ELSE IF i \in DOMAIN fromOld THEN fromOld[i] ELSE fromB[i]
  <2> DEFINE f == Override(fromB, fromOld)
  <2>1. f \in Table /\ DOMAIN f = DOMAIN fromB \cup DOMAIN fromOld
    BY <1>3, <1>4, OverrideTable
  <2>2. \A i \in DOMAIN f : f[i] = IF i \in DOMAIN fromOld THEN fromOld[i] ELSE fromB[i]
    BY DEF Override
  <2>3. r = Override(f, A.removed_values)
    BY DEF Underride
  <2> HIDE DEF f, r
  <2>4. r \in Table /\ DOMAIN r = DOMAIN f \cup DOMAIN A.removed_values
    BY <1>0, <2>1, <2>3, OverrideTable
  <2>5. \A i \in DOMAIN r : r[i] = IF i \in DOMAIN A.removed_values THEN A.removed_values[i] ELSE f[i]
    BY <2>3, <2>4 DEF Override
  <2> HIDE DEF fromOld, fromB
  <2> QED
    BY <2>1, <2>2, <2>4, <2>5
<1>7. w = [A EXCEPT !.new_ids = newIds \ gone, !.old_values = o, !.removed_values = r]
  BY DEF Merge, upd, kept
<1> HIDE DEF w, r, o
<1>8. /\ w \in UndoState
      /\ w.new_ids = newIds \ gone /\ w.old_values = o /\ w.removed_values = r
      /\ w.old_next_id = A.old_next_id /\ w.revision = A.revision
  BY <1>5, <1>6, <1>7 DEF UndoState
<1>9. /\ DOMAIN upd \cap newIds = {}
      /\ DOMAIN B.old_values \subseteq DOMAIN m
      /\ gone \subseteq DOMAIN m
      /\ B.new_ids \cap DOMAIN m = {}
      /\ B.new_ids \cap DOMAIN A.removed_values = {}
  <2>1. DOMAIN B.old_values \subseteq DOMAIN m /\ gone \subseteq DOMAIN m
    BY DEF Fits, Below
  <2>2. DOMAIN A.removed_values \subseteq DOMAIN b /\ DOMAIN A.old_values \subseteq DOMAIN m
    BY DEF Fits, Below
  <2>3. B.new_ids \cap DOMAIN m = {} /\ B.new_ids \cap DOMAIN b = {}
    <3>1. /\ \A i \in B.new_ids : mid <= i
          /\ \A i \in DOMAIN m : i < mid
          /\ \A i \in DOMAIN b : i < bid
          /\ bid <= mid
      BY DEF Fits
    <3>2. B.new_ids \subseteq Ids /\ DOMAIN m \subseteq Ids /\ DOMAIN b \subseteq Ids
      BY TableElim DEF UndoState
    <3> QED
      BY <3>1, <3>2, IndexAssumption DEF Ids
  <2> QED
    BY <1>1, <1>2, <2>1, <2>2, <2>3 DEF Fits
<1>10. DOMAIN fromOld = gone \cap DOMAIN upd /\ \A i \in DOMAIN fromOld : fromOld[i] = upd[i]
  BY <1>9
<1> HIDE DEF fromOld, fromB
<1>11. /\ w.new_ids \subseteq DOMAIN t
       /\ DOMAIN w.old_values \subseteq DOMAIN t
       /\ w.new_ids \cap DOMAIN w.old_values = {}
       /\ DOMAIN w.removed_values \cap DOMAIN t = {}
  BY <1>1, <1>2, <1>4, <1>5, <1>6, <1>8, <1>9, <1>10 DEF Fits, Below
<1>12. Below(w, t, b)
  <2>1. DOMAIN b = (DOMAIN t \ w.new_ids) \cup DOMAIN w.removed_values
    BY <1>1, <1>2, <1>4, <1>6, <1>8, <1>9, <1>10 DEF Fits, Below
  <2>2. \A i \in DOMAIN w.removed_values : b[i] = w.removed_values[i]
    BY <1>1, <1>2, <1>4, <1>6, <1>8, <1>9, <1>10 DEF Fits, Below
  <2>3. \A i \in DOMAIN w.old_values : b[i] = w.old_values[i]
    BY <1>1, <1>2, <1>5, <1>8, <1>9 DEF Fits, Below
  <2>4. \A i \in (DOMAIN t \ w.new_ids) \ DOMAIN w.old_values : b[i] = t[i]
    BY <1>1, <1>2, <1>5, <1>8, <1>9 DEF Fits, Below
  <2> QED
    BY <2>1, <2>2, <2>3, <2>4 DEF Below
<1>13. bid <= nid /\ \A i \in w.new_ids : bid <= i
  <2>1. /\ bid <= mid /\ mid <= nid
        /\ \A i \in A.new_ids : bid <= i
        /\ \A i \in B.new_ids : mid <= i
    BY DEF Fits
  <2>2. A.new_ids \subseteq Ids /\ B.new_ids \subseteq Ids
    BY DEF UndoState
  <2> QED
    BY <1>8, <2>1, <2>2, IndexAssumption DEF Ids
<1>14. Fits(w, t, nid, b, bid)
  BY <1>8, <1>11, <1>12, <1>13 DEF Fits
<1> QED
  BY <1>8, <1>14 DEF w

----------------------------------------------------------------------------
(* Types, and the revisions, whatever the users do to the keys. *)

\* Merging gives an undo state with the revision of the older one.
LEMMA MergeType ==
  ASSUME NEW A \in UndoState, NEW B \in UndoState
  PROVE  Merge(A, B) \in UndoState /\ Merge(A, B).revision = A.revision
<1> DEFINE known == A.new_ids \cup DOMAIN A.old_values
           newIds == A.new_ids \cup B.new_ids
           upd == Underride(A.old_values, Without(B.old_values, known))
           gone == DOMAIN B.removed_values
           fromOld == [i \in gone \cap (DOMAIN upd \ newIds) |-> upd[i]]
           fromB == Without(B.removed_values, newIds \cup DOMAIN upd)
           o == Without(upd, gone \ newIds)
           r == Underride(A.removed_values, Override(fromB, fromOld))
<1>0. /\ A.old_values \in Table /\ A.removed_values \in Table
      /\ B.old_values \in Table /\ B.removed_values \in Table
      /\ newIds \in SUBSET Ids
  BY DEF UndoState
<1>1. upd \in Table
  BY <1>0, WithoutTable, OverrideTable DEF Underride
<1> HIDE DEF upd
<1>2. fromOld \in Table
  BY <1>1, RestrictTable
<1>3. fromB \in Table /\ o \in Table
  BY <1>0, <1>1, WithoutTable
<1> HIDE DEF fromOld, fromB
<1>4. r \in Table
  BY <1>0, <1>2, <1>3, OverrideTable DEF Underride
<1>5. Merge(A, B) = [A EXCEPT !.new_ids = newIds \ gone, !.old_values = o, !.removed_values = r]
  BY DEF Merge, upd, fromOld, fromB
<1> HIDE DEF o, r
<1> QED
  BY <1>0, <1>3, <1>4, <1>5 DEF UndoState

\* Each change of an object leaves an undo state of the same revision.
LEMMA OnChangeType ==
  ASSUME NEW u \in UndoState, NEW i \in Ids, NEW v \in Value
  PROVE  /\ OnCreate(u, i) \in UndoState /\ OnCreate(u, i).revision = u.revision
         /\ OnModify(u, i, v) \in UndoState /\ OnModify(u, i, v).revision = u.revision
         /\ OnRemove(u, i, v) \in UndoState /\ OnRemove(u, i, v).revision = u.revision
<1>0. u.old_values \in Table /\ u.removed_values \in Table
  BY DEF UndoState
<1>1. OnCreate(u, i) \in UndoState /\ OnCreate(u, i).revision = u.revision
  BY DEF OnCreate, UndoState
<1>2. OnModify(u, i, v) \in UndoState /\ OnModify(u, i, v).revision = u.revision
  <2>1. Put(u.old_values, i, v) \in Table
    BY <1>0, PutTable
  <2> QED
    BY <2>1 DEF OnModify, UndoState
<1>3. OnRemove(u, i, v) \in UndoState /\ OnRemove(u, i, v).revision = u.revision
  <2>1. Put(u.removed_values, i, v) \in Table /\ Without(u.old_values, {i}) \in Table
    BY <1>0, PutTable, WithoutTable
  <2>2. i \in DOMAIN u.old_values => Put(u.removed_values, i, u.old_values[i]) \in Table
    BY <1>0, PutTable, TableElim
  <2> QED
    BY <2>1, <2>2 DEF OnRemove, UndoState
<1> QED
  BY <1>1, <1>2, <1>3

\* The top undo state.
LEMMA TopType ==
  ASSUME TypeInv, Enabled
  PROVE  Len(stack) \in Nat \ {0} /\ Top \in UndoState
<1>1. stack \in Seq(UndoState) /\ stack # <<>>
  BY DEF TypeInv, TypeOK, Enabled
<1> QED
  BY <1>1, EmptySeq DEF Top

\* Replacing the top undo state.
LEMMA ReplaceTopType ==
  ASSUME TypeInv, Enabled, NEW u \in UndoState
  PROVE  /\ ReplaceTop(u) \in Seq(UndoState)
         /\ Len(ReplaceTop(u)) = Len(stack)
         /\ ReplaceTop(u)[Len(stack)] = u
         /\ \A n \in 1 .. Len(stack) - 1 : ReplaceTop(u)[n] = stack[n]
<1>1. stack \in Seq(UndoState) /\ stack # <<>>
  BY DEF TypeInv, TypeOK, Enabled
<1>2. Len(stack) \in Nat \ {0}
  BY TopType
<1> QED
  BY <1>1, <1>2, ExceptSeq DEF ReplaceTop

\* Dropping the last element of a sequence, or its first k.
LEMMA PopType ==
  ASSUME NEW S, NEW s \in Seq(S), s # <<>>
  PROVE  /\ Pop(s) \in Seq(S) /\ Len(Pop(s)) = Len(s) - 1
         /\ Len(s) \in Nat \ {0} /\ s[Len(s)] \in S
         /\ \A n \in 1 .. Len(s) - 1 : Pop(s)[n] = s[n]
<1>1. Len(s) \in Nat \ {0} /\ s[Len(s)] \in S
  BY EmptySeq
<1> QED
  BY <1>1, SubSeqProperties DEF Pop

LEMMA DropType ==
  ASSUME NEW S, NEW s \in Seq(S), NEW k \in 0 .. Len(s)
  PROVE  /\ SubSeq(s, k + 1, Len(s)) \in Seq(S)
         /\ Len(SubSeq(s, k + 1, Len(s))) = Len(s) - k
         /\ \A n \in 1 .. Len(s) - k : SubSeq(s, k + 1, Len(s))[n] = s[n + k]
<1>1. Len(s) \in Nat
  OBVIOUS
<1> QED
  BY <1>1, SubSeqProperties

\* A change of an object: the top undo state is replaced by one of the same
\* revision, or there is none.
ObjectStep ==
  /\ IF Enabled
     THEN \E u \in UndoState : stack' = ReplaceTop(u) /\ u.revision = Top.revision
     ELSE stack' = stack
  /\ indices' \in Table /\ next_id' \in Ids
  /\ UNCHANGED <<revision, saved, unwinding, thrown>>

LEMMA ObjectSteps ==
  ASSUME TypeInv, UNCHANGED <<unwinding, thrown>>,
         \/ \E v \in Value : Create(v)
         \/ \E i \in DOMAIN indices, v \in Value : Modify(i, v)
         \/ \E i \in DOMAIN indices, v \in Value : ModifyCollides(i, v)
         \/ \E i \in DOMAIN indices : RemoveObject(i)
  PROVE  ObjectStep
<1>0. indices \in Table /\ next_id \in Ids /\ DOMAIN indices \subseteq Ids
  BY TableElim DEF TypeInv, TypeOK
<1>1. ASSUME NEW v \in Value, Create(v)
      PROVE  ObjectStep
  <2>1. indices' \in Table /\ next_id' \in Ids
    <3>1. Put(indices, next_id, v) \in Table
      BY <1>0, PutTable
    <3>2. next_id + 1 \in Ids
      BY <1>0, <1>1, IndexAssumption DEF Create, Ids
    <3> QED
      BY <1>1, <3>1, <3>2 DEF Create
  <2>2. Enabled => /\ OnCreate(Top, next_id) \in UndoState
                   /\ OnCreate(Top, next_id).revision = Top.revision
    BY <1>0, <1>1, OnChangeType, TopType
  <2> QED
    BY <1>1, <2>1, <2>2 DEF Create, ObjectStep
<1>2. ASSUME NEW i \in DOMAIN indices, NEW v \in Value, Modify(i, v)
      PROVE  ObjectStep
  <2>1. indices' \in Table /\ next_id' \in Ids
    <3>1. [indices EXCEPT ![i] = v] \in [DOMAIN indices -> Value]
      BY <1>0, TableElim
    <3> QED
      BY <1>0, <1>2, <3>1, TableIntro DEF Modify
  <2>2. indices[i] \in Value
    BY <1>0, TableElim
  <2>3. Enabled => /\ OnModify(Top, i, indices[i]) \in UndoState
                   /\ OnModify(Top, i, indices[i]).revision = Top.revision
    BY <1>0, <2>2, OnChangeType, TopType
  <2> QED
    BY <1>2, <2>1, <2>3 DEF Modify, ObjectStep
<1>3. ASSUME NEW i \in DOMAIN indices, NEW v \in Value, ModifyCollides(i, v)
      PROVE  ObjectStep
  <2>1. indices' \in Table /\ next_id' \in Ids
    BY <1>0, <1>3, WithoutTable DEF ModifyCollides
  <2>2. Enabled => Top \in UndoState /\ stack = ReplaceTop(Top)
    <3> SUFFICES ASSUME Enabled PROVE Top \in UndoState /\ stack = ReplaceTop(Top)
      OBVIOUS
    <3>1. stack \in Seq(UndoState) /\ stack # <<>>
      BY DEF TypeInv, TypeOK, Enabled
    <3>2. Top \in UndoState
      BY <3>1, EmptySeq DEF Top
    <3> QED
      BY <3>1, <3>2 DEF ReplaceTop, Top
  <2> QED
    BY <1>3, <2>1, <2>2 DEF ModifyCollides, ObjectStep
<1>4. ASSUME NEW i \in DOMAIN indices, RemoveObject(i)
      PROVE  ObjectStep
  <2>1. indices' \in Table /\ next_id' \in Ids
    BY <1>0, <1>4, WithoutTable DEF RemoveObject
  <2>2. indices[i] \in Value
    BY <1>0, TableElim
  <2>3. Enabled => /\ OnRemove(Top, i, indices[i]) \in UndoState
                   /\ OnRemove(Top, i, indices[i]).revision = Top.revision
    BY <1>0, <2>2, OnChangeType, TopType
  <2> QED
    BY <1>4, <2>1, <2>3 DEF RemoveObject, ObjectStep
<1> QED
  BY <1>1, <1>2, <1>3, <1>4

LEMMA TypeInit == Init => TypeInv
<1> SUFFICES ASSUME Init PROVE TypeInv
  OBVIOUS
<1>1. 0 \in Ids
  BY IndexAssumption DEF Ids
<1>2. stack \in Seq(UndoState) /\ saved \in Seq(Table \X Ids) /\ Len(saved) = Len(stack)
  BY DEF Init
<1>3. indices \in Table /\ next_id \in Ids
  BY <1>1, EmptyIsTable DEF Init
<1>4. unwinding \in BOOLEAN /\ thrown \in BOOLEAN
  BY DEF Init
<1>5. revision \in Int
  BY DEF Init
<1> QED
  BY <1>2, <1>3, <1>4, <1>5 DEF TypeInv, TypeOK

LEMMA TypeStep == TypeInv /\ [Next]_vars => TypeInv'
<1> SUFFICES ASSUME TypeInv, [Next]_vars PROVE TypeInv'
  OBVIOUS
<1>0. /\ indices \in Table /\ next_id \in Ids /\ revision \in Int
      /\ stack \in Seq(UndoState) /\ saved \in Seq(Table \X Ids)
      /\ unwinding \in BOOLEAN /\ thrown \in BOOLEAN
      /\ Len(saved) = Len(stack)
  BY DEF TypeInv, TypeOK
<1>1. CASE ObjectStep
  <2>1. CASE Enabled
    BY <1>0, <1>1, <2>1, ReplaceTopType DEF ObjectStep, TypeInv, TypeOK
  <2>2. CASE ~Enabled
    BY <1>0, <1>1, <2>2 DEF ObjectStep, TypeInv, TypeOK
  <2> QED
    BY <2>1, <2>2
<1>2. CASE StartUndoSession /\ UNCHANGED <<unwinding, thrown>>
  <2> DEFINE u == [old_values |-> EmptyTable, removed_values |-> EmptyTable,
                   new_ids |-> {}, old_next_id |-> next_id, revision |-> revision + 1]
  <2>1. u \in UndoState
    BY <1>0, EmptyIsTable DEF UndoState
  <2>2. <<indices, next_id>> \in Table \X Ids
    BY <1>0
  <2>3. stack' = Append(stack, u) /\ saved' = Append(saved, <<indices, next_id>>)
    BY <1>2 DEF StartUndoSession
  <2> HIDE DEF u
  <2>4. stack' \in Seq(UndoState) /\ saved' \in Seq(Table \X Ids) /\ Len(saved') = Len(stack')
    BY <1>0, <2>1, <2>2, <2>3, AppendProperties
  <2> QED
    BY <1>0, <1>2, <2>4 DEF StartUndoSession, TypeInv, TypeOK
<1>3. CASE Squash /\ UNCHANGED <<unwinding, thrown>>
  <2>1. stack # <<>> /\ saved # <<>>
    BY <1>0, <1>3, EmptySeq DEF Squash, Enabled
  <2>2. saved' \in Seq(Table \X Ids) /\ Len(saved') = Len(stack) - 1
    BY <1>0, <1>3, <2>1, PopType DEF Squash
  <2>3. stack' \in Seq(UndoState) /\ Len(stack') = Len(stack) - 1
    <3>1. CASE Len(stack) = 1
      BY <1>3, <3>1, EmptySeq DEF Squash
    <3>2. CASE Len(stack) # 1
      <4> DEFINE s == Pop(stack)
                 k == Len(stack) - 1
      <4>1. s \in Seq(UndoState) /\ Len(s) = k /\ Top \in UndoState /\ k \in 1 .. Len(s)
        BY <1>0, <2>1, <3>2, PopType DEF Top
      <4>2. Merge(s[k], Top) \in UndoState
        BY <4>1, MergeType
      <4>3. stack' = [s EXCEPT ![k] = Merge(s[k], Top)]
        BY <1>3, <3>2 DEF Squash
      <4> HIDE DEF s, k
      <4>4. stack' \in Seq(UndoState) /\ Len(stack') = k
        BY <4>1, <4>2, <4>3, ExceptSeq
      <4> QED
        BY <4>4 DEF k
    <3> QED
      BY <3>1, <3>2
  <2>4. revision' \in Int
    BY <1>0, <1>3 DEF Squash
  <2> QED
    BY <1>0, <1>3, <2>2, <2>3, <2>4 DEF Squash, TypeInv, TypeOK
<1>4. ASSUME NEW r \in 0 .. MaxRevision, Commit(r), UNCHANGED <<unwinding, thrown>>
      PROVE  TypeInv'
  BY <1>0, <1>4, DropType DEF Commit, TypeInv, TypeOK
<1>5. ASSUME NEW r \in 0 .. MaxRevision, SetRevision(r), UNCHANGED <<unwinding, thrown>>
      PROVE  TypeInv'
  BY <1>0, <1>5, IndexAssumption DEF SetRevision, TypeInv, TypeOK
<1>6. CASE Undo /\ UNCHANGED <<unwinding, thrown>>
  <2>1. stack # <<>> /\ saved # <<>>
    BY <1>0, <1>6, EmptySeq DEF Undo, Enabled
  <2>2. /\ saved' \in Seq(Table \X Ids) /\ stack' \in Seq(UndoState)
        /\ Len(saved') = Len(stack') /\ Top \in UndoState
    BY <1>0, <1>6, <2>1, PopType DEF Undo, Top
  <2>3. indices' \in Table /\ next_id' \in Ids
    BY <1>0, <1>6, <2>2, RollbackTable DEF Undo, UndoState
  <2> QED
    BY <1>0, <1>6, <2>2, <2>3 DEF Undo, TypeInv, TypeOK
<1>7. CASE UndoThrows \/ UndoAll \/ UndoAllEnds
  BY <1>0, <1>7 DEF UndoThrows, UndoAll, UndoAllEnds, TypeInv, TypeOK
<1>8. CASE UNCHANGED vars
  BY <1>0, <1>8 DEF vars, TypeInv, TypeOK
<1> QED
  BY <1>1, <1>2, <1>3, <1>4, <1>5, <1>6, <1>7, <1>8, ObjectSteps DEF Next, Call

\* The index and its undo states are always of their types: the ids are never
\* negative and never pass the next id's bound.
THEOREM TypeCorrect == Spec => []TypeOK
<1>1. TypeInv => TypeOK
  BY DEF TypeInv
<1> QED
  BY <1>1, TypeInit, TypeStep, PTL DEF Spec

\* The revision of undo state n, counted from the bottom.
LEMMA RevisionOf ==
  ASSUME TypeInv, RevisionsConsecutive, NEW n \in 1 .. Len(stack)
  PROVE  stack[n] \in UndoState /\ stack[n].revision = (revision - Len(stack)) + n
<1>1. stack \in Seq(UndoState) /\ revision \in Int
  BY DEF TypeInv, TypeOK
<1>2. stack[n] \in UndoState /\ n \in DOMAIN stack
  BY <1>1
<1>3. stack[n].revision \in Int
  BY <1>2 DEF UndoState
<1>4. stack[n].revision + (Len(stack) - n) = revision
  BY <1>2 DEF RevisionsConsecutive
<1> QED
  BY <1>1, <1>2, <1>3, <1>4

LEMMA RevisionStep ==
  ASSUME TypeInv, TypeInv', RevisionsConsecutive, [Next]_vars
  PROVE  RevisionsConsecutive'
<1>0. /\ revision \in Int /\ revision' \in Int
      /\ stack \in Seq(UndoState) /\ stack' \in Seq(UndoState)
      /\ Len(stack) \in Nat /\ DOMAIN stack = 1 .. Len(stack)
      /\ Len(stack') \in Nat /\ DOMAIN stack' = 1 .. Len(stack')
  BY DEF TypeInv, TypeOK
<1>1. SUFFICES ASSUME NEW n \in 1 .. Len(stack')
               PROVE  stack'[n].revision = (revision' - Len(stack')) + n
  BY <1>0 DEF RevisionsConsecutive
<1>4. CASE ObjectStep
  <2>1. CASE Enabled
    <3>1. PICK u \in UndoState : stack' = ReplaceTop(u) /\ u.revision = Top.revision
      BY <1>4, <2>1 DEF ObjectStep
    <3>2. /\ Len(stack') = Len(stack) /\ stack'[Len(stack)] = u
          /\ \A k \in 1 .. Len(stack) - 1 : stack'[k] = stack[k]
      BY <2>1, <3>1, ReplaceTopType
    <3>3. stack'[n].revision = stack[n].revision
      BY <1>0, <3>1, <3>2 DEF Top
    <3>4. revision' = revision
      BY <1>4 DEF ObjectStep
    <3> QED
      BY <3>2, <3>3, <3>4, RevisionOf
  <2>2. CASE ~Enabled
    BY <1>4, <2>2, RevisionOf DEF ObjectStep
  <2> QED
    BY <2>1, <2>2
<1>5. CASE StartUndoSession
  <2> DEFINE u == [old_values |-> EmptyTable, removed_values |-> EmptyTable,
                   new_ids |-> {}, old_next_id |-> next_id, revision |-> revision + 1]
  <2>1. stack' = Append(stack, u) /\ revision' = revision + 1 /\ u.revision = revision + 1
    BY <1>5 DEF StartUndoSession
  <2> HIDE DEF u
  <2>2. /\ Len(stack') = Len(stack) + 1 /\ stack'[Len(stack) + 1] = u
        /\ \A k \in 1 .. Len(stack) : stack'[k] = stack[k]
    BY <1>0, <2>1
  <2>3. CASE n = Len(stack) + 1
    BY <1>0, <2>1, <2>2, <2>3
  <2>4. CASE n # Len(stack) + 1
    <3>1. n \in 1 .. Len(stack) /\ stack'[n] = stack[n]
      BY <1>0, <2>2, <2>4
    <3>2. stack[n].revision = (revision - Len(stack)) + n
      BY <3>1, RevisionOf
    <3> QED
      BY <1>0, <2>1, <2>2, <3>1, <3>2
  <2> QED
    BY <2>3, <2>4
<1>6. CASE Squash
  <2>1. stack # <<>>
    BY <1>6 DEF Squash, Enabled
  <2>2. CASE Len(stack) = 1
    BY <1>6, <2>2 DEF Squash
  <2>3. CASE Len(stack) # 1
    <3> DEFINE s == Pop(stack)
               k == Len(stack) - 1
    <3>1. /\ s \in Seq(UndoState) /\ Len(s) = k /\ Top \in UndoState
          /\ Len(stack) \in Nat \ {0}
          /\ \A j \in 1 .. k : s[j] = stack[j]
      BY <1>0, <2>1, PopType DEF Top
    <3>2. k \in 1 .. Len(s) /\ k \in Nat
      BY <2>3, <3>1
    <3>3. Merge(s[k], Top).revision = s[k].revision
      BY <3>1, <3>2, MergeType
    <3>4. stack' = [s EXCEPT ![k] = Merge(s[k], Top)] /\ revision' = revision - 1
      BY <1>6, <2>3 DEF Squash
    <3> HIDE DEF s
    <3>5. Len(stack') = k /\ n \in 1 .. k /\ stack'[n].revision = s[n].revision
      BY <3>1, <3>2, <3>3, <3>4
    <3>6. n \in 1 .. Len(stack) /\ s[n] = stack[n]
      BY <3>1, <3>5
    <3>7. stack[n].revision = (revision - Len(stack)) + n
      BY <3>6, RevisionOf
    <3>8. revision' = revision - 1
      BY <3>4
    <3> QED
      BY <1>0, <3>5, <3>6, <3>7, <3>8
  <2> QED
    BY <2>2, <2>3
<1>7. ASSUME NEW r \in 0 .. MaxRevision, Commit(r)
      PROVE  stack'[n].revision = (revision' - Len(stack')) + n
  <2>1. PICK k \in 0 .. Len(stack) : stack' = SubSeq(stack, k + 1, Len(stack)) /\ revision' = revision
    BY <1>7 DEF Commit
  <2> DEFINE d == SubSeq(stack, k + 1, Len(stack))
  <2>2. Len(d) = Len(stack) - k /\ \A j \in 1 .. Len(stack) - k : d[j] = stack[j + k]
    BY <1>0, DropType
  <2>3. stack' = d
    BY <2>1
  <2> HIDE DEF d
  <2>4. Len(stack') = Len(stack) - k
    BY <2>2, <2>3
  <2>5. n \in 1 .. Len(stack) - k /\ n + k \in 1 .. Len(stack)
    BY <1>0, <2>4
  <2>6. stack'[n] = stack[n + k]
    BY <2>2, <2>3, <2>5
  <2>7. stack[n + k].revision = (revision - Len(stack)) + (n + k)
    BY <2>5, RevisionOf
  <2>8. revision' = revision
    BY <2>1
  <2> QED
    BY <1>0, <2>4, <2>6, <2>7, <2>8
<1>8. ASSUME NEW r \in 0 .. MaxRevision, SetRevision(r)
      PROVE  stack'[n].revision = (revision' - Len(stack')) + n
  BY <1>0, <1>8, EmptySeq DEF SetRevision, Enabled
<1>9. CASE Undo
  <2>1. /\ Len(stack') = Len(stack) - 1 /\ revision' = revision - 1
        /\ \A k \in 1 .. Len(stack) - 1 : stack'[k] = stack[k]
    BY <1>0, <1>9, PopType DEF Undo, Enabled
  <2>2. n \in 1 .. Len(stack) /\ stack'[n] = stack[n]
    BY <1>0, <2>1
  <2>3. stack[n].revision = (revision - Len(stack)) + n
    BY <2>2, RevisionOf
  <2> QED
    BY <1>0, <2>1, <2>2, <2>3
<1>10. CASE UndoThrows \/ UndoAll \/ UndoAllEnds \/ UNCHANGED vars
  <2>1. stack' = stack /\ revision' = revision
    BY <1>10 DEF UndoThrows, UndoAll, UndoAllEnds, vars
  <2> QED
    BY <2>1, RevisionOf
<1> QED
  BY <1>4, <1>5, <1>6, <1>7, <1>8, <1>9, <1>10, ObjectSteps DEF Next, Call

\* The open undo states carry consecutive revisions that end at _revision, so
\* commit(r) keeps exactly the sessions newer than r, whatever the users do
\* to the keys and however often undo() throws.
THEOREM RevisionsAlwaysConsecutive == Spec => []RevisionsConsecutive
<1>1. Init => RevisionsConsecutive
  BY DEF Init, RevisionsConsecutive
<1>2. TypeInv /\ RevisionsConsecutive /\ [Next]_vars => TypeInv' /\ RevisionsConsecutive'
  BY TypeStep, RevisionStep
<1> QED
  BY <1>1, <1>2, TypeInit, PTL DEF Spec

----------------------------------------------------------------------------
(* The inductive invariant, when no key is ever modified. *)

LEMMA AboveType ==
  ASSUME TypeInv, NEW n \in 1 .. Len(stack)
  PROVE  /\ n \in DOMAIN stack /\ n \in DOMAIN saved
         /\ stack[n] \in UndoState
         /\ TableAbove(n) \in Table /\ NextIdAbove(n) \in Ids
         /\ saved[n][1] \in Table /\ saved[n][2] \in Ids
<1>1. /\ stack \in Seq(UndoState) /\ saved \in Seq(Table \X Ids) /\ Len(saved) = Len(stack)
      /\ indices \in Table /\ next_id \in Ids
  BY DEF TypeInv, TypeOK
<1>2. \A k \in 1 .. Len(stack) : saved[k] \in Table \X Ids
  BY <1>1
<1>3. \A k \in 1 .. Len(stack) : saved[k][1] \in Table /\ saved[k][2] \in Ids
  BY <1>2
<1>4. stack[n] \in UndoState /\ n \in DOMAIN stack /\ n \in DOMAIN saved
  BY <1>1
<1>5. TableAbove(n) \in Table /\ NextIdAbove(n) \in Ids
  <2>1. CASE n = Len(stack)
    BY <1>1, <2>1 DEF TableAbove, NextIdAbove
  <2>2. CASE n # Len(stack)
    <3>1. n + 1 \in 1 .. Len(stack)
      BY <1>1, <2>2
    <3> QED
      BY <1>3, <2>2, <3>1 DEF TableAbove, NextIdAbove
  <2> QED
    BY <2>1, <2>2
<1> QED
  BY <1>3, <1>4, <1>5

\* A change of an object keeps the invariant when the new top undo state fits,
\* or when there is none.
LEMMA ChangeKeeps ==
  ASSUME IInv, TypeInv', saved' = saved, ~thrown',
         \A i \in DOMAIN indices' : i < next_id',
         Unique(indices'),
         Enabled, NEW u \in UndoState, stack' = ReplaceTop(u),
         Fits(u, indices', next_id', saved[Len(stack)][1], saved[Len(stack)][2]),
         SameKeys(indices', saved[Len(stack)][1])
  PROVE  IInv'
<1>0. TypeInv /\ stack \in Seq(UndoState) /\ Len(stack) \in Nat
  BY DEF IInv, TypeInv, TypeOK
<1>1. ASSUME NEW n \in DOMAIN stack' PROVE Sound(n)'
  <2> DEFINE s == ReplaceTop(u)
  <2>1. /\ Len(s) = Len(stack) /\ s[Len(stack)] = u
        /\ \A k \in 1 .. Len(stack) - 1 : s[k] = stack[k]
        /\ s \in Seq(UndoState)
    BY <1>0, ReplaceTopType
  <2>2. stack' = s
    OBVIOUS
  <2> HIDE DEF s
  <2>3. n \in 1 .. Len(stack) /\ Len(stack') = Len(stack)
    BY <2>1, <2>2
  <2>4. CASE n = Len(stack)
    <3>1. stack'[n] = u /\ TableAbove(n)' = indices' /\ NextIdAbove(n)' = next_id'
      BY <2>1, <2>2, <2>4 DEF TableAbove, NextIdAbove
    <3> QED
      BY <2>4, <3>1 DEF Sound
  <2>5. CASE n # Len(stack)
    <3>1. stack'[n] = stack[n] /\ n \in DOMAIN stack
      BY <1>0, <2>1, <2>2, <2>3, <2>5
    <3>2. TableAbove(n)' = TableAbove(n) /\ NextIdAbove(n)' = NextIdAbove(n)
      BY <2>3, <2>5 DEF TableAbove, NextIdAbove
    <3>3. Sound(n)
      BY <3>1 DEF IInv
    <3> QED
      BY <3>1, <3>2, <3>3 DEF Sound
  <2> QED
    BY <2>4, <2>5
<1> QED
  BY <1>1 DEF IInv

LEMMA ChangeKeepsDisabled ==
  ASSUME IInv, TypeInv', saved' = saved, stack' = stack, ~thrown', ~Enabled,
         \A i \in DOMAIN indices' : i < next_id',
         Unique(indices')
  PROVE  IInv'
<1>1. stack = <<>>
  BY DEF Enabled
<1> QED
  BY <1>1 DEF IInv

\* What the invariant says of the top undo state.
LEMMA TopSound ==
  ASSUME IInv, Enabled
  PROVE  /\ Top \in UndoState
         /\ saved[Len(stack)][1] \in Table /\ saved[Len(stack)][2] \in Ids
         /\ Fits(Top, indices, next_id, saved[Len(stack)][1], saved[Len(stack)][2])
         /\ SameKeys(indices, saved[Len(stack)][1])
         /\ Unique(saved[Len(stack)][1])
<1> DEFINE n == Len(stack)
<1>1. TypeInv /\ n \in 1 .. Len(stack)
  BY TopType DEF IInv
<1>2. /\ n \in DOMAIN stack /\ n \in DOMAIN saved /\ stack[n] \in UndoState
      /\ saved[n][1] \in Table /\ saved[n][2] \in Ids
  BY <1>1, AboveType
<1>3. Sound(n) /\ Unique(saved[n][1])
  BY <1>2 DEF IInv
<1> QED
  BY <1>2, <1>3 DEF Sound, TableAbove, NextIdAbove, Top

LEMMA CreateKeeps ==
  ASSUME IInv, TypeInv', NEW v \in Value, Create(v), UNCHANGED thrown
  PROVE  IInv'
<1>0. /\ TypeInv /\ indices \in Table /\ next_id \in Ids /\ DOMAIN indices \subseteq Ids
      /\ next_id < MaxId
      /\ \A i \in DOMAIN indices : i < next_id
      /\ indices' = Put(indices, next_id, v) /\ next_id' = next_id + 1 /\ saved' = saved
  BY TableElim DEF IInv, TypeInv, TypeOK, Create
<1>1. /\ DOMAIN indices' = DOMAIN indices \cup {next_id}
      /\ \A i \in DOMAIN indices : i # next_id => indices'[i] = indices[i]
      /\ indices'[next_id] = v
  BY <1>0 DEF Put
<1>2. \A i \in DOMAIN indices' : i < next_id'
  BY <1>0, <1>1, IndexAssumption DEF Ids
<1>3. next_id \notin DOMAIN indices
  BY <1>0, IndexAssumption DEF Ids
<1>4. Unique(indices')
  <2>1. \A j \in DOMAIN indices : indices[j].key # v.key
    BY <1>3 DEF Create, Collides
  <2> QED
    BY <1>1, <1>3, <2>1 DEF Unique, IInv
<1>5. CASE Enabled
  <2> DEFINE b == saved[Len(stack)][1]
             bid == saved[Len(stack)][2]
  <2>1. /\ Top \in UndoState /\ b \in Table /\ bid \in Ids
        /\ Fits(Top, indices, next_id, b, bid) /\ SameKeys(indices, b)
    BY <1>5, TopSound
  <2>2. /\ OnCreate(Top, next_id) \in UndoState
        /\ Fits(OnCreate(Top, next_id), indices', next_id', b, bid)
    BY <1>0, <2>1, CreateFits
  <2>3. SameKeys(indices', b)
    <3>1. next_id \notin DOMAIN b
      BY <1>0, <2>1, TableElim, IndexAssumption DEF Fits, Ids
    <3> QED
      BY <1>1, <2>1, <3>1 DEF SameKeys
  <2>4. stack' = ReplaceTop(OnCreate(Top, next_id))
    BY <1>5 DEF Create
  <2> QED
    BY <1>0, <1>2, <1>4, <1>5, <2>2, <2>3, <2>4, ChangeKeeps DEF IInv
<1>6. CASE ~Enabled
  <2>1. stack' = stack
    BY <1>6 DEF Create
  <2> QED
    BY <1>0, <1>2, <1>4, <1>6, <2>1, ChangeKeepsDisabled DEF IInv
<1> QED
  BY <1>5, <1>6

LEMMA ModifyKeeps ==
  ASSUME IInv, TypeInv', MutableKey = FALSE,
         NEW i \in DOMAIN indices, NEW v \in Value, Modify(i, v), UNCHANGED thrown
  PROVE  IInv'
<1>0. /\ TypeInv /\ indices \in Table /\ next_id \in Ids
      /\ indices' = [indices EXCEPT ![i] = v] /\ next_id' = next_id /\ saved' = saved
      /\ v.key = indices[i].key
  BY DEF IInv, TypeInv, TypeOK, Modify
<1>1. DOMAIN indices' = DOMAIN indices /\ \A j \in DOMAIN indices : indices'[j].key = indices[j].key
  BY <1>0, TableElim
<1>2. \A j \in DOMAIN indices' : j < next_id'
  BY <1>0, <1>1 DEF IInv
<1>3. Unique(indices')
  BY <1>1 DEF Unique, IInv
<1>4. CASE Enabled
  <2> DEFINE b == saved[Len(stack)][1]
             bid == saved[Len(stack)][2]
             u == OnModify(Top, i, indices[i])
  <2>1. /\ Top \in UndoState /\ b \in Table /\ bid \in Ids
        /\ Fits(Top, indices, next_id, b, bid) /\ SameKeys(indices, b)
    BY <1>4, TopSound
  <2>2. u \in UndoState /\ Fits(u, indices', next_id', b, bid)
    BY <1>0, <2>1, ModifyFits
  <2>3. SameKeys(indices', b)
    BY <1>1, <2>1 DEF SameKeys
  <2>4. stack' = ReplaceTop(u)
    BY <1>4 DEF Modify
  <2> HIDE DEF u
  <2> QED
    BY <1>0, <1>2, <1>3, <1>4, <2>2, <2>3, <2>4, ChangeKeeps DEF IInv
<1>5. CASE ~Enabled
  <2>1. stack' = stack
    BY <1>5 DEF Modify
  <2> QED
    BY <1>0, <1>2, <1>3, <1>5, <2>1, ChangeKeepsDisabled DEF IInv
<1> QED
  BY <1>4, <1>5

LEMMA RemoveKeeps ==
  ASSUME IInv, TypeInv', NEW i \in DOMAIN indices, RemoveObject(i), UNCHANGED thrown
  PROVE  IInv'
<1>0. /\ TypeInv /\ indices \in Table /\ next_id \in Ids
      /\ indices' = Without(indices, {i}) /\ next_id' = next_id /\ saved' = saved
  BY DEF IInv, TypeInv, TypeOK, RemoveObject
<1>1. DOMAIN indices' = DOMAIN indices \ {i} /\ \A j \in DOMAIN indices' : indices'[j] = indices[j]
  BY <1>0 DEF Without
<1>2. \A j \in DOMAIN indices' : j < next_id'
  BY <1>0, <1>1 DEF IInv
<1>3. Unique(indices')
  BY <1>1 DEF Unique, IInv
<1>4. CASE Enabled
  <2> DEFINE b == saved[Len(stack)][1]
             bid == saved[Len(stack)][2]
             u == OnRemove(Top, i, indices[i])
  <2>1. /\ Top \in UndoState /\ b \in Table /\ bid \in Ids
        /\ Fits(Top, indices, next_id, b, bid) /\ SameKeys(indices, b)
    BY <1>4, TopSound
  <2>2. u \in UndoState /\ Fits(u, indices', next_id', b, bid)
    BY <1>0, <2>1, RemoveFits
  <2>3. SameKeys(indices', b)
    BY <1>1, <2>1 DEF SameKeys
  <2>4. stack' = ReplaceTop(u)
    BY <1>4 DEF RemoveObject
  <2> HIDE DEF u
  <2> QED
    BY <1>0, <1>2, <1>3, <1>4, <2>2, <2>3, <2>4, ChangeKeeps DEF IInv
<1>5. CASE ~Enabled
  <2>1. stack' = stack
    BY <1>5 DEF RemoveObject
  <2> QED
    BY <1>0, <1>2, <1>3, <1>5, <2>1, ChangeKeepsDisabled DEF IInv
<1> QED
  BY <1>4, <1>5

LEMMA StartKeeps ==
  ASSUME IInv, TypeInv', StartUndoSession, UNCHANGED thrown
  PROVE  IInv'
<1> DEFINE u == [old_values |-> EmptyTable, removed_values |-> EmptyTable,
                 new_ids |-> {}, old_next_id |-> next_id, revision |-> revision + 1]
           c == <<indices, next_id>>
<1>0. /\ stack' = Append(stack, u) /\ saved' = Append(saved, c)
      /\ indices' = indices /\ next_id' = next_id
      /\ indices \in Table /\ next_id \in Ids
      /\ stack \in Seq(UndoState) /\ saved \in Seq(Table \X Ids) /\ Len(saved) = Len(stack)
  BY DEF IInv, TypeInv, TypeOK, StartUndoSession
<1>1. /\ u.old_values = EmptyTable /\ u.removed_values = EmptyTable
      /\ u.new_ids = {} /\ u.old_next_id = next_id
      /\ c[1] = indices /\ c[2] = next_id
  OBVIOUS
<1> HIDE DEF u, c
<1>2. /\ Len(stack') = Len(stack) + 1 /\ Len(saved') = Len(stack) + 1
      /\ stack'[Len(stack) + 1] = u /\ saved'[Len(stack) + 1] = c
      /\ \A n \in 1 .. Len(stack) : stack'[n] = stack[n] /\ saved'[n] = saved[n]
      /\ DOMAIN stack' = 1 .. Len(stack) + 1 /\ DOMAIN saved' = 1 .. Len(stack) + 1
      /\ DOMAIN stack = 1 .. Len(stack) /\ DOMAIN saved = 1 .. Len(stack)
      /\ Len(stack) \in Nat
  BY <1>0
<1>3. Below(u, indices, indices)
  BY <1>1, EmptyIsTable DEF Below
<1>4. Fits(u, indices, next_id, indices, next_id)
  BY <1>0, <1>1, <1>3, EmptyIsTable, IndexAssumption DEF Fits, IInv, Ids
<1>5. ASSUME NEW n \in DOMAIN stack' PROVE Sound(n)'
  <2>1. CASE n = Len(stack) + 1
    <3>1. /\ stack'[n] = u /\ saved'[n] = c
          /\ TableAbove(n)' = indices /\ NextIdAbove(n)' = next_id
      BY <1>0, <1>2, <2>1 DEF TableAbove, NextIdAbove
    <3> QED
      BY <1>1, <1>4, <3>1 DEF Sound, SameKeys
  <2>2. CASE n = Len(stack)
    <3>1. /\ stack'[n] = stack[n] /\ saved'[n] = saved[n] /\ n \in DOMAIN stack
      BY <1>2, <2>2
    <3>2. TableAbove(n)' = saved'[n + 1][1] /\ NextIdAbove(n)' = saved'[n + 1][2]
      <4>1. Len(stack') = Len(stack) + 1 /\ Len(stack) \in Nat
        BY <1>2
      <4>2. n # Len(stack')
        BY <2>2, <4>1
      <4> QED
        BY <4>2 DEF TableAbove, NextIdAbove
    <3>3. TableAbove(n)' = TableAbove(n) /\ NextIdAbove(n)' = NextIdAbove(n)
      BY <1>1, <1>2, <2>2, <3>2 DEF TableAbove, NextIdAbove
    <3>4. Sound(n)
      BY <3>1 DEF IInv
    <3> QED
      BY <3>1, <3>3, <3>4 DEF Sound
  <2>3. CASE n # Len(stack) + 1 /\ n # Len(stack)
    <3>1. /\ stack'[n] = stack[n] /\ saved'[n] = saved[n] /\ saved'[n + 1] = saved[n + 1]
          /\ n \in DOMAIN stack
      BY <1>2, <2>3
    <3>2. TableAbove(n)' = TableAbove(n) /\ NextIdAbove(n)' = NextIdAbove(n)
      BY <1>2, <2>3, <3>1 DEF TableAbove, NextIdAbove
    <3>3. Sound(n)
      BY <3>1 DEF IInv
    <3> QED
      BY <3>1, <3>2, <3>3 DEF Sound
  <2> QED
    BY <2>1, <2>2, <2>3
<1>6. \A n \in DOMAIN saved' : Unique(saved'[n][1])
  <2> SUFFICES ASSUME NEW n \in DOMAIN saved' PROVE Unique(saved'[n][1])
    OBVIOUS
  <2>1. CASE n = Len(stack) + 1
    BY <1>1, <1>2, <2>1 DEF IInv
  <2>2. CASE n # Len(stack) + 1
    BY <1>2, <2>2 DEF IInv
  <2> QED
    BY <2>1, <2>2
<1> QED
  BY <1>0, <1>5, <1>6 DEF IInv

\* Dropping the last undo state when its table and next id are those below it.
LEMMA UndoKeeps ==
  ASSUME IInv, TypeInv', Undo, UNCHANGED thrown
  PROVE  IInv' /\ indices' = saved[Len(stack)][1] /\ next_id' = saved[Len(stack)][2]
<1> DEFINE k == Len(stack)
<1>0. /\ Enabled /\ TypeInv /\ indices \in Table /\ next_id \in Ids
      /\ stack \in Seq(UndoState) /\ saved \in Seq(Table \X Ids) /\ Len(saved) = k
      /\ stack # <<>> /\ saved # <<>>
  BY EmptySeq DEF IInv, TypeInv, TypeOK, Undo, Enabled
<1>1. /\ Top \in UndoState /\ saved[k][1] \in Table /\ saved[k][2] \in Ids
      /\ Fits(Top, indices, next_id, saved[k][1], saved[k][2])
      /\ Unique(saved[k][1])
  BY <1>0, TopSound
<1>2. indices' = saved[k][1] /\ next_id' = saved[k][2]
  <2>1. Rollback(indices, Top) = saved[k][1]
    BY <1>0, <1>1, FitsRollback
  <2> QED
    BY <1>1, <2>1 DEF Undo, Fits
<1>3. /\ k \in Nat \ {0} /\ Len(stack') = k - 1 /\ Len(saved') = k - 1
      /\ \A n \in 1 .. k - 1 : stack'[n] = stack[n] /\ saved'[n] = saved[n]
  BY <1>0, PopType DEF Undo
<1>4. /\ DOMAIN stack' = 1 .. k - 1 /\ DOMAIN saved' = 1 .. k - 1
      /\ DOMAIN stack = 1 .. k /\ DOMAIN saved = 1 .. k
  <2>1. stack' \in Seq(UndoState) /\ saved' \in Seq(Table \X Ids)
    BY DEF TypeInv, TypeOK
  <2> QED
    BY <1>0, <1>3, <2>1
<1> HIDE DEF k
<1>5. ASSUME NEW n \in DOMAIN stack' PROVE Sound(n)'
  <2>1. stack'[n] = stack[n] /\ saved'[n] = saved[n] /\ n \in DOMAIN stack /\ n # k
    BY <1>3, <1>4
  <2>2. TableAbove(n) = saved[n + 1][1] /\ NextIdAbove(n) = saved[n + 1][2]
    BY <2>1 DEF TableAbove, NextIdAbove, k
  <2>3. TableAbove(n)' = saved[n + 1][1] /\ NextIdAbove(n)' = saved[n + 1][2]
    <3>1. CASE n = k - 1
      <4>1. n + 1 = k /\ Len(stack') = n
        BY <1>3, <3>1
      <4> QED
        BY <1>2, <4>1 DEF TableAbove, NextIdAbove
    <3>2. CASE n # k - 1
      <4>1. n # Len(stack') /\ saved'[n + 1] = saved[n + 1]
        BY <1>3, <1>4, <3>2
      <4> QED
        BY <4>1 DEF TableAbove, NextIdAbove
    <3> QED
      BY <3>1, <3>2
  <2>4. Sound(n)
    BY <2>1 DEF IInv
  <2> QED
    BY <2>1, <2>2, <2>3, <2>4 DEF Sound
<1>6. \A n \in DOMAIN saved' : Unique(saved'[n][1])
  BY <1>3, <1>4 DEF IInv
<1>7. Unique(indices') /\ \A i \in DOMAIN indices' : i < next_id'
  BY <1>1, <1>2 DEF Fits
<1>8. IInv'
  BY <1>5, <1>6, <1>7 DEF IInv
<1> QED
  BY <1>2, <1>8 DEF k

LEMMA SquashKeeps ==
  ASSUME IInv, TypeInv', Squash, UNCHANGED thrown
  PROVE  IInv'
<1> DEFINE k == Len(stack)
           A == stack[k - 1]
<1>0. /\ Enabled /\ TypeInv /\ indices \in Table /\ next_id \in Ids
      /\ indices' = indices /\ next_id' = next_id /\ saved' = Pop(saved)
      /\ stack \in Seq(UndoState) /\ saved \in Seq(Table \X Ids) /\ Len(saved) = k
      /\ stack # <<>> /\ saved # <<>>
  BY EmptySeq DEF IInv, TypeInv, TypeOK, Squash, Enabled
<1>1. /\ k \in Nat \ {0} /\ Len(saved') = k - 1
      /\ \A n \in 1 .. k - 1 : saved'[n] = saved[n]
  BY <1>0, PopType
<1>2. DOMAIN saved' = 1 .. k - 1 /\ DOMAIN stack = 1 .. k /\ DOMAIN saved = 1 .. k
  <2>1. saved' \in Seq(Table \X Ids)
    BY DEF TypeInv, TypeOK
  <2> QED
    BY <1>0, <1>1, <2>1
<1>3. \A n \in DOMAIN saved' : Unique(saved'[n][1])
  BY <1>1, <1>2 DEF IInv
<1>4. CASE k = 1
  <2>1. stack' = <<>>
    BY <1>4 DEF Squash
  <2> QED
    BY <1>0, <1>3, <2>1 DEF IInv
<1>5. CASE k # 1
  <2>1. /\ Len(stack') = k - 1 /\ stack'[k - 1] = Merge(A, Top)
        /\ \A n \in 1 .. k - 2 : stack'[n] = stack[n]
        /\ DOMAIN stack' = 1 .. k - 1
    <3> DEFINE s == Pop(stack)
    <3>1. s \in Seq(UndoState) /\ Len(s) = k - 1 /\ \A n \in 1 .. k - 1 : s[n] = stack[n]
      BY <1>0, PopType
    <3>2. stack' = [s EXCEPT ![k - 1] = Merge(s[k - 1], Top)]
      BY <1>5 DEF Squash
    <3> HIDE DEF s
    <3>3. k - 1 \in 1 .. k - 1 /\ s[k - 1] = A
      BY <1>1, <1>5, <3>1
    <3> HIDE DEF k, A
    <3> QED
      BY <1>1, <3>1, <3>2, <3>3
  <2>2. /\ Top \in UndoState /\ saved[k][1] \in Table /\ saved[k][2] \in Ids
        /\ Fits(Top, indices, next_id, saved[k][1], saved[k][2])
        /\ SameKeys(indices, saved[k][1])
    BY <1>0, TopSound
  <2>3. k - 1 \in 1 .. k
    BY <1>1, <1>5
  <2>4. /\ A \in UndoState /\ saved[k - 1][1] \in Table /\ saved[k - 1][2] \in Ids
        /\ k - 1 \in DOMAIN stack
    BY <1>0, <2>3, AboveType
  <2>5. /\ Fits(A, saved[k][1], saved[k][2], saved[k - 1][1], saved[k - 1][2])
        /\ SameKeys(saved[k][1], saved[k - 1][1])
    <3>1. Sound(k - 1)
      BY <2>4 DEF IInv
    <3>2. k - 1 # Len(stack) /\ (k - 1) + 1 = k
      BY <1>1
    <3> QED
      BY <3>1, <3>2 DEF Sound, TableAbove, NextIdAbove
  <2>6. Fits(Merge(A, Top), indices, next_id, saved[k - 1][1], saved[k - 1][2])
    BY <1>0, <2>2, <2>4, <2>5, MergeFits
  <2>7. SameKeys(indices, saved[k - 1][1])
    <3> DEFINE b == saved[k - 1][1]
               m == saved[k][1]
    <3>1. DOMAIN indices \cap DOMAIN b \subseteq DOMAIN m
      <4>1. DOMAIN b \subseteq DOMAIN m \cup DOMAIN A.removed_values
        BY <2>5 DEF Fits, Below
      <4>2. /\ \A i \in DOMAIN b : i < saved[k - 1][2]
            /\ saved[k - 1][2] <= saved[k][2]
            /\ \A i \in Top.new_ids : saved[k][2] <= i
            /\ DOMAIN indices \subseteq DOMAIN m \cup Top.new_ids
        BY <2>2, <2>5 DEF Fits, Below
      <4>3. DOMAIN b \subseteq Ids /\ Top.new_ids \subseteq Ids
        BY <2>2, <2>4, TableElim DEF UndoState
      <4>4. saved[k][2] \in Int /\ saved[k - 1][2] \in Int
        BY <2>2, <2>4, IndexAssumption DEF Ids
      <4>5. DOMAIN b \cap Top.new_ids = {}
        BY <4>2, <4>3, <4>4, IndexAssumption DEF Ids
      <4> QED
        BY <4>2, <4>5
    <3> HIDE DEF b, m
    <3>2. SameKeys(indices, m) /\ SameKeys(m, b)
      BY <2>2, <2>5 DEF m, b
    <3>3. SameKeys(indices, b)
      BY <3>1, <3>2 DEF SameKeys
    <3> QED
      BY <3>3 DEF b
  <2>8. ASSUME NEW n \in DOMAIN stack' PROVE Sound(n)'
    <3>1. CASE n = k - 1
      <4>1. /\ stack'[n] = Merge(A, Top) /\ saved'[n] = saved[n]
            /\ TableAbove(n)' = indices /\ NextIdAbove(n)' = next_id
        BY <1>0, <1>1, <2>1, <3>1 DEF TableAbove, NextIdAbove
      <4> HIDE DEF A, k
      <4> QED
        BY <2>6, <2>7, <3>1, <4>1 DEF Sound
    <3>2. CASE n # k - 1
      <4>1. /\ stack'[n] = stack[n] /\ saved'[n] = saved[n] /\ saved'[n + 1] = saved[n + 1]
            /\ n \in DOMAIN stack /\ n # Len(stack) /\ n # Len(stack')
        BY <1>1, <1>2, <2>1, <3>2
      <4>2. TableAbove(n)' = TableAbove(n) /\ NextIdAbove(n)' = NextIdAbove(n)
        BY <4>1 DEF TableAbove, NextIdAbove
      <4>3. Sound(n)
        BY <4>1 DEF IInv
      <4> QED
        BY <4>1, <4>2, <4>3 DEF Sound
    <3> QED
      BY <3>1, <3>2
  <2> QED
    BY <1>0, <1>3, <2>8 DEF IInv
<1> QED
  BY <1>4, <1>5

LEMMA CommitKeeps ==
  ASSUME IInv, TypeInv', NEW r \in 0 .. MaxRevision, Commit(r), UNCHANGED thrown
  PROVE  IInv'
<1>0. /\ stack \in Seq(UndoState) /\ saved \in Seq(Table \X Ids) /\ Len(saved) = Len(stack)
      /\ stack' \in Seq(UndoState) /\ saved' \in Seq(Table \X Ids)
      /\ indices' = indices /\ next_id' = next_id
  BY DEF IInv, TypeInv, TypeOK, Commit
<1>1. PICK k \in 0 .. Len(stack) : /\ stack' = SubSeq(stack, k + 1, Len(stack))
                                   /\ saved' = SubSeq(saved, k + 1, Len(saved))
  BY DEF Commit
<1> DEFINE d == SubSeq(stack, k + 1, Len(stack))
           e == SubSeq(saved, k + 1, Len(saved))
<1>2. Len(d) = Len(stack) - k /\ \A n \in 1 .. Len(stack) - k : d[n] = stack[n + k]
  BY <1>0, DropType
<1>3. Len(e) = Len(stack) - k /\ \A n \in 1 .. Len(stack) - k : e[n] = saved[n + k]
  BY <1>0, DropType
<1>4. stack' = d /\ saved' = e
  BY <1>1
<1> HIDE DEF d, e
<1>5. /\ Len(stack') = Len(stack) - k /\ k \in Nat /\ Len(stack) \in Nat
      /\ DOMAIN stack' = 1 .. Len(stack) - k /\ DOMAIN saved' = 1 .. Len(stack) - k
      /\ DOMAIN stack = 1 .. Len(stack) /\ DOMAIN saved = 1 .. Len(stack)
  BY <1>0, <1>2, <1>3, <1>4
<1>6. \A n \in 1 .. Len(stack) - k : stack'[n] = stack[n + k] /\ saved'[n] = saved[n + k]
  BY <1>2, <1>3, <1>4
<1>7. ASSUME NEW n \in DOMAIN stack' PROVE Sound(n)'
  <2>1. n + k \in DOMAIN stack /\ stack'[n] = stack[n + k] /\ saved'[n] = saved[n + k]
    BY <1>5, <1>6
  <2>2. TableAbove(n)' = TableAbove(n + k) /\ NextIdAbove(n)' = NextIdAbove(n + k)
    <3>1. CASE n = Len(stack')
      <4>1. n + k = Len(stack)
        BY <1>5, <3>1
      <4> QED
        BY <1>0, <3>1, <4>1 DEF TableAbove, NextIdAbove
    <3>2. CASE n # Len(stack')
      <4>1. n + k # Len(stack) /\ n + 1 \in 1 .. Len(stack) - k /\ (n + 1) + k = (n + k) + 1
        BY <1>5, <3>2
      <4>2. saved'[n + 1] = saved[(n + k) + 1]
        BY <1>6, <4>1
      <4> QED
        BY <3>2, <4>1, <4>2 DEF TableAbove, NextIdAbove
    <3> QED
      BY <3>1, <3>2
  <2>3. Sound(n + k)
    BY <2>1 DEF IInv
  <2> QED
    BY <2>1, <2>2, <2>3 DEF Sound
<1>8. \A n \in DOMAIN saved' : Unique(saved'[n][1])
  <2> SUFFICES ASSUME NEW n \in DOMAIN saved' PROVE Unique(saved'[n][1])
    OBVIOUS
  <2>1. saved'[n] = saved[n + k] /\ n + k \in DOMAIN saved
    BY <1>5, <1>6
  <2> QED
    BY <2>1 DEF IInv
<1> QED
  BY <1>0, <1>7, <1>8 DEF IInv

LEMMA InvInit == Init => IInv
<1> SUFFICES ASSUME Init PROVE IInv
  OBVIOUS
<1>1. TypeInv
  BY TypeInit
<1>2. DOMAIN indices = {} /\ stack = <<>> /\ saved = <<>> /\ ~thrown
  BY EmptyIsTable DEF Init
<1> QED
  BY <1>1, <1>2 DEF IInv, Unique

LEMMA InvStep ==
  ASSUME MutableKey = FALSE, IInv, [Next]_vars
  PROVE  IInv'
<1>0. TypeInv'
  BY TypeStep DEF IInv
<1>1. ASSUME NEW v \in Value, Create(v), UNCHANGED <<unwinding, thrown>>
      PROVE  IInv'
  BY <1>0, <1>1, CreateKeeps
<1>2. ASSUME NEW i \in DOMAIN indices, NEW v \in Value, Modify(i, v), UNCHANGED <<unwinding, thrown>>
      PROVE  IInv'
  BY <1>0, <1>2, ModifyKeeps
<1>3. ASSUME NEW i \in DOMAIN indices, NEW v \in Value, ModifyCollides(i, v)
      PROVE  IInv'
  BY <1>3 DEF ModifyCollides
<1>4. ASSUME NEW i \in DOMAIN indices, RemoveObject(i), UNCHANGED <<unwinding, thrown>>
      PROVE  IInv'
  BY <1>0, <1>4, RemoveKeeps
<1>5. CASE StartUndoSession /\ UNCHANGED <<unwinding, thrown>>
  BY <1>0, <1>5, StartKeeps
<1>6. CASE Squash /\ UNCHANGED <<unwinding, thrown>>
  BY <1>0, <1>6, SquashKeeps
<1>7. ASSUME NEW r \in 0 .. MaxRevision, Commit(r), UNCHANGED <<unwinding, thrown>>
      PROVE  IInv'
  BY <1>0, <1>7, CommitKeeps
<1>8. ASSUME NEW r \in 0 .. MaxRevision, SetRevision(r), UNCHANGED <<unwinding, thrown>>
      PROVE  IInv'
  BY <1>0, <1>8 DEF SetRevision, IInv, Sound, TableAbove, NextIdAbove
<1>9. CASE Undo /\ UNCHANGED <<unwinding, thrown>>
  BY <1>0, <1>9, UndoKeeps
<1>10. CASE UndoThrows
  <2>1. Enabled /\ indices \in Table
    BY <1>10 DEF UndoThrows, IInv, TypeInv, TypeOK
  <2>2. Restorable(indices, Top)
    <3> DEFINE b == saved[Len(stack)][1]
               bid == saved[Len(stack)][2]
    <3>1. /\ Top \in UndoState /\ b \in Table
          /\ Fits(Top, indices, next_id, b, bid) /\ SameKeys(indices, b) /\ Unique(b)
      BY <2>1, TopSound
    <3>2. Unique(indices)
      BY DEF IInv
    <3> HIDE DEF b, bid
    <3> QED
      BY <2>1, <3>1, <3>2, FitsRestorable
  <2> QED
    BY <1>10, <2>2 DEF UndoThrows
<1>11. CASE UndoAll \/ UndoAllEnds \/ UNCHANGED vars
  <2>1. UNCHANGED <<indices, next_id, stack, saved, thrown>>
    BY <1>11 DEF UndoAll, UndoAllEnds, vars
  <2> QED
    BY <1>0, <2>1 DEF IInv, Sound, TableAbove, NextIdAbove
<1> QED
  BY <1>1, <1>2, <1>3, <1>4, <1>5, <1>6, <1>7, <1>8, <1>9, <1>10, <1>11 DEF Next, Call

LEMMA InvImplies ==
  ASSUME IInv
  PROVE  UndoRestores /\ UndoNeverThrows /\ SquashNeverNA
<1>0. TypeInv /\ stack \in Seq(UndoState)
  BY DEF IInv, TypeInv, TypeOK
<1>1. UndoRestores
  <2> SUFFICES ASSUME NEW n \in DOMAIN stack
               PROVE  /\ Rollback(TableAbove(n), stack[n]) = saved[n][1]
                      /\ stack[n].old_next_id = saved[n][2]
    BY DEF UndoRestores
  <2>1. /\ stack[n] \in UndoState /\ TableAbove(n) \in Table /\ saved[n][1] \in Table
    BY <1>0, AboveType
  <2>2. Fits(stack[n], TableAbove(n), NextIdAbove(n), saved[n][1], saved[n][2])
    BY DEF IInv, Sound
  <2> QED
    BY <2>1, <2>2, FitsRollback DEF Fits
<1>2. SquashNeverNA
  <2> SUFFICES ASSUME NEW n \in DOMAIN stack, n > 1
               PROVE  LET A == stack[n - 1]
                          B == stack[n]
                      IN /\ DOMAIN A.removed_values \cap (DOMAIN B.old_values \cup DOMAIN B.removed_values) = {}
                         /\ B.new_ids \cap (A.new_ids \cup DOMAIN A.old_values \cup DOMAIN A.removed_values) = {}
    BY DEF SquashNeverNA
  <2> DEFINE A == stack[n - 1]
             B == stack[n]
             m == saved[n][1]
             mid == saved[n][2]
             b == saved[n - 1][1]
             bid == saved[n - 1][2]
  <2>0. n \in 1 .. Len(stack) /\ n - 1 \in 1 .. Len(stack) /\ n - 1 # Len(stack) /\ (n - 1) + 1 = n
    BY <1>0
  <2>1. /\ A \in UndoState /\ B \in UndoState /\ m \in Table /\ mid \in Ids /\ b \in Table /\ bid \in Ids
        /\ n - 1 \in DOMAIN stack
    BY <1>0, <2>0, AboveType
  <2>2. Fits(B, TableAbove(n), NextIdAbove(n), m, mid)
    BY DEF IInv, Sound
  <2>3. Fits(A, m, mid, b, bid)
    <3>1. TableAbove(n - 1) = m /\ NextIdAbove(n - 1) = mid
      BY <2>0 DEF TableAbove, NextIdAbove
    <3>2. Sound(n - 1)
      BY <2>1 DEF IInv
    <3> QED
      BY <3>1, <3>2 DEF Sound
  <2> HIDE DEF A, B, m, mid, b, bid
  <2>4. /\ DOMAIN A.removed_values \cap DOMAIN m = {} /\ DOMAIN A.removed_values \subseteq DOMAIN b
        /\ A.new_ids \subseteq DOMAIN m /\ DOMAIN A.old_values \subseteq DOMAIN m
    BY <2>3 DEF Fits, Below
  <2>5. DOMAIN B.old_values \subseteq DOMAIN m /\ DOMAIN B.removed_values \subseteq DOMAIN m
    BY <2>2 DEF Fits, Below
  <2>6. B.new_ids \cap DOMAIN m = {} /\ B.new_ids \cap DOMAIN b = {}
    <3>1. /\ \A i \in B.new_ids : mid <= i
          /\ \A i \in DOMAIN m : i < mid
          /\ \A i \in DOMAIN b : i < bid
          /\ bid <= mid
      BY <2>2, <2>3 DEF Fits
    <3>2. B.new_ids \subseteq Ids /\ DOMAIN m \subseteq Ids /\ DOMAIN b \subseteq Ids
      BY <2>1, TableElim DEF UndoState
    <3> QED
      BY <2>1, <3>1, <3>2, IndexAssumption DEF Ids
  <2>7. /\ DOMAIN A.removed_values \cap (DOMAIN B.old_values \cup DOMAIN B.removed_values) = {}
        /\ B.new_ids \cap (A.new_ids \cup DOMAIN A.old_values \cup DOMAIN A.removed_values) = {}
    BY <2>4, <2>5, <2>6
  <2> QED
    BY <2>7 DEF A, B
<1> QED
  BY <1>1, <1>2 DEF UndoNeverThrows, IInv

\* If no user of the index modifies a unique key, every undo state gives back
\* exactly the table and the next id its session found, undo() never throws,
\* and squash() never meets a case its comment calls N/A.
THEOREM UndoIsSound ==
  ASSUME MutableKey = FALSE
  PROVE  Spec => []UndoSound
<1>1. IInv /\ [Next]_vars => IInv'
  BY InvStep
<1>2. IInv => UndoSound
  BY InvImplies DEF UndoSound
<1> QED
  BY <1>1, <1>2, InvInit, PTL DEF Spec

----------------------------------------------------------------------------
(* Refinement. *)

LEMMA RefinesStep ==
  ASSUME MutableKey = FALSE, IInv, IInv', [Next]_vars
  PROVE  [Promise!UndoNext]_(Promise!uvars)
<1>0. /\ TypeInv /\ <<indices', next_id'>> \in Table \X Ids
      /\ saved \in Seq(Table \X Ids) /\ Len(saved) = Len(stack)
  BY DEF IInv, TypeInv, TypeOK
<1>1. CASE ObjectStep
  <2>1. Promise!Change
    BY <1>0, <1>1 DEF ObjectStep, Promise!Change
  <2> QED
    BY <2>1 DEF Promise!UndoNext
<1>2. CASE StartUndoSession
  <2>1. Promise!Start
    BY <1>2 DEF StartUndoSession, Promise!Start
  <2> QED
    BY <2>1 DEF Promise!UndoNext
<1>3. CASE Squash
  <2>1. saved # <<>>
    BY <1>0, <1>3, EmptySeq DEF Squash, Enabled, TypeInv, TypeOK
  <2>2. Promise!Squash
    BY <1>3, <2>1 DEF Squash, Pop, Promise!Squash
  <2> QED
    BY <2>2 DEF Promise!UndoNext
<1>4. ASSUME NEW r \in 0 .. MaxRevision, Commit(r)
      PROVE  Promise!UndoNext
  <2>1. Promise!Commit
    BY <1>0, <1>4 DEF Commit, Promise!Commit
  <2> QED
    BY <2>1 DEF Promise!UndoNext
<1>5. CASE Undo /\ UNCHANGED <<unwinding, thrown>>
  <2>1. saved # <<>>
    BY <1>0, <1>5, EmptySeq DEF Undo, Enabled, TypeInv, TypeOK
  <2>2. indices' = saved[Len(saved)][1] /\ next_id' = saved[Len(saved)][2]
    BY <1>0, <1>5, UndoKeeps DEF IInv
  <2>3. saved[Len(saved)] \in Table \X Ids
    BY <1>0, <2>1, EmptySeq
  <2>4. <<indices', next_id'>> = saved[Len(saved)]
    BY <2>2, <2>3
  <2>5. Promise!Undo
    BY <1>5, <2>1, <2>4 DEF Undo, Pop, Promise!Undo
  <2> QED
    BY <2>5 DEF Promise!UndoNext
<1>6. ASSUME NEW r \in 0 .. MaxRevision, SetRevision(r)
      PROVE  UNCHANGED Promise!uvars
  BY <1>6 DEF SetRevision, Promise!uvars
<1>7. CASE UndoThrows \/ UndoAll \/ UndoAllEnds \/ UNCHANGED vars
  BY <1>7 DEF UndoThrows, UndoAll, UndoAllEnds, vars, Promise!uvars
<1> QED
  BY <1>0, <1>1, <1>2, <1>3, <1>4, <1>5, <1>6, <1>7, ObjectSteps DEF Next, Call

\* generic_index, which only keeps differences, implements the stack of saved
\* states, when no user modifies a unique key.
THEOREM Refinement ==
  ASSUME MutableKey = FALSE
  PROVE  Spec => KeepsPromise
<1>1. Init => Promise!UndoInit
  <2> SUFFICES ASSUME Init PROVE Promise!UndoInit
    OBVIOUS
  <2>1. indices \in Table /\ next_id \in Ids
    BY TypeInit DEF TypeInv, TypeOK
  <2> QED
    BY <2>1 DEF Init, Promise!UndoInit
<1>2. IInv /\ IInv' /\ [Next]_vars => [Promise!UndoNext]_(Promise!uvars)
  BY RefinesStep
<1>3. IInv /\ [Next]_vars => IInv'
  BY InvStep
<1> QED
  BY <1>1, <1>2, <1>3, InvInit, PTL DEF Spec, KeepsPromise, Promise!UndoSpec
----------------------------------------------------------------------------
(* What is left of this when users modify unique keys.  A colliding modify *)
(* loses an object behind the undo states' backs, so nothing can be said   *)
(* of values; which ids an undo state may mention can.                     *)

\* Undo state u speaks of objects of table b and of ids given out since, and
\* table t above it holds nothing else.
Mentions(u, t, nid, b, bid) ==
  /\ DOMAIN u.old_values \subseteq DOMAIN b
  /\ DOMAIN u.removed_values \subseteq DOMAIN b
  /\ DOMAIN u.removed_values \cap DOMAIN t = {}
  /\ DOMAIN t \subseteq DOMAIN b \cup u.new_ids
  /\ u.old_next_id = bid /\ bid <= nid
  /\ \A i \in u.new_ids : bid <= i /\ i < nid
  /\ \A i \in DOMAIN b : i < bid

Apart(n) == Mentions(stack[n], TableAbove(n), NextIdAbove(n), saved[n][1], saved[n][2])

MentionInv ==
  /\ TypeInv
  /\ \A i \in DOMAIN indices : i < next_id
  /\ \A n \in DOMAIN stack : Apart(n)

LEMMA TopApart ==
  ASSUME MentionInv, Enabled
  PROVE  /\ Top \in UndoState
         /\ saved[Len(stack)][1] \in Table /\ saved[Len(stack)][2] \in Ids
         /\ Mentions(Top, indices, next_id, saved[Len(stack)][1], saved[Len(stack)][2])
<1> DEFINE n == Len(stack)
<1>1. TypeInv /\ n \in 1 .. Len(stack)
  BY TopType DEF MentionInv
<1>2. /\ n \in DOMAIN stack /\ n \in DOMAIN saved /\ stack[n] \in UndoState
      /\ saved[n][1] \in Table /\ saved[n][2] \in Ids
  BY <1>1, AboveType
<1>3. Apart(n)
  BY <1>2 DEF MentionInv
<1> QED
  BY <1>2, <1>3 DEF Apart, TableAbove, NextIdAbove, Top

\* What each change of an object does to the ids the top undo state mentions.
LEMMA ChangeMentions ==
  ASSUME NEW u \in UndoState, NEW t \in Table, NEW b \in Table,
         NEW nid \in Ids, NEW bid \in Ids, Mentions(u, t, nid, b, bid),
         \A i \in DOMAIN t : i < nid
  PROVE  /\ \A x \in Table : nid < MaxId /\ DOMAIN x = DOMAIN t \cup {nid}
              => Mentions(OnCreate(u, nid), x, nid + 1, b, bid)
         /\ \A x \in Table, i \in DOMAIN t, v \in Value : DOMAIN x = DOMAIN t
              => Mentions(OnModify(u, i, v), x, nid, b, bid)
         /\ \A x \in Table, i \in DOMAIN t : DOMAIN x = DOMAIN t \ {i}
              => Mentions(u, x, nid, b, bid)
         /\ \A x \in Table, i \in DOMAIN t, v \in Value : DOMAIN x = DOMAIN t \ {i}
              => Mentions(OnRemove(u, i, v), x, nid, b, bid)
<1>0. /\ u.old_values \in Table /\ u.removed_values \in Table
      /\ u.new_ids \subseteq Int /\ DOMAIN t \subseteq Int /\ DOMAIN b \subseteq Int
      /\ nid \in Int /\ bid \in Int /\ DOMAIN t \subseteq Ids /\ DOMAIN b \subseteq Ids
  BY TableElim, IndexAssumption DEF UndoState, Ids
<1>1. ASSUME NEW x \in Table, nid < MaxId, DOMAIN x = DOMAIN t \cup {nid}
      PROVE  Mentions(OnCreate(u, nid), x, nid + 1, b, bid)
  <2> DEFINE w == OnCreate(u, nid)
  <2>1. /\ w.old_values = u.old_values /\ w.removed_values = u.removed_values
        /\ w.old_next_id = u.old_next_id /\ w.new_ids = u.new_ids \cup {nid}
    BY DEF OnCreate, UndoState
  <2> HIDE DEF w
  <2>2. nid \notin DOMAIN u.removed_values
    BY <1>0 DEF Mentions
  <2>3. Mentions(w, x, nid + 1, b, bid)
    BY <1>0, <1>1, <2>1, <2>2 DEF Mentions
  <2> QED
    BY <2>3 DEF w
<1>2. ASSUME NEW x \in Table, NEW i \in DOMAIN t, NEW v \in Value, DOMAIN x = DOMAIN t
      PROVE  Mentions(OnModify(u, i, v), x, nid, b, bid)
  <2>1. CASE i \in u.new_ids \/ i \in DOMAIN u.old_values
    BY <1>2, <2>1 DEF OnModify, Mentions
  <2>2. CASE ~(i \in u.new_ids \/ i \in DOMAIN u.old_values)
    <3> DEFINE p == Put(u.old_values, i, v)
               w == [u EXCEPT !.old_values = p]
    <3>1. DOMAIN p = DOMAIN u.old_values \cup {i}
      BY <1>0, PutTable
    <3>2. OnModify(u, i, v) = w
      BY <2>2 DEF OnModify
    <3> HIDE DEF p
    <3>3. /\ w.old_values = p /\ w.removed_values = u.removed_values
          /\ w.old_next_id = u.old_next_id /\ w.new_ids = u.new_ids
      BY DEF UndoState
    <3> HIDE DEF w
    <3>4. i \in DOMAIN b
      BY <2>2 DEF Mentions
    <3> QED
      BY <1>2, <3>1, <3>2, <3>3, <3>4 DEF Mentions
  <2> QED
    BY <2>1, <2>2
<1>3. ASSUME NEW x \in Table, NEW i \in DOMAIN t, DOMAIN x = DOMAIN t \ {i}
      PROVE  Mentions(u, x, nid, b, bid)
  BY <1>3 DEF Mentions
<1>4. ASSUME NEW x \in Table, NEW i \in DOMAIN t, NEW v \in Value, DOMAIN x = DOMAIN t \ {i}
      PROVE  Mentions(OnRemove(u, i, v), x, nid, b, bid)
  <2>1. CASE i \in u.new_ids
    <3> DEFINE w == [u EXCEPT !.new_ids = u.new_ids \ {i}]
    <3>1. OnRemove(u, i, v) = w
      BY <2>1 DEF OnRemove
    <3>2. /\ w.old_values = u.old_values /\ w.removed_values = u.removed_values
          /\ w.old_next_id = u.old_next_id /\ w.new_ids = u.new_ids \ {i}
      BY DEF UndoState
    <3> HIDE DEF w
    <3> QED
      BY <1>0, <1>4, <3>1, <3>2 DEF Mentions
  <2>2. CASE i \notin u.new_ids
    <3> DEFINE w == OnRemove(u, i, v)
    <3>1. i \in DOMAIN b
      BY <2>2 DEF Mentions
    <3>2. /\ w.old_next_id = u.old_next_id /\ w.new_ids = u.new_ids
          /\ DOMAIN w.old_values \subseteq DOMAIN u.old_values
          /\ DOMAIN w.removed_values \subseteq DOMAIN u.removed_values \cup {i}
      <4>1. CASE i \in DOMAIN u.old_values
        <5> DEFINE p == Put(u.removed_values, i, u.old_values[i])
                   o == Without(u.old_values, {i})
        <5>1. /\ DOMAIN p = DOMAIN u.removed_values \cup {i}
              /\ DOMAIN o = DOMAIN u.old_values \ {i}
          BY DEF Put, Without
        <5>2. w = [u EXCEPT !.removed_values = p, !.old_values = o]
          BY <2>2, <4>1 DEF OnRemove
        <5> HIDE DEF p, o, w
        <5> QED
          BY <5>1, <5>2 DEF UndoState
      <4>2. CASE i \notin DOMAIN u.old_values
        <5> DEFINE p == Put(u.removed_values, i, v)
        <5>1. DOMAIN p = DOMAIN u.removed_values \cup {i}
          BY DEF Put
        <5>2. w = u \/ w = [u EXCEPT !.removed_values = p]
          BY <2>2, <4>2 DEF OnRemove
        <5> HIDE DEF p, w
        <5> QED
          BY <5>1, <5>2 DEF UndoState
      <4> QED
        BY <4>1, <4>2
    <3> HIDE DEF w
    <3>3. Mentions(w, x, nid, b, bid)
      BY <1>4, <3>1, <3>2 DEF Mentions
    <3> QED
      BY <3>3 DEF w
  <2> QED
    BY <2>1, <2>2
<1> QED
  BY <1>1, <1>2, <1>3, <1>4

\* Merging two undo states.
LEMMA MergeMentions ==
  ASSUME NEW A \in UndoState, NEW B \in UndoState,
         NEW t \in Table, NEW m \in Table, NEW b \in Table,
         NEW nid \in Ids, NEW mid \in Ids, NEW bid \in Ids,
         Mentions(A, m, mid, b, bid), Mentions(B, t, nid, m, mid)
  PROVE  Mentions(Merge(A, B), t, nid, b, bid)
<1> DEFINE known == A.new_ids \cup DOMAIN A.old_values
           newIds == A.new_ids \cup B.new_ids
           upd == Underride(A.old_values, Without(B.old_values, known))
           gone == DOMAIN B.removed_values
           fromOld == [i \in gone \cap (DOMAIN upd \ newIds) |-> upd[i]]
           fromB == Without(B.removed_values, newIds \cup DOMAIN upd)
           o == Without(upd, gone \ newIds)
           r == Underride(A.removed_values, Override(fromB, fromOld))
           w == [A EXCEPT !.new_ids = newIds \ gone, !.old_values = o, !.removed_values = r]
<1>1. Merge(A, B) = w
  BY DEF Merge
<1>2. DOMAIN upd = DOMAIN A.old_values \cup (DOMAIN B.old_values \ known)
  BY DEF Underride, Override, Without
<1> HIDE DEF upd
<1>3. /\ DOMAIN fromOld \subseteq DOMAIN upd \cap gone
      /\ DOMAIN fromB \subseteq gone \ newIds
      /\ DOMAIN o \subseteq DOMAIN upd
  BY DEF Without
<1> HIDE DEF fromOld, fromB, o
<1>4. DOMAIN r = DOMAIN A.removed_values \cup DOMAIN fromB \cup DOMAIN fromOld
  BY DEF Underride, Override
<1> HIDE DEF r
<1>5. /\ w.old_values = o /\ w.removed_values = r
      /\ w.old_next_id = A.old_next_id /\ w.new_ids = newIds \ gone
  BY DEF UndoState
<1> HIDE DEF w
<1>6. DOMAIN upd \subseteq DOMAIN b
  BY <1>2 DEF Mentions
<1>7. DOMAIN r \subseteq DOMAIN b
  BY <1>3, <1>4, <1>6 DEF Mentions
<1>8. DOMAIN r \cap DOMAIN t = {}
  <2>1. /\ A.new_ids \subseteq Int /\ B.new_ids \subseteq Int /\ DOMAIN b \subseteq Int
        /\ bid \in Int /\ mid \in Int /\ nid \in Int
    BY TableElim, IndexAssumption DEF UndoState, Ids
  <2>2. DOMAIN A.removed_values \cap B.new_ids = {}
    BY <2>1 DEF Mentions
  <2> QED
    BY <1>3, <1>4, <2>2 DEF Mentions
<1>9. DOMAIN t \subseteq DOMAIN b \cup (newIds \ gone)
  BY DEF Mentions
<1>10. /\ A.old_next_id = bid /\ bid <= nid
       /\ \A i \in newIds \ gone : bid <= i /\ i < nid
       /\ \A i \in DOMAIN b : i < bid
  <2>1. /\ A.new_ids \subseteq Int /\ B.new_ids \subseteq Int
        /\ bid \in Int /\ mid \in Int /\ nid \in Int
    BY IndexAssumption DEF UndoState, Ids
  <2> QED
    BY <2>1 DEF Mentions
<1> HIDE DEF newIds, gone
<1> QED
  BY <1>1, <1>3, <1>5, <1>6, <1>7, <1>8, <1>9, <1>10 DEF Mentions

\* A change of an object keeps the invariant.
LEMMA ChangeKeepsApart ==
  ASSUME MentionInv, TypeInv', saved' = saved,
         \A i \in DOMAIN indices' : i < next_id',
         Enabled, NEW u \in UndoState, stack' = ReplaceTop(u),
         Mentions(u, indices', next_id', saved[Len(stack)][1], saved[Len(stack)][2])
  PROVE  MentionInv'
<1>0. TypeInv /\ stack \in Seq(UndoState) /\ Len(stack) \in Nat
  BY DEF MentionInv, TypeInv, TypeOK
<1>1. ASSUME NEW n \in DOMAIN stack' PROVE Apart(n)'
  <2> DEFINE s == ReplaceTop(u)
  <2>1. /\ Len(s) = Len(stack) /\ s[Len(stack)] = u
        /\ \A k \in 1 .. Len(stack) - 1 : s[k] = stack[k]
        /\ s \in Seq(UndoState)
    BY <1>0, ReplaceTopType
  <2>2. stack' = s
    OBVIOUS
  <2> HIDE DEF s
  <2>3. n \in 1 .. Len(stack) /\ Len(stack') = Len(stack)
    BY <2>1, <2>2
  <2>4. CASE n = Len(stack)
    <3>1. stack'[n] = u /\ TableAbove(n)' = indices' /\ NextIdAbove(n)' = next_id'
      BY <2>1, <2>2, <2>4 DEF TableAbove, NextIdAbove
    <3> QED
      BY <2>4, <3>1 DEF Apart
  <2>5. CASE n # Len(stack)
    <3>1. stack'[n] = stack[n] /\ n \in DOMAIN stack
      BY <1>0, <2>1, <2>2, <2>3, <2>5
    <3>2. TableAbove(n)' = TableAbove(n) /\ NextIdAbove(n)' = NextIdAbove(n)
      BY <2>3, <2>5 DEF TableAbove, NextIdAbove
    <3>3. Apart(n)
      BY <3>1 DEF MentionInv
    <3> QED
      BY <3>1, <3>2, <3>3 DEF Apart
  <2> QED
    BY <2>4, <2>5
<1> QED
  BY <1>1 DEF MentionInv

LEMMA ObjectKeepsApart ==
  ASSUME MentionInv, TypeInv',
         \/ \E v \in Value : Create(v)
         \/ \E i \in DOMAIN indices, v \in Value : Modify(i, v)
         \/ \E i \in DOMAIN indices, v \in Value : ModifyCollides(i, v)
         \/ \E i \in DOMAIN indices : RemoveObject(i)
  PROVE  MentionInv'
<1> DEFINE k == Len(stack)
           b == saved[k][1]
           bid == saved[k][2]
<1>0. /\ TypeInv /\ indices \in Table /\ next_id \in Ids /\ DOMAIN indices \subseteq Ids
      /\ \A i \in DOMAIN indices : i < next_id
      /\ indices' \in Table /\ saved' = saved
  BY TableElim DEF MentionInv, TypeInv, TypeOK, Create, Modify, ModifyCollides, RemoveObject
<1>1. Enabled => /\ Top \in UndoState /\ b \in Table /\ bid \in Ids
                 /\ Mentions(Top, indices, next_id, b, bid)
  BY TopApart
<1>2. ASSUME ~Enabled, stack' = stack, \A i \in DOMAIN indices' : i < next_id' PROVE MentionInv'
  <2>1. stack' = <<>>
    BY <1>2 DEF Enabled
  <2> QED
    BY <1>2, <2>1 DEF MentionInv
<1>3. ASSUME NEW v \in Value, Create(v) PROVE MentionInv'
  <2>1. /\ DOMAIN indices' = DOMAIN indices \cup {next_id} /\ next_id' = next_id + 1
        /\ next_id < MaxId
    BY <1>3 DEF Create, Put
  <2>2. \A i \in DOMAIN indices' : i < next_id'
    BY <1>0, <2>1, IndexAssumption DEF Ids
  <2>3. CASE Enabled
    <3> DEFINE w == OnCreate(Top, next_id)
    <3>1. w \in UndoState
      BY <1>0, <1>1, <2>3, <1>3, OnChangeType
    <3>2. Mentions(w, indices', next_id', b, bid)
      BY <1>0, <1>1, <2>1, <2>3, ChangeMentions
    <3>3. stack' = ReplaceTop(w)
      BY <1>3, <2>3 DEF Create
    <3> HIDE DEF w
    <3> QED
      BY <1>0, <2>2, <2>3, <3>1, <3>2, <3>3, ChangeKeepsApart
  <2>4. CASE ~Enabled
    BY <1>2, <1>3, <2>2, <2>4 DEF Create
  <2> QED
    BY <2>3, <2>4
<1>4. ASSUME NEW i \in DOMAIN indices, NEW v \in Value, Modify(i, v) PROVE MentionInv'
  <2>1. DOMAIN indices' = DOMAIN indices /\ next_id' = next_id /\ indices[i] \in Value
    BY <1>0, <1>4, TableElim DEF Modify
  <2>2. \A j \in DOMAIN indices' : j < next_id'
    BY <1>0, <2>1
  <2>3. CASE Enabled
    <3> DEFINE w == OnModify(Top, i, indices[i])
    <3>1. w \in UndoState
      BY <1>0, <1>1, <2>1, <2>3, OnChangeType
    <3>2. Mentions(w, indices', next_id', b, bid)
      BY <1>0, <1>1, <2>1, <2>3, ChangeMentions
    <3>3. stack' = ReplaceTop(w)
      BY <1>4, <2>3 DEF Modify
    <3> HIDE DEF w
    <3> QED
      BY <1>0, <2>2, <2>3, <3>1, <3>2, <3>3, ChangeKeepsApart
  <2>4. CASE ~Enabled
    BY <1>2, <1>4, <2>2, <2>4 DEF Modify
  <2> QED
    BY <2>3, <2>4
<1>5. ASSUME NEW i \in DOMAIN indices, NEW v \in Value, ModifyCollides(i, v) PROVE MentionInv'
  <2>1. DOMAIN indices' = DOMAIN indices \ {i} /\ next_id' = next_id /\ stack' = stack
    BY <1>5 DEF ModifyCollides, Without
  <2>2. \A j \in DOMAIN indices' : j < next_id'
    BY <1>0, <2>1
  <2>3. CASE Enabled
    <3> DEFINE w == Top
    <3>1. w \in UndoState
      BY <1>1, <2>3
    <3>2. Mentions(w, indices', next_id', b, bid)
      BY <1>0, <1>1, <2>1, <2>3, ChangeMentions
    <3>3. stack' = ReplaceTop(w)
      <4>1. stack \in Seq(UndoState) /\ stack # <<>>
        BY <1>0, <2>3 DEF TypeInv, TypeOK, Enabled
      <4> QED
        BY <2>1, <4>1 DEF ReplaceTop, Top
    <3> HIDE DEF w
    <3> QED
      BY <1>0, <2>2, <2>3, <3>1, <3>2, <3>3, ChangeKeepsApart
  <2>4. CASE ~Enabled
    BY <1>2, <2>1, <2>2, <2>4
  <2> QED
    BY <2>3, <2>4
<1>6. ASSUME NEW i \in DOMAIN indices, RemoveObject(i) PROVE MentionInv'
  <2>1. DOMAIN indices' = DOMAIN indices \ {i} /\ next_id' = next_id /\ indices[i] \in Value
    BY <1>0, <1>6, TableElim DEF RemoveObject, Without
  <2>2. \A j \in DOMAIN indices' : j < next_id'
    BY <1>0, <2>1
  <2>3. CASE Enabled
    <3> DEFINE w == OnRemove(Top, i, indices[i])
    <3>1. w \in UndoState
      BY <1>0, <1>1, <2>1, <2>3, OnChangeType
    <3>2. Mentions(w, indices', next_id', b, bid)
      BY <1>0, <1>1, <2>1, <2>3, ChangeMentions
    <3>3. stack' = ReplaceTop(w)
      BY <1>6, <2>3 DEF RemoveObject
    <3> HIDE DEF w
    <3> QED
      BY <1>0, <2>2, <2>3, <3>1, <3>2, <3>3, ChangeKeepsApart
  <2>4. CASE ~Enabled
    BY <1>2, <1>6, <2>2, <2>4 DEF RemoveObject
  <2> QED
    BY <2>3, <2>4
<1> QED
  BY <1>3, <1>4, <1>5, <1>6

LEMMA StartKeepsApart ==
  ASSUME MentionInv, TypeInv', StartUndoSession
  PROVE  MentionInv'
<1> DEFINE u == [old_values |-> EmptyTable, removed_values |-> EmptyTable,
                 new_ids |-> {}, old_next_id |-> next_id, revision |-> revision + 1]
           c == <<indices, next_id>>
<1>0. /\ stack' = Append(stack, u) /\ saved' = Append(saved, c)
      /\ indices' = indices /\ next_id' = next_id
      /\ indices \in Table /\ next_id \in Ids
      /\ stack \in Seq(UndoState) /\ saved \in Seq(Table \X Ids) /\ Len(saved) = Len(stack)
  BY DEF MentionInv, TypeInv, TypeOK, StartUndoSession
<1>1. /\ u.old_values = EmptyTable /\ u.removed_values = EmptyTable
      /\ u.new_ids = {} /\ u.old_next_id = next_id
      /\ c[1] = indices /\ c[2] = next_id
  OBVIOUS
<1> HIDE DEF u, c
<1>2. /\ Len(stack') = Len(stack) + 1 /\ Len(saved') = Len(stack) + 1
      /\ stack'[Len(stack) + 1] = u /\ saved'[Len(stack) + 1] = c
      /\ \A n \in 1 .. Len(stack) : stack'[n] = stack[n] /\ saved'[n] = saved[n]
      /\ DOMAIN stack' = 1 .. Len(stack) + 1 /\ DOMAIN saved' = 1 .. Len(stack) + 1
      /\ DOMAIN stack = 1 .. Len(stack) /\ DOMAIN saved = 1 .. Len(stack)
      /\ Len(stack) \in Nat
  BY <1>0
<1>4. Mentions(u, indices, next_id, indices, next_id)
  BY <1>0, <1>1, EmptyIsTable, IndexAssumption DEF Mentions, MentionInv, Ids
<1>5. ASSUME NEW n \in DOMAIN stack' PROVE Apart(n)'
  <2>1. CASE n = Len(stack) + 1
    <3>1. /\ stack'[n] = u /\ saved'[n] = c
          /\ TableAbove(n)' = indices /\ NextIdAbove(n)' = next_id
      BY <1>0, <1>2, <2>1 DEF TableAbove, NextIdAbove
    <3> QED
      BY <1>1, <1>4, <3>1 DEF Apart
  <2>2. CASE n = Len(stack)
    <3>1. /\ stack'[n] = stack[n] /\ saved'[n] = saved[n] /\ n \in DOMAIN stack
      BY <1>2, <2>2
    <3>2. TableAbove(n)' = saved'[n + 1][1] /\ NextIdAbove(n)' = saved'[n + 1][2]
      <4>1. Len(stack') = Len(stack) + 1 /\ Len(stack) \in Nat
        BY <1>2
      <4>2. n # Len(stack')
        BY <2>2, <4>1
      <4> QED
        BY <4>2 DEF TableAbove, NextIdAbove
    <3>3. TableAbove(n)' = TableAbove(n) /\ NextIdAbove(n)' = NextIdAbove(n)
      BY <1>1, <1>2, <2>2, <3>2 DEF TableAbove, NextIdAbove
    <3>4. Apart(n)
      BY <3>1 DEF MentionInv
    <3> QED
      BY <3>1, <3>3, <3>4 DEF Apart
  <2>3. CASE n # Len(stack) + 1 /\ n # Len(stack)
    <3>1. /\ stack'[n] = stack[n] /\ saved'[n] = saved[n] /\ saved'[n + 1] = saved[n + 1]
          /\ n \in DOMAIN stack
      BY <1>2, <2>3
    <3>2. TableAbove(n)' = TableAbove(n) /\ NextIdAbove(n)' = NextIdAbove(n)
      BY <1>2, <2>3, <3>1 DEF TableAbove, NextIdAbove
    <3>3. Apart(n)
      BY <3>1 DEF MentionInv
    <3> QED
      BY <3>1, <3>2, <3>3 DEF Apart
  <2> QED
    BY <2>1, <2>2, <2>3
<1> QED
  BY <1>0, <1>5 DEF MentionInv

LEMMA UndoKeepsApart ==
  ASSUME MentionInv, TypeInv', Undo
  PROVE  MentionInv'
<1> DEFINE k == Len(stack)
<1>0. /\ Enabled /\ TypeInv /\ indices \in Table /\ next_id \in Ids
      /\ stack \in Seq(UndoState) /\ saved \in Seq(Table \X Ids) /\ Len(saved) = k
      /\ stack # <<>> /\ saved # <<>>
  BY EmptySeq DEF MentionInv, TypeInv, TypeOK, Undo, Enabled
<1>1. /\ Top \in UndoState /\ saved[k][1] \in Table /\ saved[k][2] \in Ids
      /\ Mentions(Top, indices, next_id, saved[k][1], saved[k][2])
  BY <1>0, TopApart
<1>2. DOMAIN indices' \subseteq DOMAIN saved[k][1] /\ next_id' = saved[k][2]
  <2>1. DOMAIN indices' = ((DOMAIN indices \cup DOMAIN Top.old_values) \ Top.new_ids)
                            \cup DOMAIN Top.removed_values
    BY <1>0, <1>1, RollbackTable DEF Undo
  <2> QED
    BY <1>1, <2>1 DEF Undo, Mentions
<1>3. /\ k \in Nat \ {0} /\ Len(stack') = k - 1 /\ Len(saved') = k - 1
      /\ \A n \in 1 .. k - 1 : stack'[n] = stack[n] /\ saved'[n] = saved[n]
  BY <1>0, PopType DEF Undo
<1>4. /\ DOMAIN stack' = 1 .. k - 1 /\ DOMAIN saved' = 1 .. k - 1
      /\ DOMAIN stack = 1 .. k /\ DOMAIN saved = 1 .. k
  <2>1. stack' \in Seq(UndoState) /\ saved' \in Seq(Table \X Ids)
    BY DEF TypeInv, TypeOK
  <2> QED
    BY <1>0, <1>3, <2>1
<1> HIDE DEF k
<1>5. ASSUME NEW n \in DOMAIN stack' PROVE Apart(n)'
  <2>1. stack'[n] = stack[n] /\ saved'[n] = saved[n] /\ n \in DOMAIN stack /\ n # k
    BY <1>3, <1>4
  <2>2. TableAbove(n) = saved[n + 1][1] /\ NextIdAbove(n) = saved[n + 1][2]
    BY <2>1 DEF TableAbove, NextIdAbove, k
  <2>3. DOMAIN TableAbove(n)' \subseteq DOMAIN saved[n + 1][1] /\ NextIdAbove(n)' = saved[n + 1][2]
    <3>1. CASE n = k - 1
      <4>1. n + 1 = k /\ Len(stack') = n
        BY <1>3, <3>1
      <4> QED
        BY <1>2, <4>1 DEF TableAbove, NextIdAbove
    <3>2. CASE n # k - 1
      <4>1. n # Len(stack') /\ saved'[n + 1] = saved[n + 1]
        BY <1>3, <1>4, <3>2
      <4> QED
        BY <4>1 DEF TableAbove, NextIdAbove
    <3> QED
      BY <3>1, <3>2
  <2>4. Apart(n)
    BY <2>1 DEF MentionInv
  <2> QED
    BY <2>1, <2>2, <2>3, <2>4 DEF Apart, Mentions
<1>6. \A i \in DOMAIN indices' : i < next_id'
  BY <1>1, <1>2 DEF Mentions
<1> QED
  BY <1>5, <1>6 DEF MentionInv

LEMMA SquashKeepsApart ==
  ASSUME MentionInv, TypeInv', Squash
  PROVE  MentionInv'
<1> DEFINE k == Len(stack)
           A == stack[k - 1]
<1>0. /\ Enabled /\ TypeInv /\ indices \in Table /\ next_id \in Ids
      /\ indices' = indices /\ next_id' = next_id /\ saved' = Pop(saved)
      /\ stack \in Seq(UndoState) /\ saved \in Seq(Table \X Ids) /\ Len(saved) = k
      /\ stack # <<>> /\ saved # <<>>
  BY EmptySeq DEF MentionInv, TypeInv, TypeOK, Squash, Enabled
<1>1. /\ k \in Nat \ {0} /\ Len(saved') = k - 1
      /\ \A n \in 1 .. k - 1 : saved'[n] = saved[n]
  BY <1>0, PopType
<1>2. DOMAIN saved' = 1 .. k - 1 /\ DOMAIN stack = 1 .. k /\ DOMAIN saved = 1 .. k
  <2>1. saved' \in Seq(Table \X Ids)
    BY DEF TypeInv, TypeOK
  <2> QED
    BY <1>0, <1>1, <2>1
<1>4. CASE k = 1
  <2>1. stack' = <<>>
    BY <1>4 DEF Squash
  <2> QED
    BY <1>0, <2>1 DEF MentionInv
<1>5. CASE k # 1
  <2>1. /\ Len(stack') = k - 1 /\ stack'[k - 1] = Merge(A, Top)
        /\ \A n \in 1 .. k - 2 : stack'[n] = stack[n]
        /\ DOMAIN stack' = 1 .. k - 1
    <3> DEFINE s == Pop(stack)
    <3>1. s \in Seq(UndoState) /\ Len(s) = k - 1 /\ \A n \in 1 .. k - 1 : s[n] = stack[n]
      BY <1>0, PopType
    <3>2. stack' = [s EXCEPT ![k - 1] = Merge(s[k - 1], Top)]
      BY <1>5 DEF Squash
    <3> HIDE DEF s
    <3>3. k - 1 \in 1 .. k - 1 /\ s[k - 1] = A
      BY <1>1, <1>5, <3>1
    <3> HIDE DEF k, A
    <3> QED
      BY <1>1, <3>1, <3>2, <3>3
  <2>2. /\ Top \in UndoState /\ saved[k][1] \in Table /\ saved[k][2] \in Ids
        /\ Mentions(Top, indices, next_id, saved[k][1], saved[k][2])
    BY <1>0, TopApart
  <2>3. k - 1 \in 1 .. k
    BY <1>1, <1>5
  <2>4. /\ A \in UndoState /\ saved[k - 1][1] \in Table /\ saved[k - 1][2] \in Ids
        /\ k - 1 \in DOMAIN stack
    BY <1>0, <2>3, AboveType
  <2>5. /\ Mentions(A, saved[k][1], saved[k][2], saved[k - 1][1], saved[k - 1][2])
    <3>1. Apart(k - 1)
      BY <2>4 DEF MentionInv
    <3>2. k - 1 # Len(stack) /\ (k - 1) + 1 = k
      BY <1>1
    <3> QED
      BY <3>1, <3>2 DEF Apart, TableAbove, NextIdAbove
  <2>6. Mentions(Merge(A, Top), indices, next_id, saved[k - 1][1], saved[k - 1][2])
    BY <1>0, <2>2, <2>4, <2>5, MergeMentions
  <2>8. ASSUME NEW n \in DOMAIN stack' PROVE Apart(n)'
    <3>1. CASE n = k - 1
      <4>1. /\ stack'[n] = Merge(A, Top) /\ saved'[n] = saved[n]
            /\ TableAbove(n)' = indices /\ NextIdAbove(n)' = next_id
        BY <1>0, <1>1, <2>1, <3>1 DEF TableAbove, NextIdAbove
      <4> HIDE DEF A, k
      <4> QED
        BY <2>6, <3>1, <4>1 DEF Apart
    <3>2. CASE n # k - 1
      <4>1. /\ stack'[n] = stack[n] /\ saved'[n] = saved[n] /\ saved'[n + 1] = saved[n + 1]
            /\ n \in DOMAIN stack /\ n # Len(stack) /\ n # Len(stack')
        BY <1>1, <1>2, <2>1, <3>2
      <4>2. TableAbove(n)' = TableAbove(n) /\ NextIdAbove(n)' = NextIdAbove(n)
        BY <4>1 DEF TableAbove, NextIdAbove
      <4>3. Apart(n)
        BY <4>1 DEF MentionInv
      <4> QED
        BY <4>1, <4>2, <4>3 DEF Apart
    <3> QED
      BY <3>1, <3>2
  <2> QED
    BY <1>0, <2>8 DEF MentionInv
<1> QED
  BY <1>4, <1>5

LEMMA CommitKeepsApart ==
  ASSUME MentionInv, TypeInv', NEW r \in 0 .. MaxRevision, Commit(r)
  PROVE  MentionInv'
<1>0. /\ stack \in Seq(UndoState) /\ saved \in Seq(Table \X Ids) /\ Len(saved) = Len(stack)
      /\ stack' \in Seq(UndoState) /\ saved' \in Seq(Table \X Ids)
      /\ indices' = indices /\ next_id' = next_id
  BY DEF MentionInv, TypeInv, TypeOK, Commit
<1>1. PICK k \in 0 .. Len(stack) : /\ stack' = SubSeq(stack, k + 1, Len(stack))
                                   /\ saved' = SubSeq(saved, k + 1, Len(saved))
  BY DEF Commit
<1> DEFINE d == SubSeq(stack, k + 1, Len(stack))
           e == SubSeq(saved, k + 1, Len(saved))
<1>2. Len(d) = Len(stack) - k /\ \A n \in 1 .. Len(stack) - k : d[n] = stack[n + k]
  BY <1>0, DropType
<1>3. Len(e) = Len(stack) - k /\ \A n \in 1 .. Len(stack) - k : e[n] = saved[n + k]
  BY <1>0, DropType
<1>4. stack' = d /\ saved' = e
  BY <1>1
<1> HIDE DEF d, e
<1>5. /\ Len(stack') = Len(stack) - k /\ k \in Nat /\ Len(stack) \in Nat
      /\ DOMAIN stack' = 1 .. Len(stack) - k /\ DOMAIN saved' = 1 .. Len(stack) - k
      /\ DOMAIN stack = 1 .. Len(stack) /\ DOMAIN saved = 1 .. Len(stack)
  BY <1>0, <1>2, <1>3, <1>4
<1>6. \A n \in 1 .. Len(stack) - k : stack'[n] = stack[n + k] /\ saved'[n] = saved[n + k]
  BY <1>2, <1>3, <1>4
<1>7. ASSUME NEW n \in DOMAIN stack' PROVE Apart(n)'
  <2>1. n + k \in DOMAIN stack /\ stack'[n] = stack[n + k] /\ saved'[n] = saved[n + k]
    BY <1>5, <1>6
  <2>2. TableAbove(n)' = TableAbove(n + k) /\ NextIdAbove(n)' = NextIdAbove(n + k)
    <3>1. CASE n = Len(stack')
      <4>1. n + k = Len(stack)
        BY <1>5, <3>1
      <4> QED
        BY <1>0, <3>1, <4>1 DEF TableAbove, NextIdAbove
    <3>2. CASE n # Len(stack')
      <4>1. n + k # Len(stack) /\ n + 1 \in 1 .. Len(stack) - k /\ (n + 1) + k = (n + k) + 1
        BY <1>5, <3>2
      <4>2. saved'[n + 1] = saved[(n + k) + 1]
        BY <1>6, <4>1
      <4> QED
        BY <3>2, <4>1, <4>2 DEF TableAbove, NextIdAbove
    <3> QED
      BY <3>1, <3>2
  <2>3. Apart(n + k)
    BY <2>1 DEF MentionInv
  <2> QED
    BY <2>1, <2>2, <2>3 DEF Apart
<1> QED
  BY <1>0, <1>7 DEF MentionInv

LEMMA MentionStep == MentionInv /\ [Next]_vars => MentionInv'
<1> SUFFICES ASSUME MentionInv, [Next]_vars PROVE MentionInv'
  OBVIOUS
<1>0. TypeInv'
  BY TypeStep DEF MentionInv
<1>1. CASE \/ \E v \in Value : Create(v)
           \/ \E i \in DOMAIN indices, v \in Value : Modify(i, v)
           \/ \E i \in DOMAIN indices, v \in Value : ModifyCollides(i, v)
           \/ \E i \in DOMAIN indices : RemoveObject(i)
  BY <1>0, <1>1, ObjectKeepsApart
<1>2. CASE StartUndoSession
  BY <1>0, <1>2, StartKeepsApart
<1>3. CASE Squash
  BY <1>0, <1>3, SquashKeepsApart
<1>4. ASSUME NEW r \in 0 .. MaxRevision, Commit(r) PROVE MentionInv'
  BY <1>0, <1>4, CommitKeepsApart
<1>5. CASE Undo
  BY <1>0, <1>5, UndoKeepsApart
<1>6. CASE \/ \E r \in 0 .. MaxRevision : SetRevision(r)
           \/ UndoThrows \/ UndoAll \/ UndoAllEnds \/ UNCHANGED vars
  <2>1. UNCHANGED <<indices, next_id, stack, saved>>
    BY <1>6 DEF SetRevision, UndoThrows, UndoAll, UndoAllEnds, vars
  <2> QED
    BY <1>0, <2>1 DEF MentionInv, Apart, TableAbove, NextIdAbove
<1> QED
  BY <1>1, <1>2, <1>3, <1>4, <1>5, <1>6 DEF Next, Call

LEMMA MentionImplies == MentionInv => SquashNeverNA
<1> SUFFICES ASSUME MentionInv, NEW n \in DOMAIN stack, n > 1
             PROVE  LET A == stack[n - 1]
                        B == stack[n]
                    IN /\ DOMAIN A.removed_values \cap (DOMAIN B.old_values \cup DOMAIN B.removed_values) = {}
                       /\ B.new_ids \cap (A.new_ids \cup DOMAIN A.old_values \cup DOMAIN A.removed_values) = {}
  BY DEF SquashNeverNA
<1> DEFINE A == stack[n - 1]
           B == stack[n]
           m == saved[n][1]
           mid == saved[n][2]
           b == saved[n - 1][1]
           bid == saved[n - 1][2]
<1>0. TypeInv /\ stack \in Seq(UndoState)
  BY DEF MentionInv, TypeInv, TypeOK
<1>1. n \in 1 .. Len(stack) /\ n - 1 \in 1 .. Len(stack) /\ n - 1 # Len(stack) /\ (n - 1) + 1 = n
  BY <1>0
<1>2. /\ A \in UndoState /\ B \in UndoState /\ m \in Table /\ mid \in Ids /\ b \in Table /\ bid \in Ids
      /\ n - 1 \in DOMAIN stack
  BY <1>0, <1>1, AboveType
<1>3. Mentions(B, TableAbove(n), NextIdAbove(n), m, mid)
  BY DEF MentionInv, Apart
<1>4. Mentions(A, m, mid, b, bid)
  <2>1. TableAbove(n - 1) = m /\ NextIdAbove(n - 1) = mid
    BY <1>1 DEF TableAbove, NextIdAbove
  <2>2. Apart(n - 1)
    BY <1>2 DEF MentionInv
  <2> QED
    BY <2>1, <2>2 DEF Apart
<1> HIDE DEF A, B, m, mid, b, bid
<1>5. DOMAIN A.removed_values \cap (DOMAIN B.old_values \cup DOMAIN B.removed_values) = {}
  BY <1>3, <1>4 DEF Mentions
<1>6. /\ \A i \in B.new_ids : mid <= i
      /\ \A i \in A.new_ids : i < mid
      /\ \A i \in DOMAIN b : i < bid
      /\ bid <= mid
      /\ DOMAIN A.old_values \cup DOMAIN A.removed_values \subseteq DOMAIN b
  BY <1>3, <1>4 DEF Mentions
<1>7. /\ B.new_ids \subseteq Int /\ A.new_ids \subseteq Int /\ DOMAIN b \subseteq Int
      /\ mid \in Int /\ bid \in Int
  BY <1>2, TableElim, IndexAssumption DEF UndoState, Ids
<1>8. B.new_ids \cap (A.new_ids \cup DOMAIN A.old_values \cup DOMAIN A.removed_values) = {}
  BY <1>6, <1>7
<1> QED
  BY <1>5, <1>8 DEF A, B

\* squash() never meets a case its comment calls N/A, also when users modify
\* unique keys and a colliding modify loses an object.
THEOREM NeverNA == Spec => []SquashNeverNA
<1>1. Init => MentionInv
  <2> SUFFICES ASSUME Init PROVE MentionInv
    OBVIOUS
  <2>1. DOMAIN indices = {} /\ stack = <<>>
    BY EmptyIsTable DEF Init
  <2> QED
    BY <2>1, TypeInit DEF MentionInv
<1> QED
  BY <1>1, MentionStep, MentionImplies, PTL DEF Spec
=============================================================================
