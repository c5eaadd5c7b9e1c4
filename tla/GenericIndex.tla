---------------------------- MODULE GenericIndex ----------------------------
(***************************************************************************)
(* chainbase::generic_index: a table of objects numbered by id, with a     *)
(* unique secondary key, and the stack of undo states that lets the chain  *)
(* take back a block or a transaction.  An undo state holds differences    *)
(* only: the old values of the objects the session modified, the objects   *)
(* it removed, and the ids it created.                                     *)
(*                                                                         *)
(* saved is a history variable: what the table and _next_id were when each *)
(* undo state was opened.  No action reads it; it is the refinement        *)
(* mapping to UndoStack.                                                   *)
(***************************************************************************)
EXTENDS Integers, Sequences

CONSTANTS Key,          \* values of the unique secondary key of an object
          Data,         \* values of the rest of an object
          MutableKey,   \* whether the users of this index modify the key
          MaxId,        \* bound: ids handed out
          MaxDepth,     \* bound: undo states open at once
          MaxRevision   \* bound: revision numbers

ASSUME IndexAssumption ==
  /\ MutableKey \in BOOLEAN
  /\ MaxId \in Nat /\ MaxDepth \in Nat /\ MaxRevision \in Nat

VARIABLES indices,      \* _indices: id -> object, for the objects present
          next_id,      \* _next_id
          stack,        \* _stack
          revision,     \* _revision
          unwinding,    \* undo_all() is running
          thrown,       \* an undo() was left by an exception half way
          saved         \* history: <<indices, next_id>> at each session start

vars == <<indices, next_id, stack, revision, unwinding, thrown, saved>>

Value == [key : Key, data : Data]

Ids == 0 .. MaxId

\* The tables: partial functions from ids to values.
Table == UNION {[S -> Value] : S \in SUBSET Ids}

UndoState == [old_values : Table, removed_values : Table,
              new_ids : SUBSET Ids, old_next_id : Ids, revision : Int]

----------------------------------------------------------------------------
(* Partial functions. *)

Put(t, i, v) == [j \in DOMAIN t \cup {i} |-> IF j = i THEN v ELSE t[j]]

Without(t, S) == [j \in DOMAIN t \ S |-> t[j]]

\* t with everything u defines taken from u.
Override(t, u) ==
  [j \in DOMAIN t \cup DOMAIN u |-> IF j \in DOMAIN u THEN u[j] ELSE t[j]]

\* Everything t defines, and what only u defines.
Underride(t, u) == Override(u, t)

EmptyTable == [i \in {} |-> 0]

Enabled == stack # <<>>

Top == stack[Len(stack)]

ReplaceTop(u) == [stack EXCEPT ![Len(stack)] = u]

\* Would an object with value v collide with one of t other than number i?
Collides(t, i, v) == \E j \in DOMAIN t \ {i} : t[j].key = v.key

----------------------------------------------------------------------------
(* What an undo state records of one change. *)

OnCreate(u, i) == [u EXCEPT !.new_ids = @ \cup {i}]

OnModify(u, i, v) ==
  IF i \in u.new_ids \/ i \in DOMAIN u.old_values
  THEN u
  ELSE [u EXCEPT !.old_values = Put(@, i, v)]

\* Mutant: the value removed last is kept, not the one the session found.
OnRemoveKeepsLast(u, i, v) ==
  IF i \in u.new_ids
  THEN [u EXCEPT !.new_ids = @ \ {i}]
  ELSE [u EXCEPT !.removed_values = Put(@, i, v), !.old_values = Without(@, {i})]

OnRemove(u, i, v) ==
  IF i \in u.new_ids
  THEN [u EXCEPT !.new_ids = @ \ {i}]
  ELSE IF i \in DOMAIN u.old_values
       THEN [u EXCEPT !.removed_values = Put(@, i, u.old_values[i]),
                      !.old_values = Without(@, {i})]
       ELSE IF i \in DOMAIN u.removed_values
            THEN u
            ELSE [u EXCEPT !.removed_values = Put(@, i, v)]

----------------------------------------------------------------------------
(* Operations on objects. *)

Create(v) ==
  /\ next_id < MaxId
  /\ ~Collides(indices, next_id, v)
  /\ indices' = Put(indices, next_id, v)
  /\ next_id' = next_id + 1
  /\ stack' = IF Enabled THEN ReplaceTop(OnCreate(Top, next_id)) ELSE stack
  /\ UNCHANGED <<revision, saved>>

Modify(i, v) ==
  /\ MutableKey \/ v.key = indices[i].key
  /\ ~Collides(indices, i, v)
  /\ indices' = [indices EXCEPT ![i] = v]
  /\ stack' = IF Enabled THEN ReplaceTop(OnModify(Top, i, indices[i])) ELSE stack
  /\ UNCHANGED <<next_id, revision, saved>>

\* boost::multi_index::modify drops an element whose new value collides;
\* base_index::modify then throws and on_modify is never reached.  A modifier that
\* throws itself loses the element in the same way and is not modelled apart.
ModifyCollides(i, v) ==
  /\ MutableKey
  /\ Collides(indices, i, v)
  /\ indices' = Without(indices, {i})
  /\ UNCHANGED <<next_id, stack, revision, saved>>

RemoveObject(i) ==
  /\ indices' = Without(indices, {i})
  /\ stack' = IF Enabled THEN ReplaceTop(OnRemove(Top, i, indices[i])) ELSE stack
  /\ UNCHANGED <<next_id, revision, saved>>

----------------------------------------------------------------------------
(* Operations on the undo stack. *)

StartUndoSession ==
  /\ Len(stack) < MaxDepth
  /\ revision < MaxRevision
  /\ stack' = Append(stack, [old_values |-> EmptyTable, removed_values |-> EmptyTable,
                             new_ids |-> {}, old_next_id |-> next_id,
                             revision |-> revision + 1])
  /\ revision' = revision + 1
  /\ saved' = Append(saved, <<indices, next_id>>)
  /\ UNCHANGED <<indices, next_id>>

\* The table while undo() restores the old values in id order, before id i.
RestoredBefore(t, u, i) ==
  [j \in DOMAIN t |-> IF j \in DOMAIN u.old_values /\ j < i THEN u.old_values[j] ELSE t[j]]

\* What undo() leaves of a table t.
Rollback(t, u) ==
  Override(Without(Override(t, u.old_values), u.new_ids), u.removed_values)

\* No restored object is missing or collides on the way.
Restorable(t, u) ==
  /\ DOMAIN u.old_values \subseteq DOMAIN t
  /\ u.new_ids \subseteq DOMAIN t
  /\ \A i \in DOMAIN u.old_values :
        ~Collides(RestoredBefore(t, u, i), i, u.old_values[i])
  /\ \A i \in DOMAIN u.removed_values :
        /\ i \notin DOMAIN Without(t, u.new_ids)
        /\ ~Collides(Rollback(t, u), i, u.removed_values[i])

Pop(s) == SubSeq(s, 1, Len(s) - 1)

\* Mutant: the next id is taken from the oldest undo state.
UndoFront ==
  /\ Enabled
  /\ Restorable(indices, Top)
  /\ indices' = Rollback(indices, Top)
  /\ next_id' = stack[1].old_next_id
  /\ stack' = Pop(stack)
  /\ revision' = revision - 1
  /\ saved' = Pop(saved)

Undo ==
  /\ Enabled
  /\ Restorable(indices, Top)
  /\ indices' = Rollback(indices, Top)
  /\ next_id' = Top.old_next_id
  /\ stack' = Pop(stack)
  /\ revision' = revision - 1
  /\ saved' = Pop(saved)

\* undo() left by an exception: from the destructor of a session that is
\* the end of the process, so nothing follows.
UndoThrows ==
  /\ Enabled
  /\ ~Restorable(indices, Top)
  /\ thrown' = TRUE
  /\ UNCHANGED <<indices, next_id, stack, revision, unwinding, saved>>

\* undo_all(): undo() while there is an undo state, and no other call
\* meanwhile.
UndoAll ==
  /\ ~unwinding
  /\ unwinding' = TRUE
  /\ UNCHANGED <<indices, next_id, stack, revision, thrown, saved>>

UndoAllEnds ==
  /\ unwinding /\ ~Enabled
  /\ unwinding' = FALSE
  /\ UNCHANGED <<indices, next_id, stack, revision, thrown, saved>>

\* Mutant: the newer old value wins.
MergeNewer(A, B) ==
  LET gone == DOMAIN B.removed_values
      upd == Override(A.old_values, Without(B.old_values, A.new_ids))
  IN [A EXCEPT !.new_ids = (@ \cup B.new_ids) \ gone,
               !.old_values = Without(upd, gone),
               !.removed_values = Underride(@, Without(B.removed_values, A.new_ids))]

\* squash: the changes of B, the last undo state, merged into A, the one
\* before it.
Merge(A, B) ==
  LET known == A.new_ids \cup DOMAIN A.old_values
      newIds == A.new_ids \cup B.new_ids
      upd == Underride(A.old_values, Without(B.old_values, known))
      gone == DOMAIN B.removed_values
      fromOld == [i \in gone \cap (DOMAIN upd \ newIds) |-> upd[i]]
      fromB == Without(B.removed_values, newIds \cup DOMAIN upd)
  IN [A EXCEPT !.new_ids = newIds \ gone,
               !.old_values = Without(upd, gone \ newIds),
               !.removed_values = Underride(@, Override(fromB, fromOld))]

\* Mutant: the revision is not counted down.
SquashKeepsRevision ==
  /\ Enabled
  /\ stack' = IF Len(stack) = 1 THEN <<>>
              ELSE [Pop(stack) EXCEPT ![Len(stack) - 1] = Merge(@, Top)]
  /\ saved' = Pop(saved)
  /\ UNCHANGED <<indices, next_id, revision>>

Squash ==
  /\ Enabled
  /\ IF Len(stack) = 1
     THEN stack' = <<>> /\ UNCHANGED revision
     ELSE /\ stack' = [Pop(stack) EXCEPT ![Len(stack) - 1] = Merge(@, Top)]
          /\ revision' = revision - 1
  /\ saved' = Pop(saved)
  /\ UNCHANGED <<indices, next_id>>

\* The undo states that commit(r) drops from the front: it stops at the
\* first one that is newer than r.
Committed(r) ==
  {i \in 1 .. Len(stack) : \A j \in 1 .. i : stack[j].revision <= r}

Commit(r) ==
  \E k \in 0 .. Len(stack) :
    /\ 1 .. k = Committed(r)
    /\ stack' = SubSeq(stack, k + 1, Len(stack))
    /\ saved' = SubSeq(saved, k + 1, Len(saved))
    /\ UNCHANGED <<indices, next_id, revision>>

SetRevision(r) ==
  /\ ~Enabled
  /\ revision' = r
  /\ UNCHANGED <<indices, next_id, stack, saved>>

----------------------------------------------------------------------------
Init ==
  /\ indices = EmptyTable /\ next_id = 0
  /\ stack = <<>> /\ revision = 0
  /\ unwinding = FALSE /\ thrown = FALSE /\ saved = <<>>

\* One call of the index, outside undo_all().
Call ==
  \/ \E v \in Value : Create(v)
  \/ \E i \in DOMAIN indices, v \in Value : Modify(i, v)
  \/ \E i \in DOMAIN indices, v \in Value : ModifyCollides(i, v)
  \/ \E i \in DOMAIN indices : RemoveObject(i)
  \/ StartUndoSession
  \/ Squash
  \/ \E r \in 0 .. MaxRevision : Commit(r)
  \/ \E r \in 0 .. MaxRevision : SetRevision(r)

Next ==
  /\ ~thrown
  /\ \/ ~unwinding /\ Call /\ UNCHANGED <<unwinding, thrown>>
     \/ Undo /\ UNCHANGED <<unwinding, thrown>>
     \/ UndoThrows
     \/ UndoAll
     \/ UndoAllEnds

Spec == Init /\ [][Next]_vars

----------------------------------------------------------------------------
(* Correctness. *)

\* The ids, values and revisions the index and its undo states hold are of
\* their types; ids are never negative.
TypeOK ==
  /\ indices \in Table /\ next_id \in Ids
  /\ stack \in Seq(UndoState) /\ revision \in Int
  /\ unwinding \in BOOLEAN /\ thrown \in BOOLEAN
  /\ saved \in Seq(Table \X Ids)

\* The table and the next id above undo state n: what the next session found,
\* or what the index holds now.
TableAbove(n) == IF n = Len(stack) THEN indices ELSE saved[n + 1][1]

NextIdAbove(n) == IF n = Len(stack) THEN next_id ELSE saved[n + 1][2]

\* Every undo state can give back exactly what its session found, the next id
\* included (undo: "Restores the state to how it was prior to the current
\* session").
UndoRestores ==
  \A n \in DOMAIN stack :
    /\ Rollback(TableAbove(n), stack[n]) = saved[n][1]
    /\ stack[n].old_next_id = saved[n][2]

\* undo() always runs to its end: no object it wants is missing and no value
\* it puts back collides.
UndoNeverThrows == ~thrown

\* The entries marked N/A in the table of squash(), and its two asserts: what
\* a session touches is neither gone nor about to be created again below it.
SquashNeverNA ==
  \A n \in DOMAIN stack : n > 1 =>
    LET A == stack[n - 1]
        B == stack[n]
    IN /\ DOMAIN A.removed_values \cap (DOMAIN B.old_values \cup DOMAIN B.removed_values) = {}
       /\ B.new_ids \cap (A.new_ids \cup DOMAIN A.old_values \cup DOMAIN A.removed_values) = {}

\* The undo states carry consecutive revisions that end at _revision, so a
\* commit(r) keeps exactly the sessions newer than r.
RevisionsConsecutive ==
  \A n \in DOMAIN stack : stack[n].revision + (Len(stack) - n) = revision

\* The index keeps what chainbase promises: it implements the stack of saved
\* states.
Promise == INSTANCE UndoStack
             WITH State <- Table \X Ids, state <- <<indices, next_id>>
KeepsPromise == Promise!UndoSpec

\* What a caller of undo() and squash() counts on: every session that is open can
\* be taken back exactly, by calls that neither throw nor meet a case that
\* squash() does not expect.
UndoSound == UndoRestores /\ UndoNeverThrows /\ SquashNeverNA
=============================================================================
