----------------------------- MODULE UndoStack -----------------------------
(***************************************************************************)
(* What chainbase promises its users: a state with a stack of saved copies *)
(* of it.  Opening an undo session saves a copy, undo() restores the last  *)
(* copy, squash() and commit() forget copies, and nothing else touches     *)
(* them.  GenericIndex.tla, which only keeps differences, implements this  *)
(* module; ChainDatabase.tla uses it as the database under the chain.      *)
(***************************************************************************)
EXTENDS Naturals, Sequences

CONSTANT State          \* the contents of a database

VARIABLES state,        \* the contents now
          saved         \* the contents when each open undo session began

uvars == <<state, saved>>

UndoInit == state \in State /\ saved = <<>>

\* create, modify and remove: any change of the contents.
Change == state' \in State /\ UNCHANGED saved

\* start_undo_session
Start == saved' = Append(saved, state) /\ UNCHANGED state

\* undo: "Restores the state to how it was prior to the current session".
Undo ==
  /\ saved # <<>>
  /\ state' = saved[Len(saved)]
  /\ saved' = SubSeq(saved, 1, Len(saved) - 1)

\* squash: the last session becomes a part of the one before it.
Squash ==
  /\ saved # <<>>
  /\ saved' = SubSeq(saved, 1, Len(saved) - 1)
  /\ UNCHANGED state

\* commit: the k oldest copies are forgotten.
Commit ==
  /\ \E k \in 0 .. Len(saved) : saved' = SubSeq(saved, k + 1, Len(saved))
  /\ UNCHANGED state

UndoNext == Change \/ Start \/ Undo \/ Squash \/ Commit

UndoSpec == UndoInit /\ [][UndoNext]_uvars
=============================================================================
