--------------------------- MODULE MCGenericIndex ---------------------------
(* GenericIndex on a small instance. *)
EXTENDS GenericIndex, TLC

\* Keys and data are only compared, so their values are interchangeable.
Symmetry == Permutations(Key) \cup Permutations(Data)
=============================================================================
