---------------------------- MODULE MCAviSession ----------------------------
(***************************************************************************)
(* Instances of AviSession: callers and sessions are interchangeable       *)
(* model values.                                                           *)
(***************************************************************************)
EXTENDS AviSession, TLC

Symmetry == Permutations(Callers) \union Permutations(Sessions)
=============================================================================
