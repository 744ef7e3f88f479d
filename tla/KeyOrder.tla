------------------------------ MODULE KeyOrder ------------------------------
(***************************************************************************)
(* The order of the files of a directory or of the keys of a JavaScript    *)
(* object, as a sequence: what is deleted leaves the order of the others   *)
(* as it was.                                                              *)
(***************************************************************************)
EXTENDS Sequences, SequencesExt

Without(s, S) ==
  FoldLeft(LAMBDA t, e : IF e \in S THEN t ELSE Append(t, e), <<>>, s)
=============================================================================
