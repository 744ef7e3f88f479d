---------------------------- MODULE MCFiskClient ----------------------------
(* Compiles with no output, with empty files first and last, with two.     *)
EXTENDS FiskClient

MCIndexes == {<<>>, <<1>>, <<0, 2>>, <<2, 0>>, <<1, 2>>}
=============================================================================
