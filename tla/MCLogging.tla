----------------------------- MODULE MCLogging -----------------------------
(* Behind the prefix of a DEBUG line the text leaves exactly the room that   *)
(* a number needs, behind that of a line with an error number less; the int *)
(* is the smallest there is.                                                *)
EXTENDS Logging, TLC

Symmetric == Permutations(Threads)
MCInts == {(-2147483647) - 1}
=============================================================================
