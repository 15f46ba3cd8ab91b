----------------------------- MODULE MCGenList -----------------------------
(* Blocks of four units with a header of one; items that are refused, that   *)
(* fill a block and that need two more at once.  An int counts to 7 here, so *)
(* that four items reach a list of 16 units and more.                        *)
EXTENDS GenList

MCSizes == {-1, 0, 1, 3, 7}
=============================================================================
