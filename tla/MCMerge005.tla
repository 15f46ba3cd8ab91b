----------------------------- MODULE MCMerge005 -----------------------------
(***************************************************************************)
(* All drivers on arrays of rows of three hours with one or two calls      *)
(* each, equal ones among them.                                            *)
(***************************************************************************)
EXTENDS Merge005

Rows == (1 .. 3) \X (1 .. 2)
HourOf == [r \in Rows |-> r[1]]
CallsOf == [r \in Rows |-> r[2]]
=============================================================================
