----------------------------- MODULE MCTransfer -----------------------------
(* Files of no, a short, a full, a full and a short and two full segments,   *)
(* and one that is larger than the client can count.                         *)
EXTENDS Transfer

MCSizes == {0, 1, 5, 7, 10, 14, 16}
=============================================================================
