----------------------------- MODULE MCManager -----------------------------
(* Three servers with overlapping ranges of days, one with an empty cdr table  *)
(* and one that could not be asked.                                          *)
EXTENDS Manager, TLC

MCStart == 1 :> 2 @@ 2 :> 0 @@ 3 :> -1 @@ 4 :> 1 @@ 5 :> 1
MCLast  == 1 :> 3 @@ 2 :> 0 @@ 3 :> -1 @@ 4 :> 2 @@ 5 :> 3
=============================================================================
