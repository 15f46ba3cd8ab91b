---------------------------- MODULE MCSharedData ----------------------------
(* A region of three items, one reader and two writers of two items a batch. *)
EXTENDS SharedData
=============================================================================
