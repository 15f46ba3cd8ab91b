---------------------------- MODULE MCAgentTable ----------------------------
(* Six agents: 1 and 3 share a bucket of two, 0 and 3 one of three; one      *)
(* number is too large for an int, one is negative and one text is not a     *)
(* number.  With one file of another server the two regions and the pointer  *)
(* that ends the list have no room.                                          *)
EXTENDS AgentTable

MCNumbers == {"0", "1", "3", "9", "-2"}
MCKeys == MCNumbers \cup {"x"}
MCNum == [k \in MCNumbers |-> CASE k = "0" -> 0 [] k = "1" -> 1 [] k = "3" -> 3
                                 [] k = "9" -> 9 [] k = "-2" -> -2]
=============================================================================
