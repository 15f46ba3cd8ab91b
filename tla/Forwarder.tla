------------------------------ MODULE Forwarder ------------------------------
(***************************************************************************)
(* What the notification server promises about the messages it accepts:    *)
(* each one waits until it is either handed over once, to the destination  *)
(* it names, or dropped.  How it waits, which thread handles it, in which  *)
(* order, and how the threads find out about it is left to NotifyServer.   *)
(***************************************************************************)
EXTENDS Naturals

CONSTANTS
  Items,       \* what can be accepted
  UidOf(_),    \* the number of an item, in the order of acceptance
  DestOf(_)    \* the destination an item names

VARIABLES
  accepted,    \* how many items were accepted
  waiting,     \* items accepted and not settled yet
  delivered,   \* pairs of an item and the destination it was handed to
  dropped      \* items given up

fvars == <<accepted, waiting, delivered, dropped>>

Init ==
  /\ accepted = 0
  /\ waiting = {}
  /\ delivered = {}
  /\ dropped = {}

Accept ==
  /\ accepted' = accepted + 1
  /\ \E it \in waiting' :
       it \in Items /\ UidOf(it) = accepted + 1 /\ waiting' = waiting \cup {it}
  /\ UNCHANGED <<delivered, dropped>>

Deliver ==
  \E it \in waiting :
    /\ waiting' = waiting \ {it}
    /\ delivered' = delivered \cup {<<it, DestOf(it)>>}
    /\ UNCHANGED <<accepted, dropped>>

Drop ==
  \E S \in SUBSET waiting :
    /\ waiting' = waiting \ S
    /\ dropped' = dropped \cup S
    /\ UNCHANGED <<accepted, delivered>>

Next == Accept \/ Deliver \/ Drop

Spec == Init /\ [][Next]_fvars

=============================================================================
