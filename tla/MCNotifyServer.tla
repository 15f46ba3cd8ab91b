--------------------------- MODULE MCNotifyServer ---------------------------
(* A small server: two registered devices in the same bucket, an identifier *)
(* of that bucket that is not registered, and one in an empty bucket.       *)
EXTENDS NotifyServer

MCIds        == {"dev", "ntf", "ghost", "nobody"}
MCRegistered == {"dev", "ntf"}
MCHasPub     == {"ntf", "ghost"}
MCBucket     == [id \in MCIds |-> IF id = "nobody" THEN 2 ELSE 1]

Msg(enc, type, route, dev, n) ==
  [enc |-> enc, ok |-> TRUE, type |-> type, route |-> route, dev |-> dev,
   ntf |-> "ntf", n |-> n]

\* What the repository's client, notifier and test programs send to port 7770,
\* and a request for the key that leaves no room for it in the buffer.
Notification == Msg("AES", "MSG_NTF", "G_NTF_CLI", "dev", 1184)
PlainFull    == Msg("NON", "MSG_NTF", "G_NTF_CLI", "dev", 1201)
Confirmation == Msg("AES", "MSG_NTF", "G_CLI_NTF", "dev", 100)
LongForKey   == Msg("NON", "MSG_GET_AES", "G_CLI_SRV", "ghost", 1201)

MCRequests == {Notification, Confirmation, LongForKey, PlainFull}
=============================================================================
