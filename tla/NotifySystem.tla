---------------------------- MODULE NotifySystem ----------------------------
(***************************************************************************)
(* The protocol of notify.system between client.c (a device), notifier.c   *)
(* and the server, over UDP that loses, doubles and reorders datagrams.    *)
(*                                                                         *)
(* A device and a notifier tell the server where they are (send_msg_track, *)
(* port 7771) and ask it for the AES key (cmd_2_srv, port 7770) until they *)
(* have it; then the notifier sends notifications, which the server hands  *)
(* to the device, and the device's confirmations go back the same way.     *)
(*                                                                         *)
(* The server is the one of module NotifyServer seen from outside: what it *)
(* has queued is a set, it sends queued items in any order, and one item   *)
(* that has no registered destination can take others with it (Forwarder). *)
(* A datagram is its receiver, what it is, and what it is encrypted with:  *)
(* the key of a public-key pair, the AES key, or the zeroed buffer of a    *)
(* program that has none.  The AES key is a constant of the server, so     *)
(* what was encrypted with it before a restart is good after it.           *)
(***************************************************************************)
EXTENDS Naturals, FiniteSets

CONSTANTS
  Dev,          \* the device's id
  Ntf,          \* the notifier's id
  Scenes,       \* what may be given: ids of the programs that run, in the server's table
  Keyed,        \* ids whose public key is, sooner or later, where the server reads it
  MaxCount,     \* notifier: count > MaxCount ends it (30 in the code)
  MaxRestarts,  \* bound: restarts of the server
  MaxNet        \* bound: no timer runs out while more datagrams are on their way

Ids == {Dev, Ntf}

ASSUME SystemAssumption ==
  /\ Dev # Ntf
  /\ {"srv", "track"} \cap Ids = {}
  /\ Scenes \subseteq [started: SUBSET Ids, registered: SUBSET Ids] /\ Keyed \subseteq Ids
  /\ MaxCount \in Nat /\ MaxRestarts \in Nat /\ MaxNet \in Nat

VARIABLES
  scene,      \* the programs that run and the server's table
  net,        \* datagrams on their way
  cgot,       \* client: got_aes
  ngot,       \* notifier: got_aes
  running,    \* notifier: still in its loop
  count,      \* notifier: count, up to MaxCount + 1
  queue,      \* server: the items of imd_fwd_lt
  tracked,    \* server: the ids with an address in list_reg_dev
  keys,       \* the ids whose public key file exists
  restarts,   \* bound counter
  seen,       \* ghost: the client decrypted a notification
  confirmed   \* ghost: the notifier received a confirmation

cvars == <<cgot, seen>>
nvars == <<ngot, running, count, confirmed>>
svars == <<scene, queue, tracked, restarts, keys>>
vars == <<net, cvars, nvars, svars>>

Started    == scene.started
Registered == scene.registered

Packet(to, what, enc, id) == [to |-> to, what |-> what, enc |-> enc, id |-> id]

Kinds == {"MSG_TRA", "MSG_GET_AES", "MSG_NTF", "confirmation", "MSG_REG", "key", "zeros"}
Packets == [to: Ids \cup {"srv", "track"}, what: Kinds, enc: {"rsa", "aes", "zero"}, id: Ids]

\* What the server keeps of a request: whom it is for and what to send.
Items == [to: Ids, what: {"key", "MSG_NTF", "confirmation"}]

Init ==
  /\ scene \in Scenes
  /\ net = {}
  /\ cgot = FALSE /\ seen = FALSE
  /\ ngot = FALSE /\ running = (Ntf \in Started) /\ count = 0 /\ confirmed = FALSE
  /\ queue = {} /\ tracked = {} /\ restarts = 0
  /\ keys \in SUBSET Keyed

-----------------------------------------------------------------------------
(* The network.                                                            *)

\* A program receives m; the network may deliver it again.  ms is what the
\* program sends.
Receive(m, ms) == m \in net /\ (net' = net \cup ms \/ net' = (net \ {m}) \cup ms)

Lose(m) ==
  /\ m \in net
  /\ net' = net \ {m}
  /\ UNCHANGED <<cvars, nvars, svars>>

\* The port of the other socket.
Mutant_send_msg_track(id, got) == Packet("srv", "MSG_TRA", IF got THEN "aes" ELSE "rsa", id)

\* send_msg_track and cmd_2_srv of program id.
send_msg_track(id, got) == Packet("track", "MSG_TRA", IF got THEN "aes" ELSE "rsa", id)
cmd_2_srv(id) == Packet("srv", "MSG_GET_AES", "rsa", id)

-----------------------------------------------------------------------------
(* client.c                                                                *)

\* Tracking only while there is no key.
Mutant_CTick ==
  /\ Dev \in Started /\ Cardinality(net) <= MaxNet
  /\ net' = net \cup (IF cgot THEN {} ELSE {send_msg_track(Dev, cgot), cmd_2_srv(Dev)})
  /\ UNCHANGED <<cvars, nvars, svars>>

\* The interval is over (also the start): track, and ask for the key again.
CTick ==
  /\ Dev \in Started /\ Cardinality(net) <= MaxNet
  /\ net' = net \cup {send_msg_track(Dev, cgot)} \cup (IF cgot THEN {} ELSE {cmd_2_srv(Dev)})
  /\ UNCHANGED <<cvars, nvars, svars>>

\* send_msg_fb: the header of what was received, its type unchanged, encrypted
\* with whatever is in aes256_key.
send_msg_fb(m) ==
  Packet("srv", IF m.what = "MSG_NTF" THEN "confirmation" ELSE "MSG_REG",
         IF cgot THEN "aes" ELSE "zero", Dev)

\* The client's recvfrom and what follows.  Zeroes are an unencrypted header of
\* type MSG_REG and route G_NTF_CLI, and so answered like a notification.
CRecv(m) ==
  /\ m.to = Dev
  /\ \/ /\ m.what = "key"
        /\ cgot' = TRUE
        /\ Receive(m, {})
        /\ UNCHANGED seen
     \/ /\ m.what = "MSG_NTF" /\ cgot
        /\ seen' = TRUE
        /\ Receive(m, {send_msg_fb(m)})
        /\ UNCHANGED cgot
     \/ /\ m.what = "zeros"
        /\ Receive(m, {send_msg_fb(m)})
        /\ UNCHANGED cvars
     \/ /\ m.what = "MSG_NTF" /\ ~cgot
        /\ Receive(m, {})
        /\ UNCHANGED cvars
  /\ UNCHANGED <<nvars, svars>>

-----------------------------------------------------------------------------
(* notifier.c                                                              *)

notifier == Packet("srv", "MSG_NTF", "aes", Ntf)

\* The round in which it gives up, instead of any from then on.
Mutant_gives_up == count = MaxCount /\ ngot

\* Every 3 seconds: give up after MaxCount rounds, but not before the key came.
gives_up == count > MaxCount /\ ngot

NTick ==
  /\ running /\ Cardinality(net) <= MaxNet
  /\ IF gives_up
       THEN running' = FALSE /\ UNCHANGED <<net, count>>
       ELSE /\ net' = net \cup {send_msg_track(Ntf, ngot),
                                IF ngot THEN notifier ELSE cmd_2_srv(Ntf)}
            /\ count' = IF count > MaxCount THEN count ELSE count + 1
            /\ UNCHANGED running
  /\ UNCHANGED <<ngot, confirmed, cvars, svars>>

NRecv(m) ==
  /\ running
  /\ m.to = Ntf
  /\ \/ /\ m.what = "key"
        /\ ngot' = TRUE
        /\ Receive(m, {notifier})
        /\ UNCHANGED confirmed
     \/ /\ m.what = "confirmation"
        /\ confirmed' = (confirmed \/ ngot)
        /\ Receive(m, {})
        /\ UNCHANGED ngot
     \/ /\ m.what = "zeros"
        /\ Receive(m, {})
        /\ UNCHANGED <<ngot, confirmed>>
  /\ UNCHANGED <<running, count, cvars, svars>>

-----------------------------------------------------------------------------
(* server.c                                                                *)

\* Without the test of the type.
Mutant_Queued(m) ==
  CASE m.what = "MSG_GET_AES" -> {[to |-> m.id, what |-> "key"]}
    [] m.what = "MSG_NTF" /\ m.enc = "aes" -> {[to |-> Dev, what |-> "MSG_NTF"]}
    [] m.what \in {"confirmation", "MSG_REG"} /\ m.enc = "aes" ->
         {[to |-> Ntf, what |-> "confirmation"]}
    [] OTHER -> {}

\* The receiving thread: what it queues for a datagram.  A datagram encrypted
\* with another key than the server's fails its tag, and a confirmation needs
\* the type MSG_NTF.  The server adds the key to a message of any type on this
\* route and encrypts none but MSG_GET_AES; the two programs send no other.
Queued(m) ==
  CASE m.what = "MSG_GET_AES" -> {[to |-> m.id, what |-> "key"]}
    [] m.what = "MSG_NTF" /\ m.enc = "aes" -> {[to |-> Dev, what |-> "MSG_NTF"]}
    [] m.what = "confirmation" /\ m.enc = "aes" -> {[to |-> Ntf, what |-> "confirmation"]}
    [] OTHER -> {}

S1Recv(m) ==
  /\ m.to = "srv"
  /\ Receive(m, {})
  /\ queue' = queue \cup Queued(m)
  /\ UNCHANGED <<scene, tracked, restarts, keys, cvars, nvars>>

\* The sending thread takes a tracking message.
S2Recv(m) ==
  /\ m.to = "track"
  /\ Receive(m, {})
  /\ tracked' = tracked \cup ({m.id} \cap Registered)
  /\ UNCHANGED <<scene, queue, restarts, keys, cvars, nvars>>

\* The item as it is when there is no public key.
Mutant_Body(it) ==
  {Packet(it.to, it.what, IF it.what # "key" THEN "aes" ELSE IF it.to \in keys THEN "rsa" ELSE "zero", it.to)}

\* What send_to_dst sends: a key only under the receiver's public key, else the
\* zeroed buffer, with the length of the item before or of 0.
Body(it) ==
  IF it.what # "key" THEN {Packet(it.to, it.what, "aes", it.to)}
  ELSE IF it.to \in keys THEN {Packet(it.to, "key", "rsa", it.to)}
  ELSE {Packet(it.to, "zeros", "zero", it.to)}

\* sendto with the address that was tracked; without one it goes nowhere, and an
\* empty datagram is as good as none.
S2Send(it) ==
  /\ it.to \in Registered
  /\ \/ it.to \in tracked /\ net' = net \cup Body(it)
     \/ /\ it.to \notin tracked \/ (it.what = "key" /\ it.to \notin keys)
        /\ net' = net
  /\ queue' = queue \ {it}
  /\ UNCHANGED <<scene, tracked, restarts, keys, cvars, nvars>>

\* An item without a registered destination ends the batch: what is behind it,
\* any of the other items, goes with it.
S2Break(it) ==
  /\ it.to \notin Registered
  /\ \E others \in SUBSET (queue \ {it}) : queue' = (queue \ {it}) \ others
  /\ UNCHANGED <<scene, net, tracked, restarts, keys, cvars, nvars>>

Restart ==
  /\ restarts < MaxRestarts
  /\ restarts' = restarts + 1
  /\ queue' = {} /\ tracked' = {}
  /\ UNCHANGED <<scene, net, keys, cvars, nvars>>

\* A device's public key file is put where get_cli_pub looks for it.
Install(id) ==
  /\ id \in Keyed \ keys
  /\ keys' = keys \cup {id}
  /\ UNCHANGED <<scene, net, queue, tracked, restarts, cvars, nvars>>

S2 == \E it \in queue : S2Send(it) \/ S2Break(it)

-----------------------------------------------------------------------------

Recv(m) == CRecv(m) \/ NRecv(m) \/ S1Recv(m) \/ S2Recv(m)

Next ==
  \/ CTick \/ NTick
  \/ \E m \in net : Recv(m) \/ Lose(m)
  \/ S2
  \/ Restart
  \/ \E id \in Ids : Install(id)

Spec == Init /\ [][Next]_vars

Delivery(id, what) == \E m \in net : m.id = id /\ m.what = what /\ Recv(m)

\* Timers run out again and again, key files get installed, the server works off
\* what it has queued, and of datagrams that are sent again and again some arrive.
Fairness ==
  /\ WF_vars(CTick) /\ WF_vars(NTick)
  /\ \A id \in Ids :
       /\ WF_vars(Install(id))
       /\ WF_vars(\E it \in queue : it.to = id /\ it.what = "key" /\ (S2Send(it) \/ S2Break(it)))
       /\ \A what \in {"MSG_TRA", "MSG_GET_AES", "key"} : SF_vars(Delivery(id, what))

FairSpec == Spec /\ Fairness

-----------------------------------------------------------------------------
(* Properties.                                                             *)

Confirms(x) == x.what = "confirmation"

\* A confirmation exists, anywhere between device, server and notifier, only
\* when the device has decrypted a notification: the answer to the zeroes of a
\* failed encryption never becomes one.
NoFalseConfirm ==
  confirmed \/ (\E m \in net : Confirms(m)) \/ (\E it \in queue : Confirms(it)) => seen

\* A program has the key only if the server could encrypt it for that program,
\* and a notification exists only once the notifier has it.
KeyPath ==
  /\ cgot => Dev \in keys \cap Registered
  /\ ngot => Ntf \in keys \cap Registered
  /\ \A m \in net : m.what = "key" => m.enc = "rsa" /\ m.to \in keys \cap Registered
  /\ (\E x \in net \cup queue : x.what = "MSG_NTF") \/ seen => ngot

\* Whatever is lost or doubled and however often the server restarts, a device
\* with a usable key pair gets the AES key.
GetsKey == Dev \in Started \cap Keyed \cap Registered => <>cgot

\* The notifier comes to its end.
NotifierEnds == Ntf \in Keyed \cap Registered => <>~running

\* A restarted server learns a registered device's address again.
Retracked == Dev \in Started \cap Registered => []<>(Dev \in tracked)
=============================================================================
