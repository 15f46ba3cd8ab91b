---------------------------- MODULE NotifyServer ----------------------------
(***************************************************************************)
(* The notification server of notify.system: server.c and the forwarding   *)
(* half of msg_notify.c.                                                   *)
(*                                                                         *)
(* Two threads share the list imd_fwd_lt.  The receiving thread S1 (main)  *)
(* turns datagrams of port 7770 into items at the head of the list and     *)
(* signals S2.  The sending thread S2 (sending_routine_thread) polls port  *)
(* 7771 for tracking messages, sleeps when there is nothing to do, and in  *)
(* every round takes the whole list and sends its items one by one to the  *)
(* address their destination was last tracked at.                          *)
(*                                                                         *)
(* A datagram is the header the server reads out of it: the fields of      *)
(* MSG_COMMON that the server looks at, the kind of encryption (its last   *)
(* byte), whether the AES tag verifies (ok), and its length once decoded.  *)
(* A datagram whose RSA decryption fails is handled as the bytes it has,   *)
(* so its header is whatever those bytes say.                              *)
(***************************************************************************)
EXTENDS Integers, Sequences, Functions

CONSTANTS
  Ids,         \* identifiers of devices and notifiers (dev_id, ntf_id)
  Registered,  \* the identifiers load_reg_list put into list_reg_dev
  HasPub,      \* the identifiers whose <id>.public-key.pem can be read
  Bucket,      \* hash_func: the index of an identifier in list_reg_dev
  Addrs,       \* source addresses of tracking datagrams
  NoAddr,      \* the zeroed sockaddr of an entry that was never tracked
  None,        \* the null pointer
  Requests,    \* the datagrams that may arrive at port 7770
  MaxItems     \* bound: items the receiving thread accepts

MAX_MSG      == 1200
MSG_COMMON   == 100
AES_IV_BYTES == 16
AES_KEY_DATA == 32 + AES_IV_BYTES

Types  == {"MSG_REG", "MSG_TRA", "MSG_NTF", "MSG_CNF", "MSG_GET_AES"}
Routes == {"G_NTF_CLI", "F_NTF_CLI", "G_CLI_NTF", "F_CLI_NTF",
           "G_CLI_SRV", "F_SRV_CLI", "G_NTF_SRV", "F_SRV_NTF"}
KeyRoutes == {"G_CLI_SRV", "G_NTF_SRV"}
Encs   == {"NON", "SRV_PUB", "CLI_PUB", "AES"}

Datagram == [enc: Encs, ok: BOOLEAN, type: Types, route: Routes,
             dev: Ids, ntf: Ids, n: 0 .. MAX_MSG + 1]

\* A queued HASH_ITEM; uid numbers the items in the order they are queued.
Item == [uid: Nat, type: Types, route: Routes, dev: Ids, ntf: Ids, n: Nat]

\* A call of sendto by S2, with the batch (one taken list) it belongs to.
Sent == [item: Item, to: Ids, addr: Addrs \cup {NoAddr},
         body: {"rsa", "aes", "plain", "zeros"}, len: Nat \cup {-1}, batch: Nat]

\* An item that was freed or abandoned without a sendto.
Lost == [item: Item, batch: Nat, why: {"break", "restart"}]

ASSUME ServerAssumption ==
  /\ Registered \subseteq Ids
  /\ HasPub \subseteq Ids
  /\ NoAddr \notin Addrs
  /\ None \notin Ids
  /\ Requests \subseteq Datagram
  /\ MaxItems \in Nat

VARIABLES
  s1pc,      \* "recv": polling port 7770; "kill": item queued, S2 not yet signalled
  s2pc,      \* where the sending thread is in its loop
  g_runnow,  \* set by the signal handler, counted modulo 3 by S2
  imd_fwd_lt,\* the shared list, newest item first
  hi,        \* the part of the taken list S2 has not sent yet
  t,         \* send_to_dst's pointer to the entry found, None when null
  sn,        \* send_to_dst's length of the last datagram, -1 when sendto failed
  ipv4,      \* the address kept in each registered entry
  uid,       \* ghost: number of items accepted so far
  batch,     \* ghost: the list in hi holds the items queued after number batch
  sent,      \* ghost: what sendto was called with, in order
  lost       \* ghost: items dropped by a break of send_to_dst or by a restart

s1vars == <<s1pc, uid>>
s2vars == <<s2pc, hi, t, sn, batch, sent, lost>>
vars == <<s1pc, s2pc, g_runnow, imd_fwd_lt, hi, t, sn, ipv4, uid, batch, sent, lost>>

S2PCs == {"recv", "presleep", "sleep", "bump", "take", "walk"}

Init ==
  /\ s1pc = "recv"
  /\ s2pc = "recv"
  /\ g_runnow = 0
  /\ imd_fwd_lt = <<>>
  /\ hi = <<>>
  /\ t = None
  /\ sn = 0
  /\ ipv4 = [id \in Registered |-> NoAddr]
  /\ uid = 0
  /\ batch = 0
  /\ sent = <<>>
  /\ lost = {}

-----------------------------------------------------------------------------
(* The receiving thread S1.                                                *)

\* A datagram goes past the length test and past the decryption.
Decodes(d) == d.n >= MSG_COMMON /\ (d.enc = "AES" => d.ok)

\* The routes and types S1 queues; every other datagram is ignored.
Queued(d) ==
  \/ d.route \in {"G_NTF_CLI", "G_CLI_NTF"} /\ d.type = "MSG_NTF"
  \/ d.route \in KeyRoutes

\* What is queued for a datagram: a notification or its confirmation as it is,
\* a request for the AES key as a reply with the key and iv appended.  They are
\* appended without a look at what is left of the buffer of MAX_MSG + 1 bytes: a
\* request of more than MAX_MSG + 1 - AES_KEY_DATA bytes overruns it, and so does
\* the copy of such a reply in send_to_dst when it is sent in plain.  That is
\* undefined: the threads go on with the item, or the process ends (Restart).
ItemOf(d, u) ==
  LET route == IF d.route = "G_CLI_SRV" THEN "F_SRV_CLI"
               ELSE IF d.route = "G_NTF_SRV" THEN "F_SRV_NTF" ELSE d.route
  IN [uid |-> u, type |-> d.type, route |-> route, dev |-> d.dev, ntf |-> d.ntf,
      n |-> IF d.route \in KeyRoutes THEN d.n + AES_KEY_DATA ELSE d.n]

\* add_to_item_list: push at the head, under hash_tb_mtx.
Mutant_push_unlinked(it) == imd_fwd_lt' = <<it>>
add_to_imd_fwd(it) == imd_fwd_lt' = <<it>> \o imd_fwd_lt

S1Recv(d) ==
  /\ s1pc = "recv"
  /\ uid < MaxItems
  /\ Decodes(d) /\ Queued(d)
  /\ uid' = uid + 1
  /\ add_to_imd_fwd(ItemOf(d, uid + 1))
  /\ s1pc' = "kill"
  /\ UNCHANGED <<g_runnow, ipv4, s2vars>>

\* handler, run by S2 when the signal reaches it.
handler == g_runnow' = 1

\* pthread_kill(read_threadid, USER_SIG); an S2 inside usleep returns from it.
S1Kill ==
  /\ s1pc = "kill"
  /\ s1pc' = "recv"
  /\ handler
  /\ s2pc' = IF s2pc = "sleep" THEN "bump" ELSE s2pc
  /\ UNCHANGED <<imd_fwd_lt, ipv4, uid, hi, t, sn, batch, sent, lost>>

-----------------------------------------------------------------------------
(* The sending thread S2.                                                  *)

\* recvfrom finds nothing: sleep first unless the handler ran lately.  The length
\* test that follows compares -1 as unsigned and lets it through, but there is no
\* tracking message in the buffer, which was cleared.
S2RecvNone ==
  /\ s2pc = "recv"
  /\ s2pc' = IF g_runnow = 0 THEN "presleep" ELSE "bump"
  /\ UNCHANGED <<s1vars, g_runnow, imd_fwd_lt, ipv4, hi, t, sn, batch, sent, lost>>

\* usleep is entered: a signal taken between the test and here does not end it.
S2Sleep ==
  /\ s2pc = "presleep"
  /\ s2pc' = "sleep"
  /\ UNCHANGED <<s1vars, g_runnow, imd_fwd_lt, ipv4, hi, t, sn, batch, sent, lost>>

\* usleep ends after its second.
S2Wake ==
  /\ s2pc = "sleep"
  /\ s2pc' = "bump"
  /\ UNCHANGED <<s1vars, g_runnow, imd_fwd_lt, ipv4, hi, t, sn, batch, sent, lost>>

\* g_runnow++; g_runnow %= 3
Bumped == (g_runnow + 1) % 3

Mutant_S2Bump ==
  /\ s2pc = "bump"
  /\ g_runnow' = Bumped
  /\ s2pc' = "recv"
  /\ UNCHANGED <<s1vars, imd_fwd_lt, ipv4, hi, t, sn, batch, sent, lost>>
S2Bump ==
  /\ s2pc = "bump"
  /\ g_runnow' = Bumped
  /\ s2pc' = "take"
  /\ UNCHANGED <<s1vars, imd_fwd_lt, ipv4, hi, t, sn, batch, sent, lost>>

\* hl_track_msg: the entry of a registered identifier takes the source address.
hl_track_msg(id, addr) ==
  ipv4' = IF id \in Registered THEN [ipv4 EXCEPT ![id] = addr] ELSE ipv4

\* recvfrom returns a datagram: a tracking message that decodes updates the
\* entry of its device, anything else changes nothing.
S2Recv(type, id, addr, ok) ==
  /\ s2pc = "recv"
  /\ IF type = "MSG_TRA" /\ ok THEN hl_track_msg(id, addr) ELSE UNCHANGED ipv4
  /\ s2pc' = "take"
  /\ UNCHANGED <<s1vars, g_runnow, imd_fwd_lt, hi, t, sn, batch, sent, lost>>

\* send_to_dst, first part: take the whole list under hash_tb_mtx.
S2Take ==
  /\ s2pc = "take"
  /\ hi' = imd_fwd_lt
  /\ imd_fwd_lt' = <<>>
  /\ batch' = uid - Len(imd_fwd_lt)
  /\ t' = None
  /\ sn' = 0
  /\ s2pc' = "walk"
  /\ UNCHANGED <<s1vars, g_runnow, ipv4, sent, lost>>

Forwarded == {"G_NTF_CLI", "F_SRV_CLI", "G_NTF_SRV", "F_SRV_NTF", "G_CLI_NTF"}

\* iid: the identifier an item is for.
Dest(it) == IF it.route = "G_CLI_NTF" THEN it.ntf ELSE it.dev

\* The entry the bucket walk ends with: t keeps its old value when the bucket
\* has entries and none of them is the one looked for.
Lookup(id) ==
  IF \A r \in Registered : Bucket[r] # Bucket[id] THEN None
  ELSE IF id \in Registered THEN id ELSE t

\* msg_aes_enc refuses a buffer that is too small for tag and last byte.
Mutant_AesFits(n) == MAX_MSG + 1 > n + 1 + AES_IV_BYTES
AesFits(n) == MAX_MSG + 1 >= n + 1 + AES_IV_BYTES

\* The conditions under which send_to_dst leaves its loop at an item.
Breaks(it) ==
  \/ it.route \notin Forwarded
  \/ Lookup(Dest(it)) = None
  \/ it.type = "MSG_NTF" /\ ~AesFits(it.n)

\* The block of the repository's 2048-bit keys; PKCS#1 padding takes 11 bytes.
RSA_BLOCK == 256
RsaFits(n) == n <= RSA_BLOCK - 11

\* The bytes handed to sendto.  When the RSA encryption of a reply is not
\* possible the zeroed buffer is sent, with the length left from the item before.
Body(it) ==
  CASE it.type = "MSG_GET_AES" -> IF Dest(it) \in HasPub /\ RsaFits(it.n)
                                  THEN "rsa" ELSE "zeros"
    [] it.type = "MSG_NTF"     -> "aes"
    [] OTHER                   -> "plain"

BodyLen(it) ==
  CASE Body(it) = "rsa"   -> RSA_BLOCK + 1
    [] Body(it) = "zeros" -> sn
    [] Body(it) = "aes"   -> it.n + 1 + AES_IV_BYTES
    [] OTHER              -> it.n

\* t = hi; hi = hi->next; MY_FREE(t) frees the item and clears t.
Mutant_NextT(it) == Lookup(Dest(it))
NextT(it) == None

\* One round of the loop of send_to_dst that reaches sendto.  sn takes what sendto
\* returns, the length or -1.
S2Send ==
  LET it == Head(hi) IN
  /\ s2pc = "walk"
  /\ hi # <<>>
  /\ ~Breaks(it)
  /\ sent' = Append(sent, [item |-> it, to |-> Lookup(Dest(it)),
                           addr |-> ipv4[Lookup(Dest(it))],
                           body |-> Body(it), len |-> BodyLen(it), batch |-> batch])
  /\ sn' \in {BodyLen(it), -1}
  /\ t' = NextT(it)
  /\ hi' = Tail(hi)
  /\ UNCHANGED <<s1vars, s2pc, g_runnow, imd_fwd_lt, ipv4, batch, lost>>

LostItems(l, why) == {[item |-> it, batch |-> batch, why |-> why] : it \in Range(l)}

\* One round that leaves the loop: the item and all behind it are gone.
S2Break ==
  /\ s2pc = "walk"
  /\ hi # <<>>
  /\ Breaks(Head(hi))
  /\ lost' = lost \cup LostItems(hi, "break")
  /\ hi' = <<>>
  /\ UNCHANGED <<s1vars, s2pc, g_runnow, imd_fwd_lt, ipv4, t, sn, batch, sent>>

\* The list is done: send_to_dst returns, and its sn ends with it.
S2Done ==
  /\ s2pc = "walk"
  /\ hi = <<>>
  /\ s2pc' = "recv"
  /\ sn' = 0
  /\ UNCHANGED <<s1vars, g_runnow, imd_fwd_lt, ipv4, hi, t, batch, sent, lost>>

\* The process is killed and started again: everything in memory is gone.
Restart ==
  /\ lost' = lost \cup LostItems(hi \o imd_fwd_lt, "restart")
  /\ s1pc' = "recv" /\ s2pc' = "recv" /\ g_runnow' = 0
  /\ imd_fwd_lt' = <<>> /\ hi' = <<>> /\ t' = None /\ sn' = 0
  /\ ipv4' = [id \in Registered |-> NoAddr]
  /\ UNCHANGED <<uid, batch, sent>>

\* The loop of S2; recvfrom does not block and usleep ends, so it never waits.
S2 ==
  \/ S2RecvNone \/ S2Sleep \/ S2Wake \/ S2Bump
  \/ \E id \in Ids, addr \in Addrs, ok \in BOOLEAN : S2Recv("MSG_TRA", id, addr, ok)
  \/ S2Take \/ S2Send \/ S2Break \/ S2Done

S1 == (\E d \in Requests : S1Recv(d)) \/ S1Kill

Next == S1 \/ S2 \/ Restart

\* S1 goes on to the signal once it has queued an item, S2 runs its loop for ever.
Fairness == WF_vars(S1Kill) /\ WF_vars(S2)

Spec == Init /\ [][Next]_vars

FairSpec == Spec /\ Fairness

-----------------------------------------------------------------------------
(* Properties.                                                             *)

\* The state of both threads, the table and the history has its types; g_runnow
\* stays below 3 although the handler and the loop both write it.
TypeOK ==
  /\ s1pc \in {"recv", "kill"}
  /\ s2pc \in S2PCs
  /\ g_runnow \in 0 .. 2
  /\ imd_fwd_lt \in Seq(Item)
  /\ hi \in Seq(Item)
  /\ t \in Ids \cup {None}
  /\ sn \in Nat \cup {-1}
  /\ ipv4 \in [Registered -> Addrs \cup {NoAddr}]
  /\ uid \in Nat
  /\ batch \in Nat
  /\ sent \in Seq(Sent)
  /\ lost \in SUBSET Lost

InList(l, u) == \E i \in DOMAIN l : l[i].uid = u
WasSent(u)   == \E i \in DOMAIN sent : sent[i].item.uid = u
WasLost(u)   == \E x \in lost : x.item.uid = u

(* Every item S1 queued is in exactly one place: still in the shared list, *)
(* in the list S2 walks, handed to sendto, or dropped; and it was handed   *)
(* to sendto at most once.  S1 pushing while S2 takes and walks the list   *)
(* neither loses nor doubles an item (add_to_item_list, send_to_dst).      *)
ExactlyOnce ==
  /\ \A u \in 1 .. uid :
       /\ InList(imd_fwd_lt, u) \/ InList(hi, u) \/ WasSent(u) \/ WasLost(u)
       /\ ~(InList(imd_fwd_lt, u) /\ InList(hi, u))
       /\ InList(imd_fwd_lt, u) \/ InList(hi, u) => ~WasSent(u) /\ ~WasLost(u)
       /\ ~(WasSent(u) /\ WasLost(u))
  /\ \A i, j \in DOMAIN sent : sent[i].item.uid = sent[j].item.uid => i = j

(* Whatever was in the same batch before it, an item only goes out to the  *)
(* entry registered under its own destination (the pointer t of            *)
(* send_to_dst never survives from one item to the next).                  *)
NoMisdelivery == \A i \in DOMAIN sent : sent[i].to = Dest(sent[i].item)

(* Batches go out in the order they were queued, the items of one batch in *)
(* the reverse order (the list is pushed and walked at its head).          *)
SendOrder ==
  \A i, j \in DOMAIN sent : i < j =>
    IF sent[i].batch = sent[j].batch
    THEN sent[i].item.uid > sent[j].item.uid
    ELSE sent[i].batch < sent[j].batch /\ sent[i].item.uid < sent[j].item.uid

\* A destination that is not registered, or a notification too long to encrypt.
Undeliverable(it) ==
  Dest(it) \notin Registered \/ (it.type = "MSG_NTF" /\ it.n > 1184)

(* A running server drops an item only because of an undeliverable item of *)
(* the same batch that was queued after it (or is the item itself), and    *)
(* what it did send of that batch was queued later still: deliverable      *)
(* items are never lost on their own (the breaks of send_to_dst).          *)
LossExplained ==
  \A x \in lost : x.why = "break" =>
    \E b \in lost :
      /\ b.why = "break" /\ b.batch = x.batch
      /\ Undeliverable(b.item) /\ b.item.uid >= x.item.uid
      /\ \A i \in DOMAIN sent : sent[i].batch = x.batch => sent[i].item.uid > b.item.uid

-----------------------------------------------------------------------------
(* The inductive invariant behind ExactlyOnce, NoMisdelivery, SendOrder    *)
(* and LossExplained.  The shared list holds the newest items without a    *)
(* gap, hi the items numbered batch + 1 to batch + Len(hi); everything     *)
(* else that was queued is settled, on its side of those two ranges.       *)

\* The last number that is not in the shared list.
Taken == uid - Len(imd_fwd_lt)

ListShape ==
  /\ Len(imd_fwd_lt) <= uid
  /\ \A i \in 1 .. Len(imd_fwd_lt) : imd_fwd_lt[i].uid = uid - i + 1
  /\ batch + Len(hi) <= Taken
  /\ \A i \in 1 .. Len(hi) : hi[i].uid = batch + Len(hi) - i + 1
  /\ hi # <<>> => s2pc = "walk"

RoutesOK ==
  /\ \A i \in 1 .. Len(imd_fwd_lt) : imd_fwd_lt[i].route \in Forwarded
  /\ \A i \in 1 .. Len(hi) : hi[i].route \in Forwarded

SentShape ==
  \A i \in 1 .. Len(sent) :
    /\ sent[i].batch < sent[i].item.uid
    /\ sent[i].item.uid <= Taken
    /\ \/ sent[i].batch < batch /\ sent[i].item.uid <= batch
       \/ sent[i].batch = batch /\ sent[i].item.uid > batch + Len(hi)

LostShape ==
  \A x \in lost :
    /\ 1 <= x.item.uid /\ x.item.uid <= Taken
    /\ x.item.uid <= batch \/ x.item.uid > batch + Len(hi)
    /\ x.why = "break" => /\ x.batch < x.item.uid
                          /\ x.batch <= batch
                          /\ x.batch = batch => hi = <<>>

Settled ==
  /\ \A u \in 1 .. Taken : u \in batch + 1 .. batch + Len(hi) \/ WasSent(u) \/ WasLost(u)
  /\ \A u \in 1 .. Taken : ~(WasSent(u) /\ WasLost(u))

IInv ==
  /\ TypeOK
  /\ t = None
  /\ ListShape
  /\ RoutesOK
  /\ SentShape
  /\ LostShape
  /\ Settled
  /\ NoMisdelivery
  /\ SendOrder
  /\ LossExplained

-----------------------------------------------------------------------------
\* Behind NoIdleSleep: a list that was signalled for keeps g_runnow from being 0
\* until S2 takes it.
WakeInv ==
  imd_fwd_lt # <<>> /\ s1pc = "recv" /\ s2pc \in {"recv", "walk"} => g_runnow # 0

(* S2 never decides to sleep while an item it was signalled for is waiting:*)
(* the test of g_runnow sees the handler's 1 until the list was taken.     *)
NoIdleSleep ==
  [][s2pc' = "presleep" /\ s2pc # "presleep" => imd_fwd_lt = <<>> \/ s1pc = "kill"]_vars

(* Every queued item is settled: handed to sendto or dropped, also when    *)
(* its signal was taken in the window before usleep (S2's loop).           *)
EventuallySettled ==
  \A u \in 1 .. MaxItems : (uid >= u) ~> (WasSent(u) \/ WasLost(u))

\* The two lists are what waits, the ghosts what became of the other items.
UidOf(it) == it.uid

Fwd == INSTANCE Forwarder WITH
  Items     <- Item,
  UidOf     <- UidOf,
  DestOf    <- Dest,
  accepted  <- uid,
  waiting   <- Range(imd_fwd_lt) \cup Range(hi),
  delivered <- {<<sent[i].item, sent[i].to>> : i \in DOMAIN sent},
  dropped   <- {x.item : x \in lost}

(* The two threads with their list, their signal and their restarts do     *)
(* what Forwarder promises (add_to_item_list, send_to_dst and S2's loop).  *)
ImplementsForwarder == Fwd!Spec

=============================================================================
