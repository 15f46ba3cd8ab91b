------------------------ MODULE NotifyServer_proofs ------------------------
(***************************************************************************)
(* Proofs about NotifyServer for every set of identifiers, every request   *)
(* and any number of items.                                                *)
(***************************************************************************)
EXTENDS NotifyServer, TLAPS

\* The item S1 builds from a request is an item with a route that S2 forwards.
LEMMA ItemOfType ==
  ASSUME NEW d \in Requests, NEW u \in Nat, Queued(d)
  PROVE  /\ ItemOf(d, u) \in Item
         /\ ItemOf(d, u).uid = u
         /\ ItemOf(d, u).route \in Forwarded
<1>1. d \in Datagram
  BY ServerAssumption
<1>2. d.n \in Nat /\ d.type \in Types /\ d.route \in Routes /\ d.dev \in Ids /\ d.ntf \in Ids
  BY <1>1 DEF Datagram, MAX_MSG
<1>3. QED
  BY <1>2 DEF ItemOf, Item, Queued, KeyRoutes, Routes, Forwarded, AES_KEY_DATA, AES_IV_BYTES

LEMMA ElementType ==
  ASSUME NEW S, NEW l \in Seq(S), NEW i \in 1 .. Len(l)
  PROVE  l[i] \in S
OBVIOUS

LEMMA RangeConcat ==
  ASSUME NEW S, NEW k \in Seq(S), NEW l \in Seq(S)
  PROVE  Range(k \o l) = Range(k) \cup Range(l)
<1>1. /\ Len(k) \in Nat /\ Len(l) \in Nat /\ DOMAIN k = 1 .. Len(k) /\ DOMAIN l = 1 .. Len(l)
      /\ DOMAIN (k \o l) = 1 .. Len(k) + Len(l)
      /\ \A i \in 1 .. Len(k) : (k \o l)[i] = k[i]
      /\ \A i \in 1 .. Len(l) : (k \o l)[Len(k) + i] = l[i]
  OBVIOUS
<1>2. ASSUME NEW i \in 1 .. Len(k) + Len(l)
      PROVE  (k \o l)[i] \in Range(k) \cup Range(l)
  <2>1. i \in 1 .. Len(k) \/ (i - Len(k) \in 1 .. Len(l) /\ i = Len(k) + (i - Len(k)))
    BY <1>1
  <2>2. QED
    BY <1>1, <2>1 DEF Range
<1>3. \A i \in 1 .. Len(k) : i \in 1 .. Len(k) + Len(l)
  BY <1>1
<1>4. \A i \in 1 .. Len(l) : Len(k) + i \in 1 .. Len(k) + Len(l)
  BY <1>1
<1>5. Range(k \o l) \subseteq Range(k) \cup Range(l)
  BY <1>1, <1>2 DEF Range
<1>6. Range(k) \subseteq Range(k \o l)
  BY <1>1, <1>3 DEF Range
<1>7. Range(l) \subseteq Range(k \o l)
  BY <1>1, <1>4 DEF Range
<1>8. QED
  BY <1>5, <1>6, <1>7

\* The numbers the invariants compare are natural numbers.
LEMMA Numbers ==
  ASSUME TypeOK
  PROVE  /\ uid \in Nat /\ batch \in Nat
         /\ Len(imd_fwd_lt) \in Nat /\ Len(hi) \in Nat /\ Len(sent) \in Nat
         /\ \A i \in 1 .. Len(sent) : sent[i].item.uid \in Nat /\ sent[i].batch \in Nat
         /\ \A x \in lost : x.item.uid \in Nat /\ x.batch \in Nat
<1>1. \A i \in 1 .. Len(sent) : sent[i] \in Sent
  BY ElementType DEF TypeOK
<1>2. \A r \in Sent : r.item \in Item /\ r.batch \in Nat
  BY DEF Sent
<1>3. \A r \in Lost : r.item \in Item /\ r.batch \in Nat
  BY DEF Lost
<1>4. \A r \in Item : r.uid \in Nat
  BY DEF Item
<1>5. QED
  BY <1>1, <1>2, <1>3, <1>4 DEF TypeOK

\* With t null, the walk through a bucket finds the entry looked for or nothing.
LEMMA LookupFinds ==
  ASSUME t = None, NEW id \in Ids
  PROVE  /\ Lookup(id) # None => Lookup(id) = id /\ id \in Registered
         /\ Lookup(id) = None => id \notin Registered
<1>1. None # id
  BY ServerAssumption
<1>2. QED
  BY <1>1 DEF Lookup

\* What was sent or lost is outside the ranges of the two lists.
LEMMA SettledUids ==
  ASSUME IInv, NEW u, WasSent(u) \/ WasLost(u)
  PROVE  u \in 1 .. Taken /\ u \notin batch + 1 .. batch + Len(hi)
<1>1. TypeOK /\ sent \in Seq(Sent) /\ SentShape /\ LostShape
  BY DEF IInv, TypeOK
<1>2. batch \in Nat /\ Len(hi) \in Nat /\ Taken \in Int
  BY <1>1, Numbers DEF Taken
<1>3. CASE WasSent(u)
  <2>1. PICK i \in 1 .. Len(sent) : sent[i].item.uid = u
    BY <1>1, <1>3 DEF WasSent
  <2>2. u \in Nat /\ sent[i].batch \in Nat
    BY <1>1, <2>1, Numbers
  <2>3. sent[i].batch < u /\ u <= Taken /\ (u <= batch \/ u > batch + Len(hi))
    BY <1>1, <2>1 DEF SentShape
  <2>4. QED
    BY <1>2, <2>2, <2>3
<1>4. CASE WasLost(u)
  <2>1. PICK x \in lost : x.item.uid = u
    BY <1>4 DEF WasLost
  <2>2. u \in Nat
    BY <1>1, <2>1, Numbers
  <2>3. 1 <= u /\ u <= Taken /\ (u <= batch \/ u > batch + Len(hi))
    BY <1>1, <2>1 DEF LostShape
  <2>4. QED
    BY <1>2, <2>2, <2>3
<1>5. QED
  BY <1>3, <1>4

THEOREM InitIInv == Init => IInv
<1> SUFFICES ASSUME Init PROVE IInv
  OBVIOUS
<1> USE DEF Init
<1>1. TypeOK
  BY DEF TypeOK, S2PCs
<1>2. ListShape /\ RoutesOK /\ SentShape /\ LostShape
  BY DEF ListShape, RoutesOK, SentShape, LostShape, Taken
<1>3. Settled
  BY DEF Settled, Taken, WasSent, WasLost
<1>4. NoMisdelivery /\ SendOrder /\ LossExplained
  BY DEF NoMisdelivery, SendOrder, LossExplained
<1>5. QED
  BY <1>1, <1>2, <1>3, <1>4 DEF IInv

\* Steps that touch neither the lists nor what became of the items.
Quiet == UNCHANGED <<imd_fwd_lt, hi, t, uid, batch, sent, lost>>

LEMMA QuietIInv ==
  ASSUME IInv, Quiet, TypeOK', hi # <<>> => s2pc' = "walk"
  PROVE  IInv'
<1> USE DEF Quiet, IInv
<1>1. ListShape' /\ RoutesOK'
  BY DEF ListShape, RoutesOK, Taken
<1>2. SentShape' /\ LostShape'
  BY DEF SentShape, LostShape, Taken
<1>3. Settled'
  BY DEF Settled, Taken, WasSent, WasLost
<1>4. NoMisdelivery' /\ SendOrder' /\ LossExplained'
  BY DEF NoMisdelivery, SendOrder, LossExplained
<1>5. QED
  BY <1>1, <1>2, <1>3, <1>4

\* S1 pushes the next item at the head of the shared list.
LEMMA S1RecvIInv ==
  ASSUME IInv, NEW d \in Requests, S1Recv(d)
  PROVE  IInv'
<1> DEFINE it == ItemOf(d, uid + 1)
<1>1. uid \in Nat /\ imd_fwd_lt \in Seq(Item) /\ hi \in Seq(Item) /\ batch \in Nat
  BY DEF IInv, TypeOK
<1>2. it \in Item /\ it.uid = uid + 1 /\ it.route \in Forwarded
  BY <1>1, ItemOfType DEF S1Recv
<1> HIDE DEF it
<1>3. /\ imd_fwd_lt' = <<it>> \o imd_fwd_lt
      /\ uid' = uid + 1
      /\ UNCHANGED <<g_runnow, ipv4, s2vars>>
      /\ s1pc' = "kill"
  BY DEF S1Recv, add_to_imd_fwd, it
<1>4. /\ imd_fwd_lt' \in Seq(Item)
      /\ Len(imd_fwd_lt') = Len(imd_fwd_lt) + 1
      /\ imd_fwd_lt'[1] = it
      /\ \A i \in 2 .. Len(imd_fwd_lt') : imd_fwd_lt'[i] = imd_fwd_lt[i - 1]
  BY <1>1, <1>2, <1>3
<1>5. Taken' = Taken
  BY <1>1, <1>3, <1>4 DEF Taken
<1>6. TypeOK'
  BY <1>1, <1>3, <1>4 DEF IInv, TypeOK, s2vars
<1>7. ListShape'
  <2>1. \A i \in 1 .. Len(imd_fwd_lt') : imd_fwd_lt'[i].uid = uid' - i + 1
    <3> TAKE i \in 1 .. Len(imd_fwd_lt')
    <3>1. CASE i = 1
      BY <1>1, <1>2, <1>3, <1>4, <3>1
    <3>2. CASE i # 1
      <4>1. i - 1 \in 1 .. Len(imd_fwd_lt) /\ imd_fwd_lt'[i] = imd_fwd_lt[i - 1]
        BY <1>1, <1>4, <3>2
      <4>2. imd_fwd_lt[i - 1].uid = uid - (i - 1) + 1
        BY <4>1 DEF IInv, ListShape
      <4>3. QED
        BY <1>1, <1>3, <4>1, <4>2
    <3>3. QED
      BY <3>1, <3>2
  <2>2. Len(imd_fwd_lt') <= uid'
    BY <1>1, <1>3, <1>4 DEF IInv, ListShape
  <2>3. QED
    BY <1>3, <1>5, <2>1, <2>2 DEF IInv, ListShape, s2vars
<1>8. RoutesOK'
  BY <1>1, <1>2, <1>3, <1>4 DEF IInv, RoutesOK, s2vars
<1>9. SentShape' /\ LostShape'
  BY <1>3, <1>5 DEF IInv, SentShape, LostShape, s2vars
<1>10. Settled'
  BY <1>3, <1>5 DEF IInv, Settled, WasSent, WasLost, s2vars
<1>11. NoMisdelivery' /\ SendOrder' /\ LossExplained'
  BY <1>3 DEF IInv, NoMisdelivery, SendOrder, LossExplained, s2vars
<1>12. QED
  BY <1>3, <1>6, <1>7, <1>8, <1>9, <1>10, <1>11 DEF IInv, s2vars

\* S2 takes the shared list; what was settled before is below the new batch.
LEMMA S2TakeIInv ==
  ASSUME IInv, S2Take
  PROVE  IInv'
<1>1. /\ uid \in Nat /\ imd_fwd_lt \in Seq(Item) /\ hi \in Seq(Item) /\ batch \in Nat
      /\ sent \in Seq(Sent) /\ lost \in SUBSET Lost
  BY DEF IInv, TypeOK
<1>2. /\ hi = <<>> /\ s2pc' = "walk"
      /\ hi' = imd_fwd_lt /\ imd_fwd_lt' = <<>>
      /\ batch' = Taken /\ Taken' = uid
      /\ t' = None /\ sn' = 0
      /\ UNCHANGED <<s1pc, uid, g_runnow, ipv4, sent, lost>>
  BY <1>1 DEF IInv, ListShape, S2Take, Taken, s1vars
<1>3. Len(imd_fwd_lt) \in Nat /\ Taken \in Nat /\ Len(imd_fwd_lt) <= uid
  BY <1>1 DEF IInv, ListShape, Taken
<1>4. batch' + Len(hi') = uid
  BY <1>1, <1>2, <1>3 DEF Taken
<1>5. TypeOK'
  BY <1>1, <1>2, <1>3 DEF IInv, TypeOK, S2PCs
<1>6. ListShape'
  <2>1. \A i \in 1 .. Len(hi') : hi'[i].uid = batch' + Len(hi') - i + 1
    <3>1. \A i \in 1 .. Len(imd_fwd_lt) : imd_fwd_lt[i].uid = uid - i + 1
      BY DEF IInv, ListShape
    <3>2. batch' \in Int /\ Len(hi') \in Int /\ Len(hi') = Len(imd_fwd_lt)
      BY <1>1, <1>2, <1>3
    <3>3. ASSUME NEW i \in 1 .. Len(imd_fwd_lt)
          PROVE  hi'[i].uid = batch' + Len(hi') - i + 1
      <4>1. hi'[i].uid = uid - i + 1
        BY <1>2, <3>1
      <4>2. batch' + Len(hi') - i + 1 = uid - i + 1
        <5>1. i \in Int /\ uid \in Int
          BY <1>1, <1>3
        <5>2. ASSUME NEW b \in Int, NEW n \in Int, b + n = uid
              PROVE  b + n - i + 1 = uid - i + 1
          BY <5>1, <5>2
        <5>3. QED
          BY <1>4, <3>2, <5>2
      <4>3. QED
        BY <4>1, <4>2, Zenon
    <3>4. QED
      BY <3>2, <3>3
  <2>2. Len(imd_fwd_lt') = 0
    BY <1>2
  <2>3. QED
    BY <1>1, <1>2, <1>4, <2>1, <2>2 DEF ListShape
<1>7. RoutesOK'
  BY <1>1, <1>2 DEF IInv, RoutesOK
<1>8. \A i \in 1 .. Len(sent) : sent[i].item.uid <= Taken /\ sent[i].batch < Taken
  BY <1>1, <1>3, Numbers DEF IInv, SentShape
<1>9. SentShape'
  BY <1>1, <1>2, <1>3, <1>8, Numbers DEF IInv, SentShape, Taken
<1>10. \A x \in lost : x.item.uid <= Taken /\ (x.why = "break" => x.batch < Taken)
  BY <1>1, <1>3, Numbers DEF IInv, LostShape
<1>11. LostShape'
  BY <1>1, <1>2, <1>3, <1>10, Numbers DEF IInv, LostShape, Taken
<1>12. Settled'
  <2>1. \A u \in 1 .. Taken : (WasSent(u) \/ WasLost(u)) /\ ~(WasSent(u) /\ WasLost(u))
    <3>1. Len(hi) = 0
      BY <1>2
    <3>2. QED
      BY <1>1, <1>3, <3>1 DEF IInv, Settled
  <2>2. \A u : (WasSent(u)' <=> WasSent(u)) /\ (WasLost(u)' <=> WasLost(u))
    BY <1>2 DEF WasSent, WasLost
  <2>3. \A u \in Taken + 1 .. uid : ~WasSent(u)
    BY <1>1, <1>3, <1>8, Numbers DEF WasSent, IInv
  <2>4. \A u \in 1 .. uid : u \in 1 .. Taken \/ u \in Taken + 1 .. uid
    BY <1>1, <1>3
  <2>5. QED
    BY <1>2, <1>4, <2>1, <2>2, <2>3, <2>4 DEF Settled
<1>13. NoMisdelivery' /\ SendOrder' /\ LossExplained'
  BY <1>2 DEF IInv, NoMisdelivery, SendOrder, LossExplained
<1>14. QED
  BY <1>2, <1>5, <1>6, <1>7, <1>9, <1>11, <1>12, <1>13 DEF IInv

\* S2 hands the newest item of its list to sendto.
LEMMA S2SendIInv ==
  ASSUME IInv, S2Send
  PROVE  IInv'
<1> DEFINE it == Head(hi)
           r  == [item |-> it, to |-> Lookup(Dest(it)), addr |-> ipv4[Lookup(Dest(it))],
                  body |-> Body(it), len |-> BodyLen(it), batch |-> batch]
<1>1. /\ uid \in Nat /\ imd_fwd_lt \in Seq(Item) /\ hi \in Seq(Item) /\ batch \in Nat
      /\ sent \in Seq(Sent) /\ sn \in Nat \cup {-1} /\ ipv4 \in [Registered -> Addrs \cup {NoAddr}]
      /\ t = None /\ s2pc = "walk" /\ hi # <<>> /\ ~Breaks(it)
  BY DEF IInv, TypeOK, S2Send
<1>2. /\ Len(hi) \in Nat /\ Len(hi) >= 1 /\ it = hi[1] /\ it \in Item
      /\ Tail(hi) \in Seq(Item) /\ Len(Tail(hi)) = Len(hi) - 1
      /\ \A i \in 1 .. Len(Tail(hi)) : Tail(hi)[i] = hi[i + 1]
  BY <1>1
<1>3. it.n \in Nat /\ it.uid \in Nat /\ Dest(it) \in Ids
  BY <1>2 DEF Item, Dest
<1>4. Lookup(Dest(it)) = Dest(it) /\ Dest(it) \in Registered
  BY <1>1, <1>3, LookupFinds DEF Breaks
<1>5. it.uid = batch + Len(hi)
  BY <1>1, <1>2 DEF IInv, ListShape
<1>6. Body(it) \in {"rsa", "aes", "plain", "zeros"} /\ BodyLen(it) \in Nat \cup {-1}
  BY <1>1, <1>3 DEF Body, BodyLen, RSA_BLOCK, AES_IV_BYTES
<1>7. r \in Sent
  BY <1>1, <1>2, <1>3, <1>4, <1>6 DEF Sent
<1>8. r.item = it /\ r.to = Dest(it) /\ r.batch = batch
  BY <1>4
<1>9. /\ sent' = Append(sent, r) /\ hi' = Tail(hi) /\ t' = None /\ sn' \in {BodyLen(it), -1}
      /\ UNCHANGED <<s1pc, uid, s2pc, g_runnow, imd_fwd_lt, ipv4, batch, lost>>
  BY DEF S2Send, NextT, s1vars
<1> HIDE DEF it, r
<1>10. /\ sent' \in Seq(Sent) /\ Len(sent') = Len(sent) + 1 /\ Len(sent) \in Nat
       /\ \A i \in 1 .. Len(sent) : sent'[i] = sent[i]
       /\ sent'[Len(sent) + 1] = r
  BY <1>1, <1>7, <1>9
<1>11. Taken' = Taken /\ Taken \in Int
  BY <1>1, <1>9 DEF Taken
<1>12. TypeOK'
  BY <1>1, <1>2, <1>6, <1>9, <1>10 DEF IInv, TypeOK
<1>13. ListShape' /\ RoutesOK'
  <2>1. \A i \in 1 .. Len(hi') : i + 1 \in 1 .. Len(hi) /\ hi'[i] = hi[i + 1]
    BY <1>2, <1>9
  <2>2. \A i \in 1 .. Len(hi') : hi'[i].uid = batch' + Len(hi') - i + 1
    <3>1. \A i \in 1 .. Len(hi) : hi[i].uid = batch + Len(hi) - i + 1
      BY DEF IInv, ListShape
    <3>2. ASSUME NEW i \in 1 .. Len(hi')
          PROVE  hi'[i].uid = batch' + Len(hi') - i + 1
      <4>1. hi'[i].uid = batch + Len(hi) - (i + 1) + 1
        BY <2>1, <3>1
      <4>2. Len(hi') = Len(hi) - 1 /\ batch' = batch
        BY <1>2, <1>9
      <4>3. QED
        BY <1>1, <1>2, <4>1, <4>2
    <3>3. QED
      BY <3>2
  <2>3. \A i \in 1 .. Len(hi') : hi'[i].route \in Forwarded
    BY <2>1 DEF IInv, RoutesOK
  <2>4. batch' + Len(hi') <= Taken'
    BY <1>1, <1>2, <1>9, <1>11 DEF IInv, ListShape
  <2>5. QED
    BY <1>1, <1>9, <2>2, <2>3, <2>4 DEF IInv, ListShape, RoutesOK
<1>14. it.uid <= Taken /\ it.uid > batch + Len(hi')
  BY <1>1, <1>2, <1>5, <1>9 DEF IInv, ListShape
<1>15. SentShape'
  <2>1. ASSUME NEW i \in 1 .. Len(sent)
        PROVE  /\ sent[i].batch < sent[i].item.uid
               /\ sent[i].item.uid <= Taken
               /\ \/ sent[i].batch < batch /\ sent[i].item.uid <= batch
                  \/ sent[i].batch = batch /\ sent[i].item.uid > batch + Len(hi')
    BY <1>1, <1>2, <1>9, Numbers DEF IInv, SentShape
  <2>2. \A i \in 1 .. Len(sent') : i \in 1 .. Len(sent) \/ i = Len(sent) + 1
    BY <1>10
  <2>3. r.batch < r.item.uid
    BY <1>1, <1>2, <1>5, <1>8
  <2>4. QED
    BY <1>8, <1>9, <1>10, <1>11, <1>14, <2>1, <2>2, <2>3 DEF SentShape
<1>16. LostShape'
  <2>1. ASSUME NEW x \in lost
        PROVE  x.item.uid <= batch \/ x.item.uid > batch + Len(hi')
    BY <1>1, <1>2, <1>9, Numbers DEF IInv, LostShape
  <2>2. \A x \in lost : x.why = "break" => x.batch # batch
    BY <1>1 DEF IInv, LostShape
  <2>3. QED
    BY <1>9, <1>11, <2>1, <2>2 DEF IInv, LostShape
<1>17. Settled'
  <2>1. \A u : WasSent(u)' <=> WasSent(u) \/ u = it.uid
    BY <1>8, <1>10 DEF WasSent
  <2>2. \A u : WasLost(u)' <=> WasLost(u)
    BY <1>9 DEF WasLost
  <2>3. ~WasLost(it.uid)
    BY <1>1, <1>2, <1>5, Numbers DEF WasLost, IInv, LostShape
  <2>4. \A u \in 1 .. Taken : u \in batch + 1 .. batch + Len(hi)
           => u \in batch + 1 .. batch + Len(hi') \/ u = it.uid
    <3>1. Len(hi') = Len(hi) - 1 /\ Len(hi) \in Nat /\ batch \in Nat /\ it.uid = batch + Len(hi)
      BY <1>1, <1>2, <1>5, <1>9
    <3>2. ASSUME NEW u \in 1 .. Taken, u \in batch + 1 .. batch + Len(hi), u # it.uid
          PROVE  u \in batch + 1 .. batch + Len(hi')
      BY <1>11, <3>1, <3>2
    <3>3. QED
      BY <3>2
  <2>5. QED
    BY <1>9, <1>11, <2>1, <2>2, <2>3, <2>4 DEF IInv, Settled
<1>18. NoMisdelivery'
  BY <1>8, <1>10 DEF IInv, NoMisdelivery
<1>19. SendOrder'
  <2>1. \A i \in 1 .. Len(sent) :
          IF sent[i].batch = r.batch
          THEN sent[i].item.uid > r.item.uid
          ELSE sent[i].batch < r.batch /\ sent[i].item.uid < r.item.uid
    BY <1>1, <1>2, <1>5, <1>8, Numbers DEF IInv, SentShape
  <2>2. \A i, j \in 1 .. Len(sent') :
          i < j => i \in 1 .. Len(sent) /\ (j \in 1 .. Len(sent) \/ j = Len(sent) + 1)
    BY <1>10
  <2>3. QED
    BY <1>10, <2>1, <2>2 DEF IInv, SendOrder
<1>20. LossExplained'
  <2>1. \A x \in lost : x.why = "break" => x.batch # batch
    BY <1>1 DEF IInv, LostShape
  <2>2. QED
    BY <1>8, <1>9, <1>10, <2>1 DEF IInv, LossExplained
<1>21. QED
  BY <1>9, <1>12, <1>13, <1>15, <1>16, <1>17, <1>18, <1>19, <1>20 DEF IInv

\* S2 leaves the loop: the first item is undeliverable and is the newest one.
LEMMA S2BreakIInv ==
  ASSUME IInv, S2Break
  PROVE  IInv'
<1> DEFINE it == Head(hi)
           L  == LostItems(hi, "break")
<1>1. /\ uid \in Nat /\ imd_fwd_lt \in Seq(Item) /\ hi \in Seq(Item) /\ batch \in Nat
      /\ sent \in Seq(Sent) /\ lost \in SUBSET Lost
      /\ t = None /\ s2pc = "walk" /\ hi # <<>> /\ Breaks(it)
  BY DEF IInv, TypeOK, S2Break
<1>2. Len(hi) \in Nat /\ Len(hi) >= 1 /\ it = hi[1] /\ it \in Item
  BY <1>1
<1>3. it.uid = batch + Len(hi) /\ it.route \in Forwarded
  BY <1>1, <1>2 DEF IInv, ListShape, RoutesOK
<1>4. Undeliverable(it)
  <2>1. Dest(it) \in Ids /\ it.n \in Nat
    BY <1>2 DEF Item, Dest
  <2>2. CASE Lookup(Dest(it)) = None
    BY <1>1, <2>1, <2>2, LookupFinds DEF Undeliverable
  <2>3. CASE it.type = "MSG_NTF" /\ ~AesFits(it.n)
    BY <2>1, <2>3 DEF Undeliverable, AesFits, MAX_MSG, AES_IV_BYTES
  <2>4. QED
    BY <1>1, <1>3, <2>2, <2>3 DEF Breaks
<1>5. \A x : x \in L <=> \E i \in 1 .. Len(hi) :
              x = [item |-> hi[i], batch |-> batch, why |-> "break"]
  BY <1>1 DEF LostItems, Range
<1>6. /\ lost' = lost \cup L /\ hi' = <<>>
      /\ UNCHANGED <<s1pc, uid, s2pc, g_runnow, imd_fwd_lt, ipv4, t, sn, batch, sent>>
  BY DEF S2Break, s1vars
<1> HIDE DEF it, L
<1>7. \A i \in 1 .. Len(hi) : hi[i] \in Item /\ hi[i].uid = batch + Len(hi) - i + 1
  BY <1>1, ElementType DEF IInv, ListShape
<1>8. \A x \in L : /\ x \in Lost /\ x.batch = batch /\ x.why = "break"
                   /\ x.item.uid \in batch + 1 .. batch + Len(hi)
  <2>1. ASSUME NEW i \in 1 .. Len(hi)
        PROVE  hi[i].uid \in batch + 1 .. batch + Len(hi)
    BY <1>1, <1>2, <1>7
  <2>2. ASSUME NEW x \in L
        PROVE  /\ x \in Lost /\ x.batch = batch /\ x.why = "break"
               /\ x.item.uid \in batch + 1 .. batch + Len(hi)
    <3>1. PICK i \in 1 .. Len(hi) : x = [item |-> hi[i], batch |-> batch, why |-> "break"]
      BY <1>5
    <3>2. x.item = hi[i] /\ x.batch = batch /\ x.why = "break"
      BY <3>1
    <3>3. x \in Lost
      BY <1>1, <1>7, <3>1 DEF Lost
    <3>4. QED
      BY <2>1, <3>2, <3>3
  <2>3. QED
    BY <2>2
<1>9. /\ Taken' = Taken /\ Taken \in Int /\ Len(hi') = 0
      /\ batch + Len(hi) <= Taken
  BY <1>1, <1>6 DEF Taken, IInv, ListShape
<1>10. TypeOK'
  <2>1. lost' \in SUBSET Lost
    BY <1>1, <1>6, <1>8
  <2>2. QED
    BY <1>6, <2>1 DEF IInv, TypeOK
<1>11. ListShape' /\ RoutesOK'
  BY <1>1, <1>2, <1>6, <1>9 DEF IInv, ListShape, RoutesOK
<1>12. SentShape'
  BY <1>1, <1>2, <1>6, <1>9, Numbers DEF IInv, SentShape
<1>13. LostShape'
  <2>1. ASSUME NEW x \in lost
        PROVE  /\ 1 <= x.item.uid /\ x.item.uid <= Taken
               /\ x.why = "break" => x.batch < x.item.uid /\ x.batch <= batch
    BY DEF IInv, LostShape
  <2>2. ASSUME NEW x \in L
        PROVE  /\ 1 <= x.item.uid /\ x.item.uid <= Taken
               /\ x.batch < x.item.uid /\ x.batch <= batch
    BY <1>1, <1>2, <1>8, <1>9
  <2>3. \A x \in lost' : x.item.uid \in Int
    BY <1>1, <1>2, <1>6, <1>8, Numbers DEF IInv
  <2>4. QED
    BY <1>1, <1>6, <1>9, <2>1, <2>2, <2>3 DEF LostShape
<1>14. Settled'
  <2>1. \A u : WasSent(u)' <=> WasSent(u)
    BY <1>6 DEF WasSent
  <2>2. \A u : WasLost(u)' <=> WasLost(u) \/ \E x \in L : x.item.uid = u
    BY <1>6 DEF WasLost
  <2>3. ASSUME NEW u \in batch + 1 .. batch + Len(hi)
        PROVE  \E x \in L : x.item.uid = u
    <3> DEFINE i == batch + Len(hi) - u + 1
               x == [item |-> hi[i], batch |-> batch, why |-> "break"]
    <3>1. i \in 1 .. Len(hi) /\ batch + Len(hi) - i + 1 = u
      BY <1>1, <1>2
    <3>2. x \in L
      BY <1>5, <3>1
    <3>3. x.item.uid = u
      BY <1>7, <3>1
    <3>4. QED
      BY <3>2, <3>3
  <2>4. ASSUME NEW x \in L PROVE ~WasSent(x.item.uid)
    BY <1>1, <1>2, <1>8, Numbers DEF WasSent, IInv, SentShape
  <2>5. QED
    BY <1>6, <1>9, <2>1, <2>2, <2>3, <2>4 DEF IInv, Settled
<1>15. NoMisdelivery' /\ SendOrder'
  BY <1>6 DEF IInv, NoMisdelivery, SendOrder
<1>16. LossExplained'
  <2> DEFINE b == [item |-> it, batch |-> batch, why |-> "break"]
  <2>1. b \in L /\ b.why = "break" /\ b.batch = batch /\ Undeliverable(b.item) /\ b.item.uid = it.uid
    BY <1>2, <1>4, <1>5
  <2>2. \A i \in 1 .. Len(sent) : sent[i].batch = batch => sent[i].item.uid > it.uid
    BY <1>1, <1>2, <1>3, Numbers DEF IInv, SentShape
  <2>3. \A x \in L : b.item.uid >= x.item.uid
    BY <1>1, <1>2, <1>3, <1>8, <2>1
  <2> HIDE DEF b
  <2>4. ASSUME NEW x \in L
        PROVE  /\ b.why = "break" /\ b.batch = x.batch
               /\ Undeliverable(b.item) /\ b.item.uid >= x.item.uid
               /\ \A i \in DOMAIN sent : sent[i].batch = x.batch => sent[i].item.uid > b.item.uid
    BY <1>1, <1>8, <2>1, <2>2, <2>3
  <2>5. QED
    BY <1>6, <2>1, <2>4 DEF IInv, LossExplained
<1>17. QED
  BY <1>1, <1>6, <1>10, <1>11, <1>12, <1>13, <1>14, <1>15, <1>16 DEF IInv

\* Everything that was not settled is lost with the process.
LEMMA RestartIInv ==
  ASSUME IInv, Restart
  PROVE  IInv'
<1> DEFINE l == hi \o imd_fwd_lt
           L == LostItems(l, "restart")
<1>1. /\ uid \in Nat /\ imd_fwd_lt \in Seq(Item) /\ hi \in Seq(Item) /\ batch \in Nat
      /\ sent \in Seq(Sent) /\ lost \in SUBSET Lost
  BY DEF IInv, TypeOK
<1>2. /\ lost' = lost \cup L /\ hi' = <<>> /\ imd_fwd_lt' = <<>> /\ t' = None /\ sn' = 0
      /\ s1pc' = "recv" /\ s2pc' = "recv" /\ g_runnow' = 0
      /\ ipv4' = [id \in Registered |-> NoAddr]
      /\ UNCHANGED <<uid, batch, sent>>
  BY DEF Restart
<1>3. /\ Len(hi) \in Nat /\ Len(imd_fwd_lt) \in Nat
      /\ Len(imd_fwd_lt) <= uid /\ Taken \in Nat /\ Taken = uid - Len(imd_fwd_lt)
      /\ batch + Len(hi) <= Taken
  BY <1>1 DEF IInv, ListShape, Taken
<1>4. Len(hi') = 0 /\ Len(imd_fwd_lt') = 0 /\ Taken' = uid
  BY <1>1, <1>2 DEF Taken
<1>5. \A x : x \in L <=>
         \/ \E i \in 1 .. Len(hi) : x = [item |-> hi[i], batch |-> batch, why |-> "restart"]
         \/ \E i \in 1 .. Len(imd_fwd_lt) :
              x = [item |-> imd_fwd_lt[i], batch |-> batch, why |-> "restart"]
  <2>1. /\ Len(l) = Len(hi) + Len(imd_fwd_lt) /\ DOMAIN l = 1 .. Len(l)
        /\ \A i \in 1 .. Len(hi) : l[i] = hi[i]
        /\ \A i \in 1 .. Len(imd_fwd_lt) : l[Len(hi) + i] = imd_fwd_lt[i]
    BY <1>1
  <2>2. \A x : x \in L <=> \E i \in 1 .. Len(l) :
                 x = [item |-> l[i], batch |-> batch, why |-> "restart"]
    BY <2>1 DEF LostItems, Range
  <2> HIDE DEF l, L
  <2>3. \A i \in 1 .. Len(l) :
          \/ i \in 1 .. Len(hi)
          \/ i - Len(hi) \in 1 .. Len(imd_fwd_lt) /\ i = Len(hi) + (i - Len(hi))
    BY <1>3, <2>1
  <2>4. \A i \in 1 .. Len(hi) : i \in 1 .. Len(l)
    BY <1>3, <2>1
  <2>5. \A i \in 1 .. Len(imd_fwd_lt) : Len(hi) + i \in 1 .. Len(l)
    BY <1>3, <2>1
  <2> DEFINE rec(e) == [item |-> e, batch |-> batch, why |-> "restart"]
  <2> HIDE DEF rec
  <2>6. ASSUME NEW x
        PROVE  (\E i \in 1 .. Len(l) : x = rec(l[i])) <=>
               \/ \E i \in 1 .. Len(hi) : x = rec(hi[i])
               \/ \E i \in 1 .. Len(imd_fwd_lt) : x = rec(imd_fwd_lt[i])
    <3>1. ASSUME NEW i \in 1 .. Len(l), x = rec(l[i])
          PROVE  \/ \E j \in 1 .. Len(hi) : x = rec(hi[j])
                 \/ \E j \in 1 .. Len(imd_fwd_lt) : x = rec(imd_fwd_lt[j])
      BY <2>1, <2>3, <3>1
    <3>2. QED
      BY <2>1, <2>4, <2>5, <3>1
  <2>7. QED
    BY <2>2, <2>6 DEF rec
<1> HIDE DEF l, L
<1>6. /\ \A i \in 1 .. Len(hi) : hi[i] \in Item /\ hi[i].uid = batch + Len(hi) - i + 1
      /\ \A i \in 1 .. Len(imd_fwd_lt) : imd_fwd_lt[i] \in Item /\ imd_fwd_lt[i].uid = uid - i + 1
  BY <1>1, ElementType DEF IInv, ListShape
<1>7. ASSUME NEW x \in L
      PROVE  /\ x \in Lost /\ x.why = "restart"
             /\ x.item.uid \in batch + 1 .. batch + Len(hi) \/ x.item.uid \in Taken + 1 .. uid
  <2>1. CASE \E i \in 1 .. Len(hi) : x = [item |-> hi[i], batch |-> batch, why |-> "restart"]
    <3>1. PICK i \in 1 .. Len(hi) : x = [item |-> hi[i], batch |-> batch, why |-> "restart"]
      BY <2>1
    <3>2. x \in Lost /\ x.item = hi[i] /\ x.why = "restart"
      BY <1>1, <1>6, <3>1 DEF Lost
    <3>3. batch + Len(hi) - i + 1 \in batch + 1 .. batch + Len(hi)
      BY <1>1, <1>3
    <3>4. QED
      BY <1>6, <3>2, <3>3
  <2>2. CASE \E i \in 1 .. Len(imd_fwd_lt) :
               x = [item |-> imd_fwd_lt[i], batch |-> batch, why |-> "restart"]
    <3>1. PICK i \in 1 .. Len(imd_fwd_lt) :
               x = [item |-> imd_fwd_lt[i], batch |-> batch, why |-> "restart"]
      BY <2>2
    <3>2. x \in Lost /\ x.item = imd_fwd_lt[i] /\ x.why = "restart"
      BY <1>1, <1>6, <3>1 DEF Lost
    <3>3. uid - i + 1 \in Taken + 1 .. uid
      BY <1>1, <1>3
    <3>4. QED
      BY <1>6, <3>2, <3>3
  <2>3. QED
    BY <1>5, <2>1, <2>2
<1>8. TypeOK'
  BY <1>1, <1>2, <1>7 DEF IInv, TypeOK, S2PCs
<1>9. ListShape' /\ RoutesOK'
  BY <1>1, <1>2, <1>3, <1>4 DEF ListShape, RoutesOK
<1>10. SentShape'
  BY <1>1, <1>2, <1>3, <1>4, Numbers DEF IInv, SentShape
<1>11. LostShape'
  <2>1. ASSUME NEW x \in lost
        PROVE  /\ x.item.uid \in Nat /\ 1 <= x.item.uid /\ x.item.uid <= uid
               /\ x.why = "break" => x.batch < x.item.uid /\ x.batch <= batch
    BY <1>1, <1>3, Numbers DEF IInv, LostShape
  <2>2. ASSUME NEW x \in L
        PROVE  x.item.uid \in Nat /\ 1 <= x.item.uid /\ x.item.uid <= uid /\ x.why # "break"
    BY <1>1, <1>3, <1>7
  <2>3. QED
    BY <1>1, <1>2, <1>4, <2>1, <2>2 DEF LostShape
<1>12. Settled'
  <2>1. \A u : WasSent(u)' <=> WasSent(u)
    BY <1>2 DEF WasSent
  <2>2. \A u : WasLost(u)' <=> WasLost(u) \/ \E x \in L : x.item.uid = u
    BY <1>2 DEF WasLost
  <2>3. ASSUME NEW u \in batch + 1 .. batch + Len(hi)
        PROVE  \E x \in L : x.item.uid = u
    <3> DEFINE i == batch + Len(hi) - u + 1
               x == [item |-> hi[i], batch |-> batch, why |-> "restart"]
    <3>1. i \in 1 .. Len(hi) /\ batch + Len(hi) - i + 1 = u
      BY <1>1, <1>3
    <3>2. x \in L /\ x.item.uid = u
      BY <1>5, <1>6, <3>1
    <3>3. QED
      BY <3>2
  <2>4. ASSUME NEW u \in Taken + 1 .. uid
        PROVE  \E x \in L : x.item.uid = u
    <3> DEFINE i == uid - u + 1
               x == [item |-> imd_fwd_lt[i], batch |-> batch, why |-> "restart"]
    <3>1. i \in 1 .. Len(imd_fwd_lt) /\ uid - i + 1 = u
      BY <1>1, <1>3
    <3>2. x \in L /\ x.item.uid = u
      BY <1>5, <1>6, <3>1
    <3>3. QED
      BY <3>2
  <2>5. ASSUME NEW u, WasSent(u) PROVE u \in 1 .. Taken /\ u \notin batch + 1 .. batch + Len(hi)
    BY <2>5, SettledUids
  <2>6. ASSUME NEW x \in L PROVE ~WasSent(x.item.uid)
    BY <1>1, <1>3, <1>7, <2>5
  <2>7. \A u \in 1 .. uid : u \in 1 .. Taken \/ u \in Taken + 1 .. uid
    BY <1>1, <1>3
  <2>8. \A u \in 1 .. uid : WasSent(u)' \/ WasLost(u)'
    BY <2>1, <2>2, <2>3, <2>4, <2>7 DEF IInv, Settled
  <2>9. \A u \in 1 .. uid : ~(WasSent(u)' /\ WasLost(u)')
    BY <2>1, <2>2, <2>5, <2>6 DEF IInv, Settled
  <2>10. QED
    BY <1>2, <1>4, <2>8, <2>9 DEF Settled
<1>13. NoMisdelivery' /\ SendOrder'
  BY <1>2 DEF IInv, NoMisdelivery, SendOrder
<1>14. LossExplained'
  BY <1>2, <1>7 DEF IInv, LossExplained
<1>15. QED
  BY <1>2, <1>8, <1>9, <1>10, <1>11, <1>12, <1>13, <1>14 DEF IInv

\* The other steps of the two threads.
LEMMA OtherIInv ==
  ASSUME IInv,
         \/ S1Kill \/ S2RecvNone \/ S2Sleep \/ S2Wake \/ S2Bump \/ S2Done
         \/ \E id \in Ids, addr \in Addrs, ok \in BOOLEAN : S2Recv("MSG_TRA", id, addr, ok)
  PROVE  IInv'
<1>1. Quiet
  BY DEF Quiet, S1Kill, S2RecvNone, S2Sleep, S2Wake, S2Bump, S2Done, S2Recv, s1vars
<1>2. hi # <<>> => s2pc' = "walk"
  BY DEF IInv, ListShape, S1Kill, S2RecvNone, S2Sleep, S2Wake, S2Bump, S2Done, S2Recv
<1>3. TypeOK'
  <2>1. CASE S1Kill
    BY <2>1 DEF IInv, TypeOK, S2PCs, S1Kill, handler
  <2>2. CASE S2RecvNone \/ S2Sleep \/ S2Wake \/ S2Done
    BY <2>2 DEF IInv, TypeOK, S2PCs, S2RecvNone, S2Sleep, S2Wake, S2Done, s1vars
  <2>3. CASE S2Bump
    BY <2>3 DEF IInv, TypeOK, S2PCs, S2Bump, Bumped, s1vars
  <2>4. ASSUME NEW id \in Ids, NEW addr \in Addrs, NEW ok \in BOOLEAN,
               S2Recv("MSG_TRA", id, addr, ok)
        PROVE  TypeOK'
    <3>1. ipv4' \in [Registered -> Addrs \cup {NoAddr}]
      BY <2>4 DEF IInv, TypeOK, S2Recv, hl_track_msg
    <3>2. QED
      BY <2>4, <3>1 DEF IInv, TypeOK, S2PCs, S2Recv, s1vars
  <2>5. QED
    BY <2>1, <2>2, <2>3, <2>4
<1>4. QED
  BY <1>1, <1>2, <1>3, QuietIInv

\* IInv is inductive.
THEOREM NextIInv == IInv /\ [Next]_vars => IInv'
<1> SUFFICES ASSUME IInv, [Next]_vars PROVE IInv'
  OBVIOUS
<1>1. CASE \E d \in Requests : S1Recv(d)
  BY <1>1, S1RecvIInv
<1>2. CASE S2Take
  BY <1>2, S2TakeIInv
<1>3. CASE S2Send
  BY <1>3, S2SendIInv
<1>4. CASE S2Break
  BY <1>4, S2BreakIInv
<1>5. CASE Restart
  BY <1>5, RestartIInv
<1>6. CASE \/ S1Kill \/ S2RecvNone \/ S2Sleep \/ S2Wake \/ S2Bump \/ S2Done
           \/ \E id \in Ids, addr \in Addrs, ok \in BOOLEAN : S2Recv("MSG_TRA", id, addr, ok)
  BY <1>6, OtherIInv
<1>7. CASE UNCHANGED vars
  <2>1. Quiet /\ TypeOK' /\ (hi # <<>> => s2pc' = "walk")
    BY <1>7 DEF vars, Quiet, IInv, TypeOK, ListShape
  <2>2. QED
    BY <2>1, QuietIInv
<1>8. QED
  BY <1>1, <1>2, <1>3, <1>4, <1>5, <1>6, <1>7 DEF Next, S1, S2

THEOREM SpecIInv == Spec => []IInv
<1>1. Init => IInv
  BY InitIInv
<1>2. IInv /\ [Next]_vars => IInv'
  BY NextIInv
<1>3. QED
  BY <1>1, <1>2, PTL DEF Spec

(* The server never leaves its types, whatever arrives and whenever it is  *)
(* restarted (main and sending_routine_thread of server.c).  A request for *)
(* the key that overruns the buffer is among what arrives: it is queued as *)
(* the code computes it, or the process ends, which is a restart.          *)
THEOREM TypeCorrect == Spec => []TypeOK
<1>1. IInv => TypeOK
  BY DEF IInv
<1>2. QED
  BY <1>1, SpecIInv, PTL

(* No item is lost or doubled between S1 and S2 (add_to_item_list,         *)
(* send_to_dst): it is in one of the two lists, sent once, or dropped.     *)
THEOREM ExactlyOnceHolds == Spec => []ExactlyOnce
<1>1. ASSUME IInv PROVE ExactlyOnce
  <2>1. TypeOK /\ ListShape /\ SentShape /\ LostShape /\ Settled /\ SendOrder
    BY <1>1 DEF IInv
  <2>2. /\ imd_fwd_lt \in Seq(Item) /\ hi \in Seq(Item) /\ sent \in Seq(Sent)
        /\ Taken \in Nat /\ Taken = uid - Len(imd_fwd_lt) /\ batch + Len(hi) <= Taken
    BY <2>1, Numbers DEF TypeOK, Taken, ListShape
  <2>3. \A u : InList(imd_fwd_lt, u) <=> u \in Taken + 1 .. uid
    <3>1. ASSUME NEW u, InList(imd_fwd_lt, u) PROVE u \in Taken + 1 .. uid
      <4>1. PICK i \in 1 .. Len(imd_fwd_lt) : imd_fwd_lt[i].uid = u
        BY <2>2, <3>1 DEF InList
      <4>2. u = uid - i + 1
        BY <2>1, <4>1 DEF ListShape
      <4>3. QED
        BY <2>1, <2>2, <4>2, Numbers
    <3>2. ASSUME NEW u \in Taken + 1 .. uid PROVE InList(imd_fwd_lt, u)
      <4> DEFINE i == uid - u + 1
      <4>1. i \in 1 .. Len(imd_fwd_lt) /\ uid - i + 1 = u
        BY <2>1, <2>2, Numbers
      <4>2. imd_fwd_lt[i].uid = u
        BY <2>1, <4>1 DEF ListShape
      <4>3. QED
        BY <2>2, <4>1, <4>2 DEF InList
    <3>3. QED
      BY <3>1, <3>2
  <2>4. \A u : InList(hi, u) <=> u \in batch + 1 .. batch + Len(hi)
    <3>1. ASSUME NEW u, InList(hi, u) PROVE u \in batch + 1 .. batch + Len(hi)
      <4>1. PICK i \in 1 .. Len(hi) : hi[i].uid = u
        BY <2>2, <3>1 DEF InList
      <4>2. u = batch + Len(hi) - i + 1
        BY <2>1, <4>1 DEF ListShape
      <4>3. QED
        BY <2>1, <4>2, Numbers
    <3>2. ASSUME NEW u \in batch + 1 .. batch + Len(hi) PROVE InList(hi, u)
      <4> DEFINE i == batch + Len(hi) - u + 1
      <4>1. i \in 1 .. Len(hi) /\ batch + Len(hi) - i + 1 = u
        BY <2>1, Numbers
      <4>2. hi[i].uid = u
        BY <2>1, <4>1 DEF ListShape
      <4>3. QED
        BY <2>2, <4>1, <4>2 DEF InList
    <3>3. QED
      BY <3>1, <3>2
  <2>5. ASSUME NEW u, WasSent(u) PROVE u \in 1 .. Taken /\ u \notin batch + 1 .. batch + Len(hi)
    BY <1>1, <2>5, SettledUids
  <2>6. ASSUME NEW u, WasLost(u) PROVE u \in 1 .. Taken /\ u \notin batch + 1 .. batch + Len(hi)
    BY <1>1, <2>6, SettledUids
  <2>7. \A u \in 1 .. uid : u \in 1 .. Taken \/ u \in Taken + 1 .. uid
    BY <2>1, <2>2, Numbers
  <2>8. \A u \in Taken + 1 .. uid : u \notin 1 .. Taken /\ u \notin batch + 1 .. batch + Len(hi)
    BY <2>1, <2>2, Numbers
  <2>9. ASSUME NEW u \in 1 .. uid
        PROVE  /\ InList(imd_fwd_lt, u) \/ InList(hi, u) \/ WasSent(u) \/ WasLost(u)
               /\ ~(InList(imd_fwd_lt, u) /\ InList(hi, u))
               /\ InList(imd_fwd_lt, u) \/ InList(hi, u) => ~WasSent(u) /\ ~WasLost(u)
               /\ ~(WasSent(u) /\ WasLost(u))
    BY <2>1, <2>3, <2>4, <2>5, <2>6, <2>7, <2>8 DEF Settled
  <2>10. \A i, j \in 1 .. Len(sent) : sent[i].item.uid = sent[j].item.uid => i = j
    <3>1. ASSUME NEW i \in 1 .. Len(sent), NEW j \in 1 .. Len(sent), i < j
          PROVE  sent[i].item.uid # sent[j].item.uid
      <4>1. sent[i].item.uid \in Nat /\ sent[j].item.uid \in Nat
        BY <2>1, Numbers
      <4>2. sent[i].item.uid > sent[j].item.uid \/ sent[i].item.uid < sent[j].item.uid
        BY <2>1, <2>2, <3>1 DEF SendOrder
      <4>3. QED
        BY <4>1, <4>2
    <3>2. \A i, j \in 1 .. Len(sent) : i = j \/ i < j \/ j < i
      BY <2>1, Numbers
    <3>3. QED
      BY <3>1, <3>2
  <2>11. QED
    BY <2>2, <2>9, <2>10 DEF ExactlyOnce
<1>2. QED
  BY <1>1, SpecIInv, PTL

(* An item is only sent to the entry of its own destination (send_to_dst). *)
THEOREM NoMisdeliveryHolds == Spec => []NoMisdelivery
<1>1. IInv => NoMisdelivery
  BY DEF IInv
<1>2. QED
  BY <1>1, SpecIInv, PTL

(* Batches in order, each one from its newest item on (send_to_dst).       *)
THEOREM SendOrderHolds == Spec => []SendOrder
<1>1. IInv => SendOrder
  BY DEF IInv
<1>2. QED
  BY <1>1, SpecIInv, PTL

(* A running server drops an item only together with an undeliverable one  *)
(* that was queued after it (the breaks of send_to_dst).                   *)
THEOREM LossExplainedHolds == Spec => []LossExplained
<1>1. IInv => LossExplained
  BY DEF IInv
<1>2. QED
  BY <1>1, SpecIInv, PTL

(* S2 does not decide to sleep while items it was signalled for wait       *)
(* (handler and the test of g_runnow in server.c).                         *)
THEOREM NoIdleSleepHolds == Spec => NoIdleSleep
<1> DEFINE Act == s2pc' = "presleep" /\ s2pc # "presleep" => imd_fwd_lt = <<>> \/ s1pc = "kill"
<1>1. Init => WakeInv
  BY DEF Init, WakeInv
<1>2. ASSUME TypeOK, WakeInv, [Next]_vars PROVE WakeInv'
  <2>1. CASE \E d \in Requests : S1Recv(d)
    BY <2>1 DEF WakeInv, S1Recv
  <2>2. CASE S1Kill
    BY <2>2 DEF WakeInv, S1Kill, handler
  <2>3. CASE S2RecvNone \/ S2Sleep \/ S2Wake \/ S2Bump
    BY <2>3 DEF WakeInv, S2RecvNone, S2Sleep, S2Wake, S2Bump
  <2>4. CASE \E id \in Ids, addr \in Addrs, ok \in BOOLEAN : S2Recv("MSG_TRA", id, addr, ok)
    BY <2>4 DEF WakeInv, S2Recv
  <2>5. CASE S2Take \/ Restart
    BY <2>5 DEF WakeInv, S2Take, Restart
  <2>6. CASE S2Send \/ S2Break \/ S2Done
    BY <1>2, <2>6 DEF WakeInv, S2Send, S2Break, S2Done, s1vars
  <2>7. CASE UNCHANGED vars
    BY <1>2, <2>7 DEF WakeInv, vars
  <2>8. QED
    BY <1>2, <2>1, <2>2, <2>3, <2>4, <2>5, <2>6, <2>7 DEF Next, S1, S2
<1>3. ASSUME TypeOK, WakeInv, [Next]_vars PROVE [Act]_vars
  <2>1. CASE S2RecvNone
    BY <1>3, <2>1 DEF WakeInv, TypeOK, S2RecvNone
  <2>2. CASE Next /\ ~S2RecvNone
    <3>1. s2pc' = "presleep" => s2pc = "presleep"
      BY <2>2 DEF Next, S1, S2, S1Recv, S1Kill, S2Sleep, S2Wake, S2Bump, S2Recv, S2Take,
                  S2Send, S2Break, S2Done, Restart, s2vars
    <3>2. QED
      BY <3>1
  <2>3. QED
    BY <1>3, <2>1, <2>2
<1>4. QED
  BY <1>1, <1>2, <1>3, TypeCorrect, PTL DEF Spec, NoIdleSleep

-----------------------------------------------------------------------------
(* NotifyServer implements Forwarder.                                      *)

Waiting   == Range(imd_fwd_lt) \cup Range(hi)
Delivered == {<<sent[i].item, sent[i].to>> : i \in DOMAIN sent}
Dropped   == {x.item : x \in lost}

\* No item of the shared list is in S2's list, and none is twice in S2's list.
LEMMA DistinctItems ==
  ASSUME IInv
  PROVE  /\ Range(imd_fwd_lt) \cap Range(hi) = {}
         /\ \A i, j \in 1 .. Len(hi) : hi[i] = hi[j] => i = j
<1>1. imd_fwd_lt \in Seq(Item) /\ hi \in Seq(Item) /\ uid \in Nat /\ batch \in Nat
      /\ Len(imd_fwd_lt) \in Nat /\ Len(hi) \in Nat
  BY Numbers DEF IInv, TypeOK
<1>2. ASSUME NEW i \in 1 .. Len(imd_fwd_lt), NEW j \in 1 .. Len(hi)
      PROVE  imd_fwd_lt[i] # hi[j]
  <2>1. imd_fwd_lt[i].uid = uid - i + 1 /\ hi[j].uid = batch + Len(hi) - j + 1
        /\ batch + Len(hi) <= uid - Len(imd_fwd_lt)
    BY DEF IInv, ListShape, Taken
  <2>2. uid - i + 1 # batch + Len(hi) - j + 1
    BY <1>1, <2>1
  <2>3. QED
    BY <2>1, <2>2
<1>3. ASSUME NEW i \in 1 .. Len(hi), NEW j \in 1 .. Len(hi), hi[i] = hi[j]
      PROVE  i = j
  <2>1. hi[i].uid = batch + Len(hi) - i + 1 /\ hi[j].uid = batch + Len(hi) - j + 1
    BY DEF IInv, ListShape
  <2>2. batch + Len(hi) - i + 1 = batch + Len(hi) - j + 1
    BY <1>3, <2>1
  <2>3. QED
    BY <1>1, <2>2
<1>4. QED
  BY <1>1, <1>2, <1>3 DEF Range

LEMMA RefinesSend ==
  ASSUME IInv, S2Send
  PROVE  Fwd!Deliver
<1> DEFINE it == Head(hi)
           r  == [item |-> it, to |-> Lookup(Dest(it)), addr |-> ipv4[Lookup(Dest(it))],
                  body |-> Body(it), len |-> BodyLen(it), batch |-> batch]
<1>1. /\ imd_fwd_lt \in Seq(Item) /\ hi \in Seq(Item) /\ sent \in Seq(Sent)
      /\ t = None /\ hi # <<>> /\ ~Breaks(it)
  BY DEF IInv, TypeOK, S2Send
<1>2. /\ Len(hi) \in Nat /\ Len(hi) >= 1 /\ it = hi[1] /\ it \in Item
      /\ Tail(hi) \in Seq(Item) /\ Len(Tail(hi)) = Len(hi) - 1
      /\ \A i \in 1 .. Len(Tail(hi)) : Tail(hi)[i] = hi[i + 1]
  BY <1>1
<1>3. Dest(it) \in Ids
  BY <1>2 DEF Item, Dest
<1>4. Lookup(Dest(it)) = Dest(it)
  BY <1>1, <1>3, LookupFinds DEF Breaks
<1>5. r.item = it /\ r.to = Dest(it)
  BY <1>4
<1>6. sent' = Append(sent, r) /\ hi' = Tail(hi) /\ UNCHANGED <<uid, imd_fwd_lt, lost>>
  BY DEF S2Send, s1vars
<1> HIDE DEF it, r
<1>7. it \in Range(hi) /\ it \notin Range(imd_fwd_lt)
  BY <1>1, <1>2, DistinctItems DEF Range
<1>8. Range(hi') = Range(hi) \ {it}
  <2>1. \A i \in 1 .. Len(hi') : i + 1 \in 1 .. Len(hi) /\ i + 1 # 1 /\ hi'[i] = hi[i + 1]
    BY <1>2, <1>6
  <2>2. \A j \in 1 .. Len(hi) : j # 1 => j - 1 \in 1 .. Len(hi') /\ hi'[j - 1] = hi[j]
    BY <1>2, <1>6
  <2>3. Range(hi') \subseteq Range(hi) \ {it}
    BY <1>1, <1>2, <1>6, <2>1, DistinctItems DEF Range
  <2>4. ASSUME NEW y \in Range(hi) \ {it} PROVE y \in Range(hi')
    <3>1. PICK j \in 1 .. Len(hi) : y = hi[j]
      BY <1>1 DEF Range
    <3>2. j - 1 \in 1 .. Len(hi') /\ hi'[j - 1] = y
      BY <1>2, <2>2, <3>1
    <3>3. DOMAIN hi' = 1 .. Len(hi')
      BY <1>2, <1>6
    <3>4. QED
      BY <3>2, <3>3 DEF Range
  <2>5. QED
    BY <2>3, <2>4
<1>9. Waiting' = Waiting \ {it}
  BY <1>6, <1>7, <1>8 DEF Waiting
<1>10. Delivered' = Delivered \cup {<<it, Dest(it)>>}
  <2>1. /\ DOMAIN sent = 1 .. Len(sent) /\ DOMAIN sent' = 1 .. Len(sent) + 1 /\ Len(sent) \in Nat
        /\ \A i \in 1 .. Len(sent) : sent'[i] = sent[i]
        /\ sent'[Len(sent) + 1] = r
    BY <1>1, <1>6
  <2>2. 1 .. Len(sent) + 1 = (1 .. Len(sent)) \cup {Len(sent) + 1}
    BY <2>1
  <2>3. QED
    BY <1>5, <2>1, <2>2 DEF Delivered
<1>11. it \in Waiting /\ Dropped' = Dropped
  BY <1>6, <1>7 DEF Waiting, Dropped
<1>12. QED
  BY <1>6, <1>9, <1>10, <1>11 DEF Fwd!Deliver, Waiting, Delivered, Dropped

LEMMA RefinesLoss ==
  ASSUME IInv, S2Break \/ Restart
  PROVE  Fwd!Drop
<1>1. imd_fwd_lt \in Seq(Item) /\ hi \in Seq(Item)
  BY DEF IInv, TypeOK
<1>2. \A l, w : {x.item : x \in LostItems(l, w)} = Range(l)
  <2>1. ASSUME NEW l, NEW w, NEW e
        PROVE  e \in {x.item : x \in LostItems(l, w)} <=> e \in Range(l)
    <3>1. ASSUME NEW x \in LostItems(l, w) PROVE x.item \in Range(l)
      BY <3>1 DEF LostItems
    <3>2. ASSUME e \in Range(l) PROVE \E x \in LostItems(l, w) : x.item = e
      <4> DEFINE x == [item |-> e, batch |-> batch, why |-> w]
      <4>1. x \in LostItems(l, w) /\ x.item = e
        BY <3>2 DEF LostItems
      <4>2. QED
        BY <4>1
    <3>3. QED
      BY <3>1, <3>2
  <2>2. QED
    BY <2>1
<1>3. Range(<<>>) = {}
  BY DEF Range
<1>4. CASE S2Break
  <2>1. /\ lost' = lost \cup LostItems(hi, "break") /\ hi' = <<>>
        /\ UNCHANGED <<uid, imd_fwd_lt, sent>>
    BY <1>4 DEF S2Break, s1vars
  <2>2. Waiting' = Waiting \ Range(hi) /\ Range(hi) \in SUBSET Waiting
    BY <1>3, <2>1, DistinctItems DEF Waiting
  <2>3. Dropped' = Dropped \cup Range(hi)
    BY <1>2, <2>1 DEF Dropped
  <2>4. Delivered' = Delivered
    BY <2>1 DEF Delivered
  <2>5. QED
    BY <2>1, <2>2, <2>3, <2>4 DEF Fwd!Drop, Waiting, Delivered, Dropped
<1>5. CASE Restart
  <2>1. /\ lost' = lost \cup LostItems(hi \o imd_fwd_lt, "restart")
        /\ hi' = <<>> /\ imd_fwd_lt' = <<>> /\ UNCHANGED <<uid, sent>>
    BY <1>5 DEF Restart
  <2>2. Range(hi \o imd_fwd_lt) = Waiting
    BY <1>1, RangeConcat DEF Waiting
  <2>3. Waiting' = Waiting \ Waiting /\ Waiting \in SUBSET Waiting
    BY <1>3, <2>1 DEF Waiting
  <2>4. Dropped' = Dropped \cup Waiting
    BY <1>2, <2>1, <2>2 DEF Dropped
  <2>5. Delivered' = Delivered
    BY <2>1 DEF Delivered
  <2>6. QED
    BY <2>1, <2>3, <2>4, <2>5 DEF Fwd!Drop, Waiting, Delivered, Dropped
<1>6. QED
  BY <1>4, <1>5

LEMMA RefinesAccept ==
  ASSUME IInv, NEW d \in Requests, S1Recv(d)
  PROVE  Fwd!Accept
<1> DEFINE it == ItemOf(d, uid + 1)
<1>1. uid \in Nat /\ imd_fwd_lt \in Seq(Item)
  BY DEF IInv, TypeOK
<1>2. it \in Item /\ it.uid = uid + 1
  BY <1>1, ItemOfType DEF S1Recv
<1>3. imd_fwd_lt' = <<it>> \o imd_fwd_lt /\ uid' = uid + 1 /\ UNCHANGED <<hi, sent, lost>>
  BY DEF S1Recv, add_to_imd_fwd, s2vars
<1> HIDE DEF it
<1>4. Range(<<it>>) = {it} /\ <<it>> \in Seq(Item)
  BY <1>2 DEF Range
<1>5. Range(imd_fwd_lt') = {it} \cup Range(imd_fwd_lt)
  <2>1. Range(<<it>> \o imd_fwd_lt) = Range(<<it>>) \cup Range(imd_fwd_lt)
    <3>1. \A k \in Seq(Item) : Range(k \o imd_fwd_lt) = Range(k) \cup Range(imd_fwd_lt)
      BY <1>1, RangeConcat
    <3>2. QED
      BY <1>4, <3>1, Zenon
  <2>2. QED
    BY <1>3, <1>4, <2>1
<1>6. Waiting' = Waiting \cup {it}
  BY <1>3, <1>5 DEF Waiting
<1>7. Delivered' = Delivered /\ Dropped' = Dropped
  BY <1>3 DEF Delivered, Dropped
<1>8. QED
  BY <1>2, <1>3, <1>6, <1>7 DEF Fwd!Accept, Waiting, Delivered, Dropped, UidOf

(* Every step of the two threads, and every restart, is a step of the      *)
(* abstract forwarder or leaves it alone (add_to_item_list, send_to_dst).  *)
THEOREM Refinement == Spec => ImplementsForwarder
<1>1. Init => Fwd!Init
  BY DEF Init, Fwd!Init, Range
<1>2. ASSUME IInv, [Next]_vars PROVE [Fwd!Next]_(Fwd!fvars)
  <2>1. CASE \E d \in Requests : S1Recv(d)
    BY <1>2, <2>1, RefinesAccept DEF Fwd!Next
  <2>2. CASE S2Send
    BY <1>2, <2>2, RefinesSend DEF Fwd!Next
  <2>3. CASE S2Break \/ Restart
    BY <1>2, <2>3, RefinesLoss DEF Fwd!Next
  <2>4. CASE S2Take
    <3>1. hi = <<>> /\ hi' = imd_fwd_lt /\ imd_fwd_lt' = <<>> /\ UNCHANGED <<uid, sent, lost>>
      BY <1>2, <2>4 DEF IInv, ListShape, S2Take, s1vars
    <3>2. Waiting' = Waiting
      BY <3>1 DEF Waiting
    <3>3. QED
      BY <3>1, <3>2 DEF Fwd!fvars, Waiting
  <2>5. CASE \/ S1Kill \/ S2RecvNone \/ S2Sleep \/ S2Wake \/ S2Bump \/ S2Done
             \/ \E id \in Ids, addr \in Addrs, ok \in BOOLEAN : S2Recv("MSG_TRA", id, addr, ok)
    <3>1. UNCHANGED <<imd_fwd_lt, hi, uid, sent, lost>>
      BY <2>5 DEF S1Kill, S2RecvNone, S2Sleep, S2Wake, S2Bump, S2Done, S2Recv, s1vars
    <3>2. QED
      BY <3>1 DEF Fwd!fvars
  <2>6. CASE UNCHANGED vars
    BY <2>6 DEF vars, Fwd!fvars
  <2>7. QED
    BY <1>2, <2>1, <2>2, <2>3, <2>4, <2>5, <2>6 DEF Next, S1, S2
<1>3. QED
  BY <1>1, <1>2, SpecIInv, PTL DEF Spec, ImplementsForwarder, Fwd!Spec

=============================================================================
