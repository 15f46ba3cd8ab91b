------------------------ MODULE NotifySystem_proofs ------------------------
(* KeyPath and NoFalseConfirm hold for every set of registered and keyed   *)
(* ids, any number of rounds and restarts, and any loss, repetition or     *)
(* reordering of datagrams.  Both are inductive as they stand.  The list   *)
(* of bytes that grows (GenList) holds and returns what was added, for any *)
(* step, header, sizes and order of calls.                                 *)
EXTENDS NotifySystem, GenList, WellFoundedInduction, TLAPS

\* Receiving adds nothing to the network but what the receiver sends.
LEMMA ReceiveAdds ==
  ASSUME NEW m, NEW ms, Receive(m, ms)
  PROVE  m \in net /\ net' \subseteq net \cup ms
BY DEF Receive

\* What the receiving thread queues is the key for whoever asked, or a
\* notification or confirmation it could decrypt.
LEMMA QueuedKinds ==
  ASSUME NEW m, NEW it \in Queued(m)
  PROVE  \/ it.what = "key"
         \/ it.what = "MSG_NTF" /\ m.what = "MSG_NTF"
         \/ it.what = "confirmation" /\ m.what = "confirmation"
<1>1. CASE m.what = "MSG_GET_AES"
  BY <1>1 DEF Queued
<1>2. CASE m.what = "MSG_NTF"
  BY <1>2 DEF Queued
<1>3. CASE m.what = "confirmation"
  BY <1>3 DEF Queued
<1>4. CASE m.what \notin {"MSG_GET_AES", "MSG_NTF", "confirmation"}
  BY <1>4 DEF Queued
<1> QED
  BY <1>1, <1>2, <1>3, <1>4

\* What the sending thread sends is the item itself, or zeroes instead of a key.
LEMMA BodyKinds ==
  ASSUME NEW it, NEW m \in Body(it)
  PROVE  /\ m.to = it.to
         /\ m.what \in {it.what, "zeros"}
         /\ m.what = "key" => m.enc = "rsa" /\ it.to \in keys
BY DEF Body, Packet

\* The programs that run and the server's table do not change.
LEMMA TableStays == [Next]_vars => Registered' = Registered
<1> SUFFICES ASSUME [Next]_vars PROVE scene' = scene
  BY DEF Registered
<1>1. ASSUME NEW m \in net, Recv(m) \/ Lose(m)
      PROVE  scene' = scene
  BY <1>1 DEF Recv, CRecv, NRecv, S1Recv, S2Recv, Lose, svars
<1>2. CASE CTick \/ NTick \/ S2 \/ Restart
  BY <1>2 DEF CTick, NTick, S2, S2Send, S2Break, Restart, svars
<1>3. ASSUME NEW id \in Ids, Install(id)
      PROVE  scene' = scene
  BY <1>3 DEF Install
<1>4. CASE UNCHANGED vars
  BY <1>4 DEF vars, svars
<1> QED
  BY <1>1, <1>2, <1>3, <1>4 DEF Next

-----------------------------------------------------------------------------

\* A confirmation exists only once the device has decrypted a notification.
THEOREM NoFalseConfirmHolds == Spec => []NoFalseConfirm
<1>1. Init => NoFalseConfirm
  BY DEF Init, NoFalseConfirm
<1>2. NoFalseConfirm /\ [Next]_vars => NoFalseConfirm'
  <2> SUFFICES ASSUME NoFalseConfirm, [Next]_vars
               PROVE  NoFalseConfirm'
    OBVIOUS
  <2> USE DEF NoFalseConfirm, Confirms
  <2>1. CASE CTick
    BY <2>1 DEF CTick, send_msg_track, cmd_2_srv, Packet, cvars, nvars, svars
  <2>2. CASE NTick
    <3>1. /\ cgot' = cgot /\ seen' = seen /\ confirmed' = confirmed /\ ngot' = ngot
          /\ queue' = queue /\ keys' = keys
      BY <2>2 DEF NTick, cvars, svars
    <3>2. net' \subseteq net \cup {send_msg_track(Ntf, ngot), cmd_2_srv(Ntf)}
                          \cup (IF ngot THEN {notifier} ELSE {})
      <4>1. CASE gives_up
        BY <2>2, <4>1 DEF NTick
      <4>2. CASE ~gives_up
        BY <2>2, <4>2 DEF NTick
      <4> QED
        BY <4>1, <4>2
    <3> QED
      BY <3>1, <3>2 DEF notifier, send_msg_track, cmd_2_srv, Packet
  <2>3. ASSUME NEW m \in net, CRecv(m)
        PROVE  NoFalseConfirm'
    <3>0. confirmed' = confirmed /\ queue' = queue
      BY <2>3 DEF CRecv, nvars, svars
    <3>1. CASE m.what = "MSG_NTF" /\ cgot
      BY <2>3, <3>1 DEF CRecv, nvars, svars, cvars
    <3>2. CASE ~(m.what = "MSG_NTF" /\ cgot)
      <4>1. seen' = seen
        BY <2>3, <3>2 DEF CRecv, cvars
      <4>2. Receive(m, {}) \/ (Receive(m, {send_msg_fb(m)}) /\ m.what = "zeros")
        BY <2>3, <3>2 DEF CRecv
      <4>3. ASSUME NEW x \in net', Confirms(x)
            PROVE  x \in net
        BY <4>2, <4>3, ReceiveAdds DEF send_msg_fb, Packet
      <4> QED
        BY <3>0, <4>1, <4>3
    <3> QED
      BY <3>1, <3>2
  <2>4. ASSUME NEW m \in net, NRecv(m)
        PROVE  NoFalseConfirm'
    <3>0. seen' = seen /\ queue' = queue
      BY <2>4 DEF NRecv, cvars, svars
    <3>1. ASSUME NEW x \in net', Confirms(x)
          PROVE  x \in net
      <4>1. Receive(m, {}) \/ Receive(m, {notifier})
        BY <2>4 DEF NRecv
      <4> QED
        BY <4>1, <3>1, ReceiveAdds DEF notifier, Packet
    <3>2. confirmed' => confirmed \/ m.what = "confirmation"
      BY <2>4 DEF NRecv
    <3> QED
      BY <3>0, <3>1, <3>2
  <2>5. ASSUME NEW m \in net, S1Recv(m)
        PROVE  NoFalseConfirm'
    <3>0. seen' = seen /\ confirmed' = confirmed /\ queue' = queue \cup Queued(m)
      BY <2>5 DEF S1Recv, cvars, nvars
    <3>1. net' \subseteq net
      BY <2>5, ReceiveAdds DEF S1Recv
    <3>2. ASSUME NEW it \in Queued(m), Confirms(it)
          PROVE  Confirms(m)
      BY <3>2, QueuedKinds
    <3> QED
      BY <3>0, <3>1, <3>2
  <2>6. ASSUME NEW m \in net, S2Recv(m)
        PROVE  NoFalseConfirm'
    <3>1. net' \subseteq net
      BY <2>6, ReceiveAdds DEF S2Recv
    <3> QED
      BY <2>6, <3>1 DEF S2Recv, cvars, nvars
  <2>7. ASSUME NEW it \in queue, S2Send(it)
        PROVE  NoFalseConfirm'
    <3>1. net' \subseteq net \cup Body(it) /\ queue' \subseteq queue
      BY <2>7 DEF S2Send
    <3>2. ASSUME NEW x \in Body(it), Confirms(x)
          PROVE  Confirms(it)
      BY <3>2, BodyKinds
    <3> QED
      BY <2>7, <3>1, <3>2 DEF S2Send, cvars, nvars
  <2>8. ASSUME NEW it \in queue, S2Break(it)
        PROVE  NoFalseConfirm'
    BY <2>8 DEF S2Break, cvars, nvars
  <2>9. ASSUME NEW m \in net, Lose(m)
        PROVE  NoFalseConfirm'
    BY <2>9 DEF Lose, cvars, nvars, svars
  <2>10. CASE Restart
    BY <2>10 DEF Restart, cvars, nvars
  <2>11. ASSUME NEW id \in Ids, Install(id)
         PROVE  NoFalseConfirm'
    BY <2>11 DEF Install, cvars, nvars
  <2>12. CASE UNCHANGED vars
    BY <2>12 DEF vars, cvars, nvars, svars
  <2> QED
    BY <2>1, <2>2, <2>3, <2>4, <2>5, <2>6, <2>7, <2>8, <2>9, <2>10, <2>11, <2>12
       DEF Next, Recv, S2
<1> QED
  BY <1>1, <1>2, PTL DEF Spec

-----------------------------------------------------------------------------

\* The AES key travels only under the public key of a registered receiver, and
\* notifications exist only once the notifier has it.
THEOREM KeyPathHolds == Spec => []KeyPath
<1>1. Init => KeyPath
  BY DEF Init, KeyPath
<1>2. KeyPath /\ [Next]_vars => KeyPath'
  <2> SUFFICES ASSUME KeyPath, [Next]_vars
               PROVE  KeyPath'
    OBVIOUS
  <2> Registered' = Registered
    BY TableStays
  <2> USE DEF KeyPath
  <2>1. CASE CTick
    BY <2>1 DEF CTick, send_msg_track, cmd_2_srv, Packet, cvars, nvars, svars
  <2>2. CASE NTick
    <3>1. /\ cgot' = cgot /\ seen' = seen /\ confirmed' = confirmed /\ ngot' = ngot
          /\ queue' = queue /\ keys' = keys
      BY <2>2 DEF NTick, cvars, svars
    <3>2. net' \subseteq net \cup {send_msg_track(Ntf, ngot), cmd_2_srv(Ntf)}
                          \cup (IF ngot THEN {notifier} ELSE {})
      <4>1. CASE gives_up
        BY <2>2, <4>1 DEF NTick
      <4>2. CASE ~gives_up
        BY <2>2, <4>2 DEF NTick
      <4> QED
        BY <4>1, <4>2
    <3> QED
      BY <3>1, <3>2 DEF notifier, send_msg_track, cmd_2_srv, Packet
  <2>3. ASSUME NEW m \in net, CRecv(m)
        PROVE  KeyPath'
    <3>0. ngot' = ngot /\ queue' = queue /\ keys' = keys
      BY <2>3 DEF CRecv, nvars, svars
    <3>1. ASSUME NEW x \in net'
          PROVE  x \in net \/ x.what \in {"confirmation", "MSG_REG"}
      <4>1. Receive(m, {}) \/ Receive(m, {send_msg_fb(m)})
        BY <2>3 DEF CRecv
      <4> QED
        BY <4>1, <3>1, ReceiveAdds DEF send_msg_fb, Packet
    <3>2. cgot' => cgot \/ (m.what = "key" /\ m.to = Dev)
      BY <2>3 DEF CRecv, cvars
    <3>3. seen' => seen \/ m.what = "MSG_NTF"
      BY <2>3 DEF CRecv, cvars
    <3> QED
      BY <3>0, <3>1, <3>2, <3>3
  <2>4. ASSUME NEW m \in net, NRecv(m)
        PROVE  KeyPath'
    <3>0. cgot' = cgot /\ seen' = seen /\ queue' = queue /\ keys' = keys
      BY <2>4 DEF NRecv, cvars, svars
    <3>1. ASSUME NEW x \in net'
          PROVE  x \in net \/ (x.what = "MSG_NTF" /\ ngot')
      <4>1. Receive(m, {}) \/ (Receive(m, {notifier}) /\ ngot')
        BY <2>4 DEF NRecv
      <4> QED
        BY <4>1, <3>1, ReceiveAdds DEF notifier, Packet
    <3>2. ngot' => ngot \/ (m.what = "key" /\ m.to = Ntf)
      BY <2>4 DEF NRecv
    <3>3. ngot => ngot'
      BY <2>4 DEF NRecv
    <3> QED
      BY <3>0, <3>1, <3>2, <3>3
  <2>5. ASSUME NEW m \in net, S1Recv(m)
        PROVE  KeyPath'
    <3>0. /\ cgot' = cgot /\ seen' = seen /\ ngot' = ngot /\ keys' = keys
          /\ queue' = queue \cup Queued(m)
      BY <2>5 DEF S1Recv, cvars, nvars
    <3>1. net' \subseteq net
      BY <2>5, ReceiveAdds DEF S1Recv
    <3>2. ASSUME NEW it \in Queued(m), it.what = "MSG_NTF"
          PROVE  m.what = "MSG_NTF"
      BY <3>2, QueuedKinds
    <3> QED
      BY <3>0, <3>1, <3>2
  <2>6. ASSUME NEW m \in net, S2Recv(m)
        PROVE  KeyPath'
    <3>1. net' \subseteq net
      BY <2>6, ReceiveAdds DEF S2Recv
    <3> QED
      BY <2>6, <3>1 DEF S2Recv, cvars, nvars
  <2>7. ASSUME NEW it \in queue, S2Send(it)
        PROVE  KeyPath'
    <3>1. /\ net' \subseteq net \cup Body(it)
          /\ queue' \subseteq queue /\ it.to \in Registered
      BY <2>7 DEF S2Send
    <3>2. ASSUME NEW x \in Body(it)
          PROVE  /\ x.what = "key" => x.enc = "rsa" /\ x.to \in keys \cap Registered
                 /\ x.what = "MSG_NTF" => it.what = "MSG_NTF"
      BY <3>1, <3>2, BodyKinds
    <3>3. cgot' = cgot /\ seen' = seen /\ ngot' = ngot /\ keys' = keys
      BY <2>7 DEF S2Send, cvars, nvars
    <3> QED
      BY <3>1, <3>2, <3>3
  <2>8. ASSUME NEW it \in queue, S2Break(it)
        PROVE  KeyPath'
    BY <2>8 DEF S2Break, cvars, nvars
  <2>9. ASSUME NEW m \in net, Lose(m)
        PROVE  KeyPath'
    BY <2>9 DEF Lose, cvars, nvars, svars
  <2>10. CASE Restart
    BY <2>10 DEF Restart, cvars, nvars
  <2>11. ASSUME NEW id \in Ids, Install(id)
         PROVE  KeyPath'
    BY <2>11 DEF Install, cvars, nvars
  <2>12. CASE UNCHANGED vars
    BY <2>12 DEF vars, cvars, nvars, svars
  <2> QED
    BY <2>1, <2>2, <2>3, <2>4, <2>5, <2>6, <2>7, <2>8, <2>9, <2>10, <2>11, <2>12
       DEF Next, Recv, S2
<1> QED
  BY <1>1, <1>2, PTL DEF Spec

-----------------------------------------------------------------------------
(* The growing list of gen_list.c, for any size of block, header and items *)
(* and any number of threads that take from it.                            *)

\* Every set of numbers that is not empty has a least one.
LEMMA NatMin ==
  ASSUME NEW T, T \subseteq Nat, T # {}
  PROVE  \E x \in T : \A y \in T : x <= y
<1>1. PICK x \in T : \A y \in T : ~(<<y, x>> \in OpToRel(<, Nat))
  BY WFMin, NatLessThanWellFounded
<1>2. ASSUME NEW y \in T PROVE x <= y
  <2>1. x \in Nat /\ y \in Nat
    OBVIOUS
  <2>2. ~(<<y, x>> \in {ss \in Nat \X Nat : ss[1] < ss[2]})
    BY <1>1 DEF OpToRel
  <2>3. ~(y < x)
    BY <2>1, <2>2
  <2> QED
    BY <2>1, <2>3
<1> QED
  BY <1>2

\* f[k] is the size of the first k of n items.
SumOf(f, s, n) == f = [k \in 0 .. n |-> IF k = 0 THEN 0 ELSE f[k - 1] + s[k][2]]

LEMMA SumExists == ASSUME NEW s, NEW n \in Nat PROVE \E f : SumOf(f, s, n)
<1> DEFINE T == {m \in Nat : ~ \E f : SumOf(f, s, m)}
<1> SUFFICES ASSUME T # {} PROVE FALSE
  OBVIOUS
<1>1. PICK m \in T : \A y \in T : m <= y
  BY NatMin
<1>2. CASE m = 0
  <2>1. SumOf([k \in 0 .. 0 |-> 0], s, 0)
    BY DEF SumOf
  <2> QED
    BY <1>2, <2>1
<1>3. CASE m # 0
  <2>1. m - 1 \in Nat /\ m - 1 \notin T
    BY <1>1, <1>3
  <2>2. PICK g : SumOf(g, s, m - 1)
    BY <2>1
  <2> DEFINE f == [k \in 0 .. m |-> IF k < m THEN g[k] ELSE g[m - 1] + s[m][2]]
  <2>3. ASSUME NEW k \in 0 .. m
        PROVE  f[k] = IF k = 0 THEN 0 ELSE f[k - 1] + s[k][2]
    <3>1. CASE k = m
      BY <1>3, <3>1
    <3>2. CASE k < m
      <4>1. k \in 0 .. m - 1
        BY <3>2
      <4>2. g[k] = IF k = 0 THEN 0 ELSE g[k - 1] + s[k][2]
        BY <2>2, <4>1 DEF SumOf
      <4>3. k # 0 => f[k - 1] = g[k - 1]
        BY <3>2
      <4> QED
        BY <3>2, <4>2, <4>3
    <3> QED
      BY <3>1, <3>2
  <2>4. SumOf(f, s, m)
    BY <2>3 DEF SumOf
  <2> QED
    BY <2>4
<1> QED
  BY <1>2, <1>3

LEMMA SumUnique ==
  ASSUME NEW s, NEW z, NEW n \in Nat, NEW f, NEW g, SumOf(f, s, n), SumOf(g, z, n),
         \A k \in 1 .. n : s[k] = z[k]
  PROVE  f = g
<1> DEFINE T == {k \in 0 .. n : f[k] # g[k]}
<1>1. f = [k \in 0 .. n |-> f[k]] /\ g = [k \in 0 .. n |-> g[k]]
  BY DEF SumOf
<1>2. SUFFICES ASSUME T # {} PROVE FALSE
  BY <1>1
<1>3. PICK m \in T : \A y \in T : m <= y
  <2>1. T \subseteq Nat
    OBVIOUS
  <2> QED
    BY <1>2, <2>1, NatMin
<1>4. /\ f[m] = IF m = 0 THEN 0 ELSE f[m - 1] + s[m][2]
      /\ g[m] = IF m = 0 THEN 0 ELSE g[m - 1] + z[m][2]
  BY <1>3 DEF SumOf
<1>5. m # 0 => m - 1 \in 0 .. n /\ m - 1 \notin T /\ s[m] = z[m]
  BY <1>3
<1> QED
  BY <1>3, <1>4, <1>5

LEMMA BytesIs == ASSUME NEW s, Len(s) \in Nat PROVE \E f : SumOf(f, s, Len(s)) /\ Bytes(s) = f[Len(s)]
<1> DEFINE f == CHOOSE f : SumOf(f, s, Len(s))
<1>1. SumOf(f, s, Len(s))
  BY SumExists
<1>2. Bytes(s) = f[Len(s)]
  BY DEF Bytes, SumOf
<1> QED
  BY <1>1, <1>2

LEMMA BytesEmpty == Bytes(<<>>) = 0
<1>1. PICK f : SumOf(f, <<>>, 0) /\ Bytes(<<>>) = f[0]
  <2>1. Len(<<>>) = 0
    OBVIOUS
  <2> QED
    BY <2>1, BytesIs
<1> QED
  BY <1>1 DEF SumOf

LEMMA BytesAppend ==
  ASSUME NEW S, NEW s \in Seq(S), NEW e \in S
  PROVE  Bytes(Append(s, e)) = Bytes(s) + e[2]
<1> DEFINE n == Len(s)
           z == Append(s, e)
<1>1. n \in Nat /\ Len(z) = n + 1 /\ z[n + 1] = e /\ \A k \in 1 .. n : z[k] = s[k]
  OBVIOUS
<1>2. PICK f : SumOf(f, s, n) /\ Bytes(s) = f[n]
  BY <1>1, BytesIs
<1>3. PICK g : SumOf(g, z, n + 1) /\ Bytes(z) = g[n + 1]
  <2>1. Len(z) \in Nat
    BY <1>1
  <2>2. \E g : SumOf(g, z, Len(z)) /\ Bytes(z) = g[Len(z)]
    BY <2>1, BytesIs
  <2> QED
    BY <1>1, <2>2
<1> DEFINE h == [k \in 0 .. n |-> g[k]]
<1>4. ASSUME NEW k \in 0 .. n
      PROVE  h[k] = IF k = 0 THEN 0 ELSE h[k - 1] + z[k][2]
  <2>1. k \in 0 .. n + 1
    BY <1>1
  <2>2. g[k] = IF k = 0 THEN 0 ELSE g[k - 1] + z[k][2]
    BY <1>3, <2>1 DEF SumOf
  <2> QED
    BY <1>1, <2>2
<1>5. SumOf(h, z, n)
  BY <1>4 DEF SumOf
<1>6. h = f
  BY <1>1, <1>2, <1>5, SumUnique
<1>7. g[n + 1] = g[n] + e[2]
  <2>1. g[n + 1] = IF n + 1 = 0 THEN 0 ELSE g[n + 1 - 1] + z[n + 1][2]
    BY <1>1, <1>3 DEF SumOf
  <2> QED
    BY <1>1, <2>1
<1>8. g[n] = f[n]
  BY <1>1, <1>6
<1> QED
  BY <1>2, <1>3, <1>7, <1>8

\* What the loop over GEN_LIST_STEP arrives at.
LEMMA GrownFits ==
  ASSUME NEW size \in Nat, NEW n \in Nat, size % Step = 0
  PROVE  /\ Grown(size, n) \in Nat /\ Grown(size, n) % Step = 0
         /\ Grown(size, n) >= n + 1 /\ Grown(size, n) >= size
         /\ n + 1 > size => Grown(size, n) > size
<1> USE GenListAssumption DEF Grown
<1>1. CASE ~(n + 1 > size)
  BY <1>1
<1>2. CASE n + 1 > size
  <2> DEFINE a == n - size
             q == (a \div Step) + 1
  <2>1. a \in Nat /\ Step \in Nat \ {0}
    BY <1>2
  <2>2. a \div Step \in Nat /\ a < Step * ((a \div Step) + 1)
    BY <2>1, Z3
  <2>3. q \in Nat /\ a < Step * q
    BY <2>2
  <2> HIDE DEF q
  <2>4. Step * q \in Nat
    BY <2>1, <2>3
  <2>5. (size + Step * q) % Step = 0
    <3>1. PICK r \in Nat : size = r * Step
      <4>1. size = Step * (size \div Step) + (size % Step) /\ size \div Step \in Nat
        BY <2>1, Z3
      <4>2. size = (size \div Step) * Step
        BY <2>1, <4>1
      <4> QED
        BY <4>1, <4>2
    <3>2. size + Step * q = (r + q) * Step
      BY <2>1, <2>3, <3>1
    <3>3. ((r + q) * Step) % Step = 0
      <4>1. r + q \in Nat
        BY <2>3
      <4> QED
        BY <2>1, <4>1, Z3
    <3> QED
      BY <3>2, <3>3
  <2>6. Grown(size, n) = size + Step * q
    BY <1>2 DEF q
  <2> QED
    BY <1>2, <2>3, <2>4, <2>5, <2>6
<1> QED
  BY <1>1, <1>2

LEMMA AppendAfter ==
  ASSUME NEW S, NEW s \in Seq(S), NEW z \in Seq(S), NEW e \in S
  PROVE  s \o Append(z, e) = Append(s \o z, e)
OBVIOUS

\* What the conversion to int keeps: a count below INT_MAX as it is, and a larger
\* one is lost in part only from 2^32 on.
LEMMA AsIntKeeps ==
  ASSUME NEW u \in Nat
  PROVE  /\ u < IntMax => AsInt(u) = u
         /\ AsInt(u) > 0 /\ AsInt(u) # u => u > 2 * (IntMax + 1)
<1> DEFINE W == 2 * (IntMax + 1)
<1>1. W \in Nat \ {0} /\ IntMax \in Nat /\ IntMax < W
  BY GenListAssumption
<1> HIDE DEF W
<1>2. u < W => u % W = u
  BY <1>1, Z3
<1>3. W % W = 0
  BY <1>1, Z3
<1>4. AsInt(u) = IF u % W > IntMax THEN (u % W) - W ELSE u % W
  BY DEF AsInt, W
<1>5. u < IntMax => AsInt(u) = u
  BY <1>1, <1>2, <1>4
<1>6. AsInt(u) > 0 /\ AsInt(u) # u => u > W
  <2>1. CASE u < W
    BY <2>1, <1>1, <1>2, <1>4
  <2>2. CASE u = W
    BY <2>2, <1>1, <1>3, <1>4
  <2> QED
    BY <2>1, <2>2, <1>1
<1> QED
  BY <1>5, <1>6 DEF W

Pieces == Nat \X Int

GTypes ==
  /\ list \in Nat /\ total \in Nat /\ used_data \in Nat /\ adds \in Nat
  /\ data \in Seq(Pieces) /\ added \in Seq(Pieces)
  /\ ~wrapped => taken \in Seq(Pieces)
  /\ p \in [Takers -> Nat]

\* A block that is not the first has grown, and a p was that of a block.
GBlocks ==
  /\ list = 0 => total = 0 /\ used_data = 0
  /\ list # 0 => total >= Step /\ used_data + Header + 1 <= total
  /\ list > 1 => total > Step
  /\ \A t \in Takers : p[t] <= list
  /\ freed => total > Step
  /\ wrapped => total > 2 * (IntMax + 1)
  /\ dead => used_data >= IntMax

GInv ==
  /\ GTypes /\ GBlocks
  /\ total % Step = 0 /\ used_data = Bytes(data)
  /\ ~freed /\ ~wrapped => taken \o data = added

LEMMA GInitInv == ListInit => GInv
<1> SUFFICES ASSUME ListInit PROVE GInv
  OBVIOUS
<1>1. <<>> \in Seq(Pieces) /\ <<>> \o <<>> = <<>>
  OBVIOUS
<1>2. 0 % Step = 0
  <2>1. Step \in Nat \ {0}
    BY GenListAssumption
  <2> QED
    BY <2>1, Z3
<1> QED
  BY <1>1, <1>2, BytesEmpty DEF ListInit, GInv, GTypes, GBlocks

LEMMA GStepInv == GInv /\ [ListNext]_listVars => GInv'
<1> SUFFICES ASSUME GInv, [ListNext]_listVars PROVE GInv'
  OBVIOUS
<1>0. GTypes /\ GBlocks
  BY DEF GInv
<1>1. ASSUME NEW sz \in Sizes, Refuse(sz) PROVE GInv'
  <2>1. UNCHANGED <<list, total, used_data, data, p, dead, freed, wrapped, added, taken>>
    BY <1>1 DEF Refuse, block, ghosts
  <2>2. adds' = adds + 1
    BY <1>1 DEF Refuse
  <2> QED
    BY <2>1, <2>2 DEF GInv, GTypes, GBlocks
<1>2. ASSUME NEW sz \in Sizes, ~dead, add_item_traffic(sz) PROVE GInv'
  <2> DEFINE at == IF list = 0 THEN 1 ELSE list
             size == IF list = 0 THEN Step ELSE total
             n == used_data + Header + sz
             e == <<adds', sz>>
  <2>1. /\ sz \in Nat /\ sz >= 1 /\ Step \in Nat \ {0} /\ Header \in Nat
        /\ adds' = adds + 1 /\ e \in Pieces
    <3>1. sz \in Int /\ Step \in Nat \ {0} /\ Header \in Nat
      BY GenListAssumption
    <3>2. sz >= 1 /\ adds' = adds + 1
      BY <1>2 DEF add_item_traffic
    <3>3. adds \in Nat
      BY DEF GInv, GTypes
    <3> QED
      BY <3>1, <3>2, <3>3 DEF Pieces
  <2>2. size \in Nat /\ n \in Nat /\ at \in Nat /\ size >= Step
    BY <1>0, <2>1 DEF GTypes, GBlocks
  <2>3. size % Step = 0
    <3>1. Step % Step = 0
      BY <2>1, Z3
    <3> QED
      BY <3>1 DEF GInv
  <2>4. /\ total' = Grown(size, n)
        /\ list' \in IF n + 1 > size THEN {at, at + 1} ELSE {at}
        /\ used_data' = used_data + sz /\ data' = Append(data, e)
        /\ added' = Append(added, e) /\ taken' = taken /\ freed' = freed
        /\ p' = p /\ wrapped' = wrapped /\ dead' = dead
    BY <1>2 DEF add_item_traffic, ghosts
  <2> HIDE DEF e, n, size, at
  <2>5. /\ total' \in Nat /\ total' % Step = 0 /\ total' >= n + 1 /\ total' >= size
        /\ n + 1 > size => total' > size
    BY <2>2, <2>3, <2>4, GrownFits
  <2>6. GTypes'
    <3>1. list' \in Nat /\ used_data' \in Nat /\ adds' \in Nat
      BY <1>0, <2>1, <2>2, <2>4 DEF GTypes
    <3>2. data' \in Seq(Pieces) /\ added' \in Seq(Pieces)
      BY <2>1, <2>4 DEF GInv, GTypes
    <3> QED
      BY <2>4, <2>5, <3>1, <3>2 DEF GInv, GTypes
  <2>7. GBlocks'
    <3>1. list' >= 1 /\ list' >= list /\ used_data' + Header + 1 <= total'
      BY <1>0, <2>1, <2>2, <2>4, <2>5 DEF GTypes, at, n
    <3>2. /\ total' >= Step /\ (freed => total' > Step)
          /\ wrapped => total' > 2 * (IntMax + 1)
      BY <1>0, <2>1, <2>2, <2>5, GenListAssumption DEF GBlocks, GTypes, size
    <3>3. list' > 1 => total' > Step
      BY <1>0, <2>1, <2>2, <2>4, <2>5 DEF GBlocks, GTypes, at, size
    <3>4. \A t \in Takers : p'[t] <= list'
      BY <1>0, <2>2, <2>4, <2>6, <3>1 DEF GBlocks, GTypes
    <3> QED
      BY <1>2, <2>4, <2>6, <3>1, <3>2, <3>3, <3>4 DEF GBlocks, GTypes
  <2>8. used_data' = Bytes(data')
    <3>1. Bytes(Append(data, e)) = Bytes(data) + e[2]
      BY <2>1, BytesAppend DEF GInv, GTypes
    <3>2. e[2] = sz
      BY DEF e
    <3> QED
      BY <2>4, <3>1, <3>2 DEF GInv
  <2>9. ~wrapped => taken \o Append(data, e) = Append(taken \o data, e)
    BY <1>0, <2>1, AppendAfter DEF GTypes
  <2> QED
    BY <2>4, <2>5, <2>6, <2>7, <2>8, <2>9 DEF GInv
<1>3. ASSUME NEW t \in Takers, Call(t) PROVE GInv'
  BY <1>3 DEF Call, block, ghosts, GInv, GTypes, GBlocks
<1>4. ASSUME NEW t \in Takers, ~dead, Take(t) PROVE GInv'
  <2>1. /\ p' = [p EXCEPT ![t] = 0] /\ taken' = taken \o Copied
        /\ wrapped' = (wrapped \/ n_int # used_data)
        /\ data' = <<>> /\ used_data' = 0 /\ n_int > 0 /\ p[t] = list /\ p[t] # 0
        /\ UNCHANGED <<list, total, dead, freed, adds, added>>
    BY <1>4 DEF Take
  <2>2. ~wrapped' => ~wrapped /\ taken' = taken \o data
    BY <2>1 DEF Copied
  <2>3. /\ data' \in Seq(Pieces)
        /\ ~wrapped' => taken' \in Seq(Pieces) /\ taken' \o data' = taken'
    <3>1. data \in Seq(Pieces) /\ data' \in Seq(Pieces) /\ data' = <<>>
      BY <1>0, <2>1 DEF GTypes
    <3>2. ASSUME ~wrapped'
          PROVE  taken' \in Seq(Pieces) /\ taken' \o data' = taken'
      <4>1. taken \in Seq(Pieces) /\ taken' = taken \o data
        BY <1>0, <2>2, <3>2 DEF GTypes
      <4> QED
        BY <3>1, <4>1
    <3> QED
      BY <3>1, <3>2
  <2>4. GTypes'
    BY <2>1, <2>3 DEF GInv, GTypes
  <2>5. wrapped' => total > 2 * (IntMax + 1)
    <3>1. CASE wrapped
      BY <1>0, <3>1 DEF GBlocks
    <3>2. CASE n_int # used_data
      <4>1. used_data > 2 * (IntMax + 1)
        BY <1>0, <2>1, <3>2, AsIntKeeps DEF GTypes, n_int
      <4> QED
        BY <1>0, <2>1, <4>1, GenListAssumption DEF GTypes, GBlocks
    <3> QED
      BY <2>1, <3>1, <3>2
  <2>6. GBlocks'
    BY <1>0, <1>4, <2>1, <2>5, GenListAssumption DEF GTypes, GBlocks
  <2> QED
    BY <2>1, <2>2, <2>3, <2>4, <2>6, BytesEmpty DEF GInv
<1>5. ASSUME NEW t \in Takers, TakeFreed(t) PROVE GInv'
  <2>1. list > 1
    BY <1>5 DEF TakeFreed, GInv, GTypes, GBlocks
  <2> QED
    BY <1>5, <2>1 DEF TakeFreed, block, GInv, GTypes, GBlocks
<1>6. ASSUME NEW t \in Takers, TakeNothing(t) PROVE GInv'
  BY <1>6 DEF TakeNothing, block, ghosts, GInv, GTypes, GBlocks
<1>7. ASSUME NEW t \in Takers, TakeDies(t) PROVE GInv'
  <2>1. used_data >= IntMax
    <3>1. n_int < 0 \/ n_int = IntMax
      BY <1>7 DEF TakeDies
    <3>2. used_data \in Nat /\ IntMax \in Nat
      BY <1>0, GenListAssumption DEF GTypes
    <3> QED
      BY <3>1, <3>2, AsIntKeeps DEF n_int
  <2> QED
    BY <1>7, <2>1 DEF TakeDies, block, ghosts, GInv, GTypes, GBlocks
<1>8. CASE UNCHANGED listVars
  BY <1>8 DEF listVars, block, ghosts, GInv, GTypes, GBlocks
<1> QED
  BY <1>1, <1>2, <1>3, <1>4, <1>5, <1>6, <1>7, <1>8 DEF ListNext

LEMMA GInvHolds == ListSpec => []GInv
<1>1. ListInit => GInv
  BY GInitInv
<1>2. GInv /\ [ListNext]_listVars => GInv'
  BY GStepInv
<1> QED
  BY <1>1, <1>2, PTL DEF ListSpec

\* add_item_gen_list writes inside of the block it has made or grown, with the
\* byte it reserves, for items of any size, and used_data is what the items take.
THEOREM ItemsFit == ListSpec => []Fits
<1>1. GInv => Fits
  BY DEF GInv, GBlocks, Fits
<1> QED
  BY <1>1, GInvHolds, PTL

\* get_data_gen_list hands every item on once and in order, unless it uses a block
\* that realloc has moved, and then the list has outgrown its first block, or n
\* does not hold used_data, and then the list has outgrown 2^32 bytes; it ends the
\* process only over INT_MAX bytes or more.
THEOREM ItemsComplete == ListSpec => []Complete
<1>1. GInv => Complete
  BY DEF GInv, GBlocks, Complete
<1> QED
  BY <1>1, GInvHolds, PTL
=============================================================================
