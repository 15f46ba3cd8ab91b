------------------------- MODULE SharedData_proofs -------------------------
(***************************************************************************)
(* The queue of SharedData is sound for every number of readers, writers   *)
(* and stops and every size of the region: IInv is inductive.  Ledger      *)
(* needs LockOwner (what the reader copied is still what it resets, and no *)
(* other thread gives its lock back) and LockOwner needs Lifetimes (a      *)
(* thread that has ended cannot be started).                               *)
(***************************************************************************)
EXTENDS SharedData, TLAPS

\* The parts of the state Ledger and InBounds speak of.
Queue == <<data, out, dropped, wrote>>

-----------------------------------------------------------------------------
(* Types, locks and lifetimes.                                             *)

LEMMA InitIInv == Init => IInv
<1> SUFFICES ASSUME Init PROVE IInv
  OBVIOUS
<1>0. data = <<>> /\ out = <<>> /\ wrote = 0 /\ dropped = {}
  BY DEF Init
<1>e. <<>> \in Seq(Nat)
  OBVIOUS
<1>1. TypeOK
  <2>1. data \in Seq(Nat) /\ out \in Seq(Nat) /\ dropped \subseteq Nat /\ wrote \in Nat
    BY <1>0, <1>e
  <2>2. tmp \in [Readers -> Seq(Nat)]
    BY <1>e DEF Init
  <2>3. /\ mpc \in [Readers -> MainPCs] /\ tpc \in [Readers -> ThreadPCs]
        /\ sig \in [Readers -> {"none", "self", "other"}]
        /\ wpc \in [Writers -> WriterPCs]
    BY DEF Init, MainPCs, ThreadPCs, WriterPCs
  <2>4. /\ pidd \in [Readers -> BOOLEAN] /\ i \in [Writers -> Nat]
        /\ sendto \in [Writers -> Readers \cup {NoPid}]
    BY DEF Init
  <2> QED
    BY <2>1, <2>2, <2>3, <2>4 DEF Init, TypeOK
<1>2. InBounds
  BY <1>0, SharedDataAssumption DEF InBounds, used_data
<1>3. Ledger
  <2>1. Len(data) = 0 /\ Len(out) = 0 /\ Before = {}
    BY <1>0 DEF Before
  <2> QED
    BY <1>0, <2>1 DEF Ledger
<1>4. LockOwner /\ Lifetimes
  BY SharedDataAssumption DEF Init, LockOwner, Lifetimes
<1> QED
  BY <1>1, <1>2, <1>3, <1>4 DEF IInv

\* A step of one reader's main thread, or a delivery, moves only that reader's
\* program counters, and a read thread only out of asleep or out of the process.
LEMMA MainTypes ==
  ASSUME IInv, NEW r \in Readers, RStart(r) \/ Deliver(r) \/ MainStep(r)
  PROVE  TypeOK' /\ LockOwner' /\ Lifetimes'
<1> USE SharedDataAssumption
<1>1. CASE RStart(r)
  BY <1>1 DEF IInv, TypeOK, LockOwner, Lifetimes, RStart, mainGoto, shm, wvars, svars,
              MainPCs, ThreadPCs
<1>2. CASE Deliver(r)
  <2>0. sig[r] # "none" /\ UNCHANGED <<shm, wvars, svars, out>>
    BY <1>2 DEF Deliver
  <2>1. CASE Die(r)
    BY <2>0, <2>1 DEF IInv, TypeOK, LockOwner, Lifetimes, Die, shm, wvars, svars,
                      MainPCs, ThreadPCs
  <2>2. CASE /\ mpc' = [mpc EXCEPT ![r] = MainAfter(r)]
             /\ tpc' = [tpc EXCEPT ![r] = ThreadAfter(r)]
             /\ sig' = [sig EXCEPT ![r] = "none"]
             /\ UNCHANGED <<tmp, pidd>>
    <3>1. /\ MainAfter(r) \in MainPCs
          /\ \A pc \in {"off", "checking", "clearing", "gone"} :
               MainAfter(r) = pc <=> mpc[r] = pc
      BY DEF MainAfter, MainPCs, IInv, TypeOK
    <3>2. /\ ThreadAfter(r) \in ThreadPCs
          /\ \A pc \in {"off", "checking", "copied", "empty", "gone"} :
               ThreadAfter(r) = pc <=> tpc[r] = pc
      BY DEF ThreadAfter, ThreadPCs, IInv, TypeOK
    <3> HIDE DEF MainAfter, ThreadAfter
    <3>3. TypeOK'
      BY <2>0, <2>2, <3>1, <3>2 DEF IInv, TypeOK, shm, wvars, svars
    <3>4. LockOwner'
      BY <2>0, <2>2, <3>1, <3>2 DEF IInv, TypeOK, LockOwner, shm, wvars, svars
    <3>5. Lifetimes'
      BY <2>0, <2>2, <3>1, <3>2 DEF IInv, TypeOK, Lifetimes
    <3> QED
      BY <3>3, <3>4, <3>5
  <2> QED
    BY <1>2, <2>1, <2>2 DEF Deliver
<1>3. CASE RReg(r)
  BY <1>3 DEF IInv, TypeOK, LockOwner, Lifetimes, RReg, mainGoto, shm, wvars, svars, MainPCs
<1>4. CASE RPause(r)
  BY <1>4 DEF IInv, TypeOK, LockOwner, Lifetimes, RPause, mainGoto, shm, wvars, svars, MainPCs
<1>5. CASE RLock(r)
  BY <1>5 DEF IInv, TypeOK, LockOwner, Lifetimes, RLock, LockExit, mainGoto, wvars, svars,
              MainPCs
<1>9. CASE RCheck(r)
  BY <1>9 DEF IInv, TypeOK, LockOwner, Lifetimes, RCheck, UnlockExit, mainGoto, wvars, svars,
              MainPCs
<1>6. CASE RLinger(r)
  BY <1>6 DEF IInv, TypeOK, LockOwner, Lifetimes, RLinger, mainGoto, shm, wvars, svars, MainPCs
<1>7. CASE RClear(r)
  BY <1>7 DEF IInv, TypeOK, LockOwner, Lifetimes, RClear, mainGoto, wvars, svars, MainPCs
<1>10. CASE RCleared(r)
  BY <1>10 DEF IInv, TypeOK, LockOwner, Lifetimes, RCleared, mainGoto, wvars, svars, MainPCs
<1>8. CASE RExit(r)
  BY <1>8 DEF IInv, TypeOK, LockOwner, Lifetimes, RExit, Die, shm, wvars, svars,
              MainPCs, ThreadPCs
<1> QED
  BY <1>1, <1>2, <1>3, <1>4, <1>5, <1>6, <1>7, <1>8, <1>9, <1>10 DEF MainStep

LEMMA ThreadTypes ==
  ASSUME IInv, NEW r \in Readers, ThreadStep(r)
  PROVE  TypeOK' /\ LockOwner' /\ Lifetimes'
<1> USE SharedDataAssumption
<1>1. CASE TLock(r)
  BY <1>1 DEF IInv, TypeOK, LockOwner, Lifetimes, TLock, LockExit, threadGoto, wvars, svars,
              ThreadPCs
<1>7. CASE TCheck(r)
  BY <1>7 DEF IInv, TypeOK, LockOwner, Lifetimes, TCheck, UnlockExit, threadGoto, wvars, svars,
              ThreadPCs
<1>8. CASE TEmpty(r)
  BY <1>8 DEF IInv, TypeOK, LockOwner, Lifetimes, TEmpty, threadGoto, wvars, svars, ThreadPCs
<1>2. CASE TRead(r)
  BY <1>2 DEF IInv, TypeOK, LockOwner, Lifetimes, TRead, threadGoto, wvars, svars, ThreadPCs
<1>3. CASE TReset(r)
  <2>1. data \in Seq(Nat) /\ out \in Seq(Nat) /\ tmp[r] \in Seq(Nat)
    BY DEF IInv, TypeOK
  <2>2. out \o tmp[r] \in Seq(Nat)
    BY <2>1
  <2>e. <<>> \in Seq(Nat)
    OBVIOUS
  <2>3. TypeOK'
    <3>1. data' \in Seq(Nat) /\ out' \in Seq(Nat) /\ tmp' \in [Readers -> Seq(Nat)]
      BY <1>3, <2>2, <2>e DEF IInv, TypeOK, TReset
    <3>2. /\ tpc' \in [Readers -> ThreadPCs] /\ sleeping' \in BOOLEAN
          /\ frame_mtx' \in Readers \cup {NoPid}
      BY <1>3 DEF IInv, TypeOK, TReset, threadGoto, ThreadPCs
    <3> QED
      BY <1>3, <3>1, <3>2 DEF IInv, TypeOK, TReset, wvars, svars
  <2>4. /\ tpc[r] = "copied" /\ frame_mtx = r
        /\ tpc' = [tpc EXCEPT ![r] = "check"] /\ frame_mtx' = NoPid
        /\ UNCHANGED <<mpc, exit_mtx>>
        /\ tpc \in [Readers -> ThreadPCs]
    BY <1>3 DEF IInv, TypeOK, LockOwner, TReset, threadGoto
  <2>5. \A q \in Readers : /\ tpc'[q] \notin {"copied", "empty"} /\ mpc'[q] # "clearing"
                            /\ frame_mtx' # q
    BY <2>4 DEF IInv, LockOwner
  <2>6. \A q \in Readers : tpc'[q] \in {"checking", "gone"} <=> tpc[q] \in {"checking", "gone"}
    BY <2>4
  <2>7. Lifetimes'
    BY <2>4 DEF IInv, Lifetimes
  <2>8. LockOwner'
    BY <2>4, <2>5, <2>6 DEF IInv, LockOwner
  <2> QED
    BY <2>3, <2>7, <2>8
<1>4. CASE TSleep(r)
  BY <1>4 DEF IInv, TypeOK, LockOwner, Lifetimes, TSleep, threadGoto, shm, wvars, svars,
              ThreadPCs
<1>5. CASE TWake(r)
  BY <1>5 DEF IInv, TypeOK, LockOwner, Lifetimes, TWake, threadGoto, shm, wvars, svars,
              ThreadPCs
<1>6. CASE TFinish(r)
  BY <1>6 DEF IInv, TypeOK, LockOwner, Lifetimes, TFinish, threadGoto, Sigqueue, Running,
              shm, wvars, svars, ThreadPCs
<1> QED
  BY <1>1, <1>2, <1>3, <1>4, <1>5, <1>6, <1>7, <1>8 DEF ThreadStep

LEMMA WriterTypes ==
  ASSUME IInv, NEW w \in Writers, WriterStep(w)
  PROVE  TypeOK' /\ LockOwner' /\ Lifetimes'
<1> USE SharedDataAssumption
<1>1. CASE WRound(w)
  BY <1>1 DEF IInv, TypeOK, LockOwner, Lifetimes, WRound, shm, rvars, svars, WriterPCs
<1>2. CASE WWrite(w)
  <2>1. wrote \in Nat /\ data \in Seq(Nat) /\ dropped \subseteq Nat
    BY DEF IInv, TypeOK
  <2>2. data' \in Seq(Nat) /\ wrote' \in Nat
    BY <1>2, <2>1 DEF WWrite
  <2>3. dropped' \subseteq Nat
    <3>1. \A k \in DOMAIN data : data[k] \in Nat
      BY <2>1
    <3>2. dropped' = dropped \/ dropped' = dropped \cup {data[k] : k \in DOMAIN data}
      BY <1>2 DEF WWrite
    <3> QED
      BY <2>1, <3>1, <3>2
  <2> QED
    BY <1>2, <2>2, <2>3 DEF IInv, TypeOK, LockOwner, Lifetimes, WWrite, rvars, svars, WriterPCs
<1>3. CASE WSig(w)
  BY <1>3 DEF IInv, TypeOK, LockOwner, Lifetimes, WSig, writerGoto, Sigqueue, Running,
              shm, svars, WriterPCs
<1>4. CASE WCheck(w)
  BY <1>4 DEF IInv, TypeOK, LockOwner, Lifetimes, WCheck, writerGoto, shm, rvars, svars,
              WriterPCs
<1> QED
  BY <1>1, <1>2, <1>3, <1>4 DEF WriterStep

LEMMA StopTypes ==
  ASSUME IInv, (\E val \in BOOLEAN : StopSet(val)) \/ StopStep
  PROVE  TypeOK' /\ LockOwner' /\ Lifetimes'
<1> USE SharedDataAssumption
<1>1. CASE \E val \in BOOLEAN : StopSet(val)
  BY <1>1 DEF IInv, TypeOK, LockOwner, Lifetimes, StopSet, rvars, wvars
<1>2. CASE StopGet
  BY <1>2 DEF IInv, TypeOK, LockOwner, Lifetimes, StopGet, shm, rvars, wvars
<1>3. CASE StopKill
  BY <1>3 DEF IInv, TypeOK, LockOwner, Lifetimes, StopKill, Sigqueue, Running, shm, wvars
<1> QED
  BY <1>1, <1>2, <1>3 DEF StopStep

-----------------------------------------------------------------------------
(* The queue.                                                              *)

\* A full region holds the new item alone, another one an item more.
LEMMA WriteQueue ==
  ASSUME IInv, NEW w \in Writers, WWrite(w)
  PROVE  InBounds' /\ Ledger'
<1> DEFINE n == Len(data)
<1>t. /\ data \in Seq(Nat) /\ n \in Nat /\ wrote \in Nat
      /\ out \in Seq(Nat) /\ dropped \subseteq Nat /\ Len(out) \in Nat
  BY DEF IInv, TypeOK
<1>c. /\ ItemSz \in Nat /\ Header \in Nat /\ Total \in Nat /\ ItemSz + Header < Total
  BY SharedDataAssumption
<1>l. Ledger /\ InBounds
  BY DEF IInv
<1>w. out' = out /\ wrote' = wrote + 1
  BY DEF WWrite
<1>1. CASE Full
  <2>1. data' = <<wrote + 1>> /\ dropped' = dropped \cup {data[k] : k \in DOMAIN data}
    BY <1>1 DEF WWrite
  <2>2. Len(data') = 1 /\ data'[1] = wrote + 1
    BY <2>1
  <2>3. InBounds'
    BY <2>2, <1>c DEF InBounds, used_data
  <2>4. \A m : m \in {data[k] : k \in DOMAIN data} <=> m \in n' .. wrote /\ m > wrote - n
    <3>1. \A k \in 1 .. n : data[k] = wrote - n + k
      BY <1>l DEF Ledger
    <3>2. DOMAIN data = 1 .. n
      BY <1>t
    <3>3. n <= wrote /\ n' = 1
      BY <1>l, <2>2 DEF Ledger
    <3>4. ASSUME NEW k \in DOMAIN data
          PROVE  data[k] \in 1 .. wrote /\ data[k] > wrote - n
      BY <3>1, <3>2, <3>3, <1>t
    <3>5. ASSUME NEW m \in 1 .. wrote, m > wrote - n
          PROVE  \E k \in DOMAIN data : m = data[k]
      <4>1. m - (wrote - n) \in DOMAIN data
        BY <3>2, <3>3, <3>5, <1>t
      <4>2. data[m - (wrote - n)] = m
        BY <4>1, <3>1, <3>2, <1>t
      <4> QED
        BY <4>1, <4>2
    <3> QED
      BY <3>3, <3>4, <3>5
  <2>5. Before' = 1 .. wrote /\ Before = 1 .. wrote - n
    BY <2>2, <1>w, <1>t DEF Before
  <2>6. n <= wrote /\ n' = 1
    BY <1>l, <2>2 DEF Ledger
  <2>7. \A m \in Before' : m \in Before \/ m > wrote - n
    BY <2>5, <2>6, <1>t
  <2>8. \A m \in Before : m \in Before' /\ ~(m > wrote - n)
    BY <2>5, <2>6, <1>t
  <2>9. Len(data)' <= wrote' /\ \A k \in 1 .. Len(data)' : data'[k] = wrote' - Len(data)' + k
    BY <2>2, <1>w, <1>t
  <2>10. \A k \in 1 .. Len(out)' : out'[k] \in Before'
    BY <2>8, <1>w, <1>l DEF Ledger
  <2>11. \A k, l \in 1 .. Len(out)' : k < l => out'[k] < out'[l]
    BY <1>w, <1>l DEF Ledger
  <2>12. ASSUME NEW m \in Before'
         PROVE  m \in dropped' <=> \A k \in 1 .. Len(out)' : out'[k] # m
    <3>1. CASE m \in Before
      <4>1. m \notin {data[k] : k \in DOMAIN data}
        BY <3>1, <2>4, <2>8
      <4> QED
        BY <3>1, <4>1, <2>1, <1>w, <1>l DEF Ledger
    <3>2. CASE m \notin Before
      <4>1. m \in {data[k] : k \in DOMAIN data}
        BY <3>2, <2>4, <2>5, <2>6, <2>7
      <4>2. \A k \in 1 .. Len(out) : out[k] # m
        BY <3>2, <1>l DEF Ledger
      <4> QED
        BY <4>1, <4>2, <2>1, <1>w
    <3> QED
      BY <3>1, <3>2
  <2>13. dropped' \subseteq Before'
    BY <2>1, <2>4, <2>5, <2>6, <2>8, <1>l DEF Ledger
  <2> QED
    BY <2>3, <2>9, <2>10, <2>11, <2>12, <2>13 DEF Ledger
<1>2. CASE ~Full
  <2>1. data' = Append(data, wrote + 1) /\ dropped' = dropped
    BY <1>2 DEF WWrite
  <2>2. /\ Len(data') = n + 1 /\ data'[n + 1] = wrote + 1
        /\ \A k \in 1 .. n : data'[k] = data[k]
    BY <2>1, <1>t
  <2>3. InBounds'
    <3>1. ItemSz * n \in Nat
      BY <1>t, <1>c
    <3>2. ItemSz * (n + 1) = ItemSz * n + ItemSz
      BY <1>t, <1>c
    <3>3. ItemSz + ItemSz * n + Header < Total
      BY <1>2, <3>1, <1>c DEF Full, used_data
    <3>4. used_data' = ItemSz * n + ItemSz
      BY <2>2, <3>2 DEF used_data
    <3> QED
      BY <3>1, <3>3, <3>4, <1>c DEF InBounds
  <2>4. Before' = Before
    BY <2>2, <1>w, <1>t DEF Before
  <2>5. Len(data)' <= wrote' /\ \A k \in 1 .. Len(data)' : data'[k] = wrote' - Len(data)' + k
    <3>1. n <= wrote /\ \A k \in 1 .. n : data[k] = wrote - n + k
      BY <1>l DEF Ledger
    <3>2. ASSUME NEW k \in 1 .. n + 1
          PROVE  data'[k] = (wrote + 1) - (n + 1) + k
      <4>1. CASE k = n + 1
        BY <4>1, <2>2, <1>t
      <4>2. CASE k # n + 1
        <5>1. k \in 1 .. n
          BY <4>2, <1>t
        <5>2. data'[k] = wrote - n + k
          BY <5>1, <2>2, <3>1
        <5> QED
          BY <5>1, <5>2, <1>t
      <4> QED
        BY <4>1, <4>2
    <3> QED
      BY <3>1, <3>2, <2>2, <1>w, <1>t
  <2> QED
    BY <2>1, <2>3, <2>4, <2>5, <1>w, <1>l DEF Ledger
<1> QED
  BY <1>1, <1>2

\* The thread returns what it copied, and that is all of the region.
LEMMA ResetQueue ==
  ASSUME IInv, NEW r \in Readers, TReset(r)
  PROVE  InBounds' /\ Ledger'
<1> DEFINE n == Len(data)
<1> DEFINE o == Len(out)
<1>t. /\ data \in Seq(Nat) /\ n \in Nat /\ wrote \in Nat
      /\ out \in Seq(Nat) /\ dropped \subseteq Nat /\ o \in Nat
  BY DEF IInv, TypeOK
<1>l. Ledger
  BY DEF IInv
<1>w. /\ out' = out \o data /\ data' = <<>> /\ wrote' = wrote /\ dropped' = dropped
  BY DEF TReset, threadGoto, wvars, IInv, LockOwner
<1>1. /\ Len(out') = o + n
      /\ \A k \in 1 .. o : out'[k] = out[k]
      /\ \A k \in 1 .. n : out'[o + k] = data[k]
  BY <1>w, <1>t
<1>2. n <= wrote /\ \A k \in 1 .. n : data[k] = wrote - n + k
  BY <1>l DEF Ledger
<1>3. Before' = 1 .. wrote /\ Before = 1 .. wrote - n
  BY <1>w, <1>t DEF Before
<1>4. ASSUME NEW k \in 1 .. o + n, k > o
      PROVE  out'[k] = wrote - n + (k - o) /\ k - o \in 1 .. n
  <2>1. k - o \in 1 .. n /\ o + (k - o) = k
    BY <1>4, <1>t
  <2> QED
    BY <2>1, <1>1, <1>2
<1>5. ASSUME NEW k \in 1 .. o
      PROVE  out'[k] = out[k] /\ out[k] \in 1 .. wrote - n
  BY <1>1, <1>3, <1>l DEF Ledger
<1>6. InBounds'
  BY <1>w, SharedDataAssumption DEF InBounds, used_data
<1>7. Len(data)' <= wrote' /\ \A k \in 1 .. Len(data)' : data'[k] = wrote' - Len(data)' + k
  BY <1>w, <1>t
<1>8. ASSUME NEW k \in 1 .. o + n
      PROVE  out'[k] \in 1 .. wrote
  <2>1. CASE k > o
    BY <2>1, <1>4, <1>2, <1>t
  <2>2. CASE ~(k > o)
    BY <2>2, <1>5, <1>2, <1>t
  <2> QED
    BY <2>1, <2>2
<1>9. ASSUME NEW k \in 1 .. o + n, NEW l \in 1 .. o + n, k < l
      PROVE  out'[k] < out'[l]
  <2>1. CASE k > o
    <3>1. l > o
      BY <2>1, <1>9, <1>t
    <3>2. out'[k] = wrote - n + (k - o) /\ out'[l] = wrote - n + (l - o)
      BY <2>1, <3>1, <1>4
    <3> QED
      BY <3>2, <1>9, <1>t
  <2>2. CASE ~(k > o) /\ l > o
    <3>1. out'[l] = wrote - n + (l - o) /\ l - o \in 1 .. n
      BY <2>2, <1>4
    <3>2. k \in 1 .. o
      BY <2>2, <1>t
    <3>3. out'[k] \in 1 .. wrote - n
      BY <3>2, <1>5
    <3> QED
      BY <3>1, <3>3, <1>2, <1>t
  <2>3. CASE ~(k > o) /\ ~(l > o)
    <3>1. k \in 1 .. o /\ l \in 1 .. o
      BY <2>3, <1>t
    <3> QED
      BY <3>1, <1>9, <1>5, <1>l DEF Ledger
  <2> QED
    BY <2>1, <2>2, <2>3
<1>10. ASSUME NEW m \in 1 .. wrote
       PROVE  m \in dropped <=> \A k \in 1 .. o + n : out'[k] # m
  <2>1. CASE m > wrote - n
    <3>1. m - (wrote - n) \in 1 .. n /\ o + (m - (wrote - n)) \in 1 .. o + n
      BY <2>1, <1>2, <1>t
    <3>2. out'[o + (m - (wrote - n))] = m
      <4>1. out'[o + (m - (wrote - n))] = data[m - (wrote - n)]
        BY <3>1, <1>1
      <4>2. data[m - (wrote - n)] = wrote - n + (m - (wrote - n))
        BY <3>1, <1>2
      <4>3. wrote - n + (m - (wrote - n)) = m
        BY <1>t
      <4> QED
        BY <4>1, <4>2, <4>3
    <3>3. m \notin dropped
      BY <2>1, <1>3, <1>t, <1>l DEF Ledger
    <3> QED
      BY <3>1, <3>2, <3>3
  <2>2. CASE ~(m > wrote - n)
    <3>1. m \in Before
      BY <2>2, <1>3, <1>2, <1>t
    <3>2. \A k \in 1 .. o + n : k > o => out'[k] # m
      BY <2>2, <1>4, <1>2, <1>t
    <3>3. m \in dropped <=> \A k \in 1 .. o : out[k] # m
      BY <3>1, <1>l DEF Ledger
    <3>4. \A k \in 1 .. o : k \in 1 .. o + n
      BY <1>t
    <3>5. \A k \in 1 .. o + n : k > o \/ k \in 1 .. o
      BY <1>t
    <3> QED
      BY <3>2, <3>3, <3>4, <3>5, <1>5
  <2> QED
    BY <2>1, <2>2
<1>11. dropped' \subseteq Before'
  BY <1>3, <1>2, <1>w, <1>t, <1>l DEF Ledger
<1> QED
  BY <1>1, <1>3, <1>6, <1>7, <1>8, <1>9, <1>10, <1>11, <1>w DEF Ledger

LEMMA StillQueue ==
  ASSUME IInv, UNCHANGED Queue
  PROVE  InBounds' /\ Ledger'
BY DEF IInv, Queue, InBounds, Ledger, Before, used_data

\* The other steps leave the queue alone.
LEMMA OtherQueue ==
  ASSUME Next, \A w \in Writers : ~WWrite(w), \A r \in Readers : ~TReset(r)
  PROVE  UNCHANGED Queue
<1>1. ASSUME NEW r \in Readers, RStart(r) \/ Deliver(r) \/ MainStep(r) \/ ThreadStep(r)
      PROVE  UNCHANGED Queue
  BY <1>1 DEF Queue, RStart, Deliver, MainStep, RReg, RPause, RLock, RCheck, RLinger, RClear,
              RCleared, RExit, LockExit, UnlockExit,
              ThreadStep, TLock, TCheck, TRead, TEmpty, TSleep, TWake, TFinish, shm, wvars
<1>2. ASSUME NEW w \in Writers, WriterStep(w)
      PROVE  UNCHANGED Queue
  BY <1>2 DEF Queue, WriterStep, WRound, WSig, WCheck, shm, wvars
<1>3. ASSUME NEW val \in BOOLEAN, StopSet(val)
      PROVE  UNCHANGED Queue
  BY <1>3 DEF Queue, StopSet, wvars
<1>4. CASE StopStep
  BY <1>4 DEF Queue, StopStep, StopGet, StopKill, shm, wvars
<1> QED
  BY <1>1, <1>2, <1>3, <1>4 DEF Next

-----------------------------------------------------------------------------

LEMMA NextIInv == IInv /\ [Next]_vars => IInv'
<1> SUFFICES ASSUME IInv, [Next]_vars PROVE IInv'
  OBVIOUS
<1>1. CASE Next
  <2>1. TypeOK' /\ LockOwner' /\ Lifetimes'
    BY <1>1, MainTypes, ThreadTypes, WriterTypes, StopTypes DEF Next
  <2>2. InBounds' /\ Ledger'
    BY <1>1, WriteQueue, ResetQueue, StillQueue, OtherQueue
  <2> QED
    BY <2>1, <2>2 DEF IInv
<1>2. CASE UNCHANGED vars
  BY <1>2 DEF vars, shm, rvars, wvars, svars, IInv, TypeOK, InBounds, Ledger, LockOwner,
              Lifetimes, Before, used_data
<1> QED
  BY <1>1, <1>2

\* The inductive invariant holds in every reachable state of the programs.
THEOREM SpecIInv == Spec => []IInv
BY InitIInv, NextIInv, PTL DEF Spec

\* However readers come and go, an item is read once and in the order of the
\* writes, or overwritten by ntt_write_shm, and never both.
THEOREM LedgerHolds == Spec => []Ledger
<1>1. IInv => Ledger
  BY DEF IInv
<1> QED
  BY <1>1, SpecIInv, PTL

\* ntt_write_shm never writes behind the end of the region.
THEOREM InBoundsHolds == Spec => []InBounds
<1>1. IInv => InBounds
  BY DEF IInv
<1> QED
  BY <1>1, SpecIInv, PTL
=============================================================================
