------------------------ MODULE RegionCreation_proofs ------------------------
(***************************************************************************)
(* The regions that are made next to processes that use them.              *)
(* RegionCreation for every number of processes and every size of region   *)
(* and items; AgentTable for every set of agents, every size of a bucket   *)
(* and every number of runs.                                               *)
(***************************************************************************)
EXTENDS RegionCreation, AgentTable, FiniteSetTheorems, WellFoundedInduction, TLAPS

USE RegionAssumption

\* init_service: nothing has been opened at the start.
LEMMA InitIInv == Init => IInv
<1> SUFFICES ASSUME Init PROVE IInv
  OBVIOUS
<1>1. TypeOK
  <2>1. total \in {0, Total} /\ used_data \in Nat /\ ops \in 0 .. MaxOps
    BY DEF Init
  <2> QED
    BY <2>1, Zenon DEF Init, TypeOK
<1>2. OneCreator
  BY DEF Init, OneCreator, Creators
<1>3. TestedRoom
  BY DEF Init, TestedRoom
<1> QED
  BY <1>1, <1>2, <1>3 DEF IInv

\* Every step of every process keeps the types of the region's fields.
LEMMA StepTypeOK == TypeOK /\ [Next]_vars => TypeOK'
<1> SUFFICES ASSUME TypeOK, [Next]_vars PROVE TypeOK'
  OBVIOUS
<1> USE DEF TypeOK, Goto
<1>1. CASE UNCHANGED vars
  BY <1>1 DEF vars, region
<1>2. ASSUME NEW p \in Procs, Create(p) PROVE TypeOK'
  <2>1. CASE Open(p)
    BY <2>1 DEF Open
  <2>2. CASE Memset(p)
    BY <2>2 DEF Memset
  <2>3. CASE SetTotal(p)
    BY <2>3 DEF SetTotal
  <2>4. CASE InitFrame(p) \/ InitExit(p)
    BY <2>4 DEF InitFrame, InitExit
  <2>5. CASE InitFails(p)
    BY <2>5 DEF InitFails, region
  <2> QED
    BY <1>2, <2>1, <2>2, <2>3, <2>4, <2>5 DEF Create
<1>3. ASSUME NEW p \in Procs, Use(p) PROVE TypeOK'
  <2>1. CASE Lock(p)
    BY <2>1 DEF Lock
  <2>2. CASE Test(p) \/ Copy(p)
    BY <2>2 DEF Test, Copy, region
  <2>3. CASE Add(p) \/ Read(p)
    BY <2>3 DEF Add, Read
  <2>4. CASE Unlock(p)
    BY <2>4 DEF Unlock
  <2> QED
    BY <1>3, <2>1, <2>2, <2>3, <2>4 DEF Use
<1>4. ASSUME NEW p \in Procs, Die(p) PROVE TypeOK'
  BY <1>4 DEF Die, region
<1> QED
  BY <1>1, <1>2, <1>3, <1>4 DEF Next

\* O_EXCL lets one process create; it is done with that when the region is ready.
LEMMA StepOneCreator == TypeOK /\ OneCreator /\ [Next]_vars => OneCreator'
<1> SUFFICES ASSUME TypeOK, OneCreator, [Next]_vars PROVE OneCreator'
  OBVIOUS
<1> USE DEF TypeOK, OneCreator, Creators, Goto
<1>1. CASE UNCHANGED vars
  BY <1>1 DEF vars, region
<1>2. ASSUME NEW p \in Procs, Create(p) PROVE OneCreator'
  <2>1. CASE Open(p)
    BY <2>1 DEF Open
  <2>2. CASE Memset(p)
    BY <2>2 DEF Memset
  <2>3. CASE SetTotal(p)
    BY <2>3 DEF SetTotal
  <2>4. CASE InitFrame(p)
    BY <2>4 DEF InitFrame
  <2>5. CASE InitExit(p)
    BY <2>5 DEF InitExit
  <2>6. CASE InitFails(p)
    BY <2>6 DEF InitFails, region
  <2> QED
    BY <1>2, <2>1, <2>2, <2>3, <2>4, <2>5, <2>6 DEF Create
<1>3. ASSUME NEW p \in Procs, Use(p) PROVE OneCreator'
  BY <1>3 DEF Use, Lock, Test, Copy, Add, Read, Unlock, region
<1>4. ASSUME NEW p \in Procs, Die(p) PROVE OneCreator'
  BY <1>4 DEF Die, region
<1> QED
  BY <1>1, <1>2, <1>3, <1>4 DEF Next

\* A process comes in by a lock and leaves by an unlock: when it is alone inside
\* of a locked mutex no other has written since its test.
LEMMA StepTestedRoom == TypeOK /\ TestedRoom /\ [Next]_vars => TestedRoom'
<1> SUFFICES ASSUME TypeOK, TestedRoom, [Next]_vars,
                    NEW q \in Procs, locked', Inside' = {q}, pc'[q] = "copy"
             PROVE  (used_data + ItemSz + Header < Total)'
  BY DEF TestedRoom
<1> USE DEF TypeOK, TestedRoom, Goto
<1>1. CASE UNCHANGED vars
  BY <1>1 DEF vars, region, Inside
<1>2. ASSUME NEW p \in Procs, Create(p) PROVE used_data' + ItemSz + Header < Total
  <2>1. Inside' = Inside /\ pc[q] = "copy" /\ locked /\ used_data' = used_data
    BY <1>2 DEF Create, Open, Memset, SetTotal, InitFrame, InitExit, InitFails, region, Inside
  <2> QED
    BY <2>1
<1>3. ASSUME NEW p \in Procs, Use(p) PROVE used_data' + ItemSz + Header < Total
  <2>1. CASE Lock(p)
    BY <2>1 DEF Lock, Inside
  <2>2. CASE Test(p)
    BY <2>2 DEF Test, Inside, Room
  <2>3. CASE Copy(p) \/ Add(p) \/ Read(p)
    BY <2>3 DEF Copy, Add, Read, Inside, region
  <2>4. CASE Unlock(p)
    BY <2>4 DEF Unlock
  <2> QED
    BY <1>3, <2>1, <2>2, <2>3, <2>4 DEF Use
<1>4. ASSUME NEW p \in Procs, Die(p) PROVE used_data' + ItemSz + Header < Total
  <2>1. Inside' = Inside /\ pc[q] = "copy"
    BY <1>4 DEF Die, Inside
  <2> QED
    BY <1>4, <2>1 DEF Die, region
<1> QED
  BY <1>1, <1>2, <1>3, <1>4 DEF Next

\* The invariant of the region and of those who create and use it.
THEOREM SpecIInv == Spec => []IInv
<1>1. IInv /\ [Next]_vars => IInv'
  BY StepTypeOK, StepOneCreator, StepTestedRoom DEF IInv
<1> QED
  BY InitIInv, <1>1, PTL DEF Spec

\* The fields of the region keep their types.
THEOREM TypeCorrect == Spec => []TypeOK
<1>1. IInv => TypeOK
  BY DEF IInv
<1> QED
  BY SpecIInv, <1>1, PTL

\* ntt_write_shm copies inside of a settled region, whatever happened before it
\* had settled.
THEOREM SafeCopyHolds == Spec => []SafeCopy
<1>1. IInv => SafeCopy
  <2> SUFFICES ASSUME IInv, NEW p \in Procs, Settled, pc[p] = "copy"
               PROVE  used_data + ItemSz + Header < Total
    BY DEF SafeCopy
  <2>1. p \in Inside
    BY DEF Inside
  <2>2. locked /\ Inside = {p}
    BY <2>1 DEF Settled, Inside
  <2> QED
    BY <2>2 DEF IInv, TestedRoom
<1> QED
  BY SpecIInv, <1>1, PTL

\* init_service clears and initialises once.
THEOREM InitialisedOnceHolds == Spec => InitialisedOnce
<1>1. IInv /\ [Next]_vars => [ready => ready' /\ total' = total]_vars
  <2> SUFFICES ASSUME IInv, [Next]_vars, ready PROVE ready' /\ total' = total
    OBVIOUS
  <2> USE DEF IInv, TypeOK, OneCreator, Creators, Goto
  <2>1. CASE UNCHANGED vars
    BY <2>1 DEF vars, region
  <2>2. ASSUME NEW p \in Procs, Create(p) PROVE ready' /\ total' = total
    BY <2>2 DEF Create, Open, Memset, SetTotal, InitFrame, InitExit, InitFails, region
  <2>3. ASSUME NEW p \in Procs, Use(p) PROVE ready' /\ total' = total
    BY <2>3 DEF Use, Lock, Test, Copy, Add, Read, Unlock, region
  <2>4. ASSUME NEW p \in Procs, Die(p) PROVE ready' /\ total' = total
    BY <2>4 DEF Die, region
  <2> QED
    BY <2>1, <2>2, <2>3, <2>4 DEF Next
<1> QED
  BY SpecIInv, <1>1, PTL DEF Spec, InitialisedOnce

\* A mutex that is what it is for stays so: from then on SharedData speaks for
\* the region.
THEOREM StaysSettledHolds == Spec => StaysSettled
<1>1. IInv /\ [Next]_vars => [Settled => Settled']_vars
  <2> SUFFICES ASSUME IInv, [Next]_vars, Settled PROVE Settled'
    OBVIOUS
  <2> USE DEF IInv, TypeOK, OneCreator, Creators, Settled, Inside, Goto
  <2>1. CASE UNCHANGED vars
    BY <2>1 DEF vars, region
  <2>2. ASSUME NEW p \in Procs, Create(p) PROVE Settled'
    <3>1. Open(p)
      BY <2>2 DEF Create, Memset, SetTotal, InitFrame, InitExit, InitFails
    <3>2. Inside' = Inside /\ locked' = locked /\ ready'
      BY <3>1 DEF Open
    <3> QED
      BY <3>2
  <2>3. ASSUME NEW p \in Procs, Use(p) PROVE Settled'
    <3>1. CASE Lock(p)
      <4>1. Inside = {} /\ Inside' = {p} /\ locked' /\ ready'
        BY <3>1 DEF Lock
      <4> QED
        BY <4>1
    <3>2. CASE Test(p) \/ Copy(p) \/ Add(p) \/ Read(p)
      <4>1. Inside' = Inside /\ locked' = locked /\ ready'
        BY <3>2 DEF Test, Copy, Add, Read, region
      <4> QED
        BY <4>1
    <3>3. CASE Unlock(p)
      <4>1. Inside = {p}
        BY <3>3 DEF Unlock
      <4>2. Inside' = {} /\ ~locked' /\ ready'
        BY <3>3, <4>1 DEF Unlock
      <4> QED
        BY <4>2
    <3> QED
      BY <2>3, <3>1, <3>2, <3>3 DEF Use
  <2>4. ASSUME NEW p \in Procs, Die(p) PROVE Settled'
    <3>1. Inside' = Inside /\ locked' = locked /\ ready'
      BY <2>4 DEF Die, region
    <3> QED
      BY <3>1
  <2> QED
    BY <2>1, <2>2, <2>3, <2>4 DEF Next
<1> QED
  BY SpecIInv, <1>1, PTL DEF Spec, StaysSettled

HIDE RegionAssumption

-----------------------------------------------------------------------------
(* The table of agents, another region that is made next to processes that *)
(* use it.  A bucket is filled from its first slot on with its first rows, *)
(* in their order: a row has the slot that is the number of the rows of    *)
(* its bucket before it, if the bucket has that many.                      *)

\* The rows among the first n of r that belong in bucket b, and the number of
\* rows of the k-th row's bucket before it.
Bucket(r, b, n) == {k \in 1 .. n : WriteIndex(r[k], Len(r)) = b}
Rank(r, k) == Cardinality(Bucket(r, WriteIndex(r[k], Len(r)), k - 1))

IsTable(d) == d = [state |-> d.state, key |-> d.key, h |-> d.h]
IsNumber(d) == d = [state |-> d.state, n |-> d.n]

\* The buckets of table d after n of the rows r.
Filled(r, d, n) ==
  /\ d.state = "made" /\ DOMAIN d.h = 0 .. Len(r)
  /\ d.key = [k \in 0 .. Len(r) |-> d.key[k]]
  /\ \A k \in 1 .. n : d.key[k - 1] = r[k]
  /\ d.h = [b \in 0 .. Len(r) |-> d.h[b]]
  /\ \A b \in 0 .. Len(r) - 1 :
       /\ d.h[b] \in [1 .. Slots -> Int]
       /\ \A t \in 1 .. Slots : t > Cardinality(Bucket(r, b, n)) => d.h[b][t] = -1
       /\ \A t \in 1 .. Slots : t <= Cardinality(Bucket(r, b, n)) =>
            d.h[b][t] + 1 \in Bucket(r, b, n) /\ Rank(r, d.h[b][t] + 1) = t - 1
       /\ \A k \in Bucket(r, b, n) : Rank(r, k) < Slots => d.h[b][Rank(r, k) + 1] = k - 1

Made(d, n) == d = [state |-> "made", n |-> n]

LEMMA SmallestOf ==
  ASSUME NEW T, T \subseteq Nat, T # {}
  PROVE  \E x \in T : \A y \in T : x <= y
<1>1. PICK x \in T : \A y \in T : ~(<<y, x>> \in OpToRel(<, Nat))
  BY WFMin, NatLessThanWellFounded
<1>2. ASSUME NEW y \in T PROVE x <= y
  <2>1. x \in Nat /\ y \in Nat
    OBVIOUS
  <2>2. ~(<<y, x>> \in {ss \in Nat \X Nat : ss[1] < ss[2]})
    BY <1>1 DEF OpToRel
  <2>3. ~(y < x)
    BY <2>1, <2>2
  <2> QED
    BY <2>1, <2>3
<1> QED
  BY <1>2

\* An index is below the number of buckets; the writer's is negative only for
\* numbers that are negative or do not fit in an int, and the reader has the same
\* one for numbers that fit.
LEMMA IndexRange ==
  ASSUME NEW x \in Keys, NEW n \in Nat \ {0}
  PROVE  /\ WriteIndex(x, n) \in Int /\ WriteIndex(x, n) < n
         /\ WriteIndex(x, n) < 0 => x \in Numbers /\ ~Fits(x)
         /\ ReadIndex(x, n) \in Int /\ ReadIndex(x, n) < n
         /\ Fits(x) => ReadIndex(x, n) = WriteIndex(x, n) /\ ReadIndex(x, n) >= 0
<1> USE TableAssumption
<1>1. ASSUME NEW a \in Int
      PROVE  Rem(a, n) \in Int /\ Rem(a, n) < n /\ (a >= 0 => Rem(a, n) >= 0)
  <2>1. CASE a >= 0
    <3>1. a % n \in 0 .. n - 1
      BY <2>1
    <3> QED
      BY <2>1, <3>1 DEF Rem
  <2>2. CASE a < 0
    <3>1. -a \in Nat
      BY <2>2
    <3>2. (-a) % n \in 0 .. n - 1
      BY <3>1
    <3>3. Rem(a, n) = -((-a) % n)
      BY <2>2 DEF Rem
    <3> QED
      BY <2>2, <3>2, <3>3
  <2> QED
    BY <2>1, <2>2
<1>2. ASSUME NEW v \in Int
      PROVE  Wrapped(v) \in Int /\ (v \in 0 .. IntMax => Wrapped(v) = v)
  <2> DEFINE m == 2 * (IntMax + 1)
  <2>1. m \in Nat \ {0} /\ v + IntMax + 1 \in Int
    OBVIOUS
  <2>2. (v + IntMax + 1) % m \in 0 .. m - 1
    BY <2>1
  <2>3. ASSUME v \in 0 .. IntMax PROVE (v + IntMax + 1) % m = v + IntMax + 1
    <3>1. v + IntMax + 1 \in 0 .. m - 1
      BY <2>3
    <3> QED
      BY <2>1, <3>1
  <2> QED
    BY <2>2, <2>3 DEF Wrapped
<1>3. Scan(x, 0) \in Int /\ Scan(x, -1) \in Int
  BY <1>2 DEF Scan
<1>4. Fits(x) => Scan(x, 0) = Num[x] /\ Scan(x, -1) = Num[x] /\ Num[x] \in Nat
  BY <1>2 DEF Scan, Fits
<1>5. Scan(x, 0) < 0 => x \in Numbers /\ ~Fits(x)
  BY <1>4 DEF Scan
<1> QED
  BY <1>1, <1>3, <1>4, <1>5 DEF WriteIndex, ReadIndex

LEMMA BucketFinite ==
  ASSUME NEW r, NEW b, NEW n \in Nat
  PROVE  IsFiniteSet(Bucket(r, b, n)) /\ Cardinality(Bucket(r, b, n)) \in Nat
<1>1. IsFiniteSet(1 .. n)
  BY FS_Interval
<1>2. Bucket(r, b, n) \in SUBSET (1 .. n)
  BY DEF Bucket
<1>3. IsFiniteSet(Bucket(r, b, n))
  BY <1>1, <1>2, FS_Subset
<1> QED
  BY <1>3, FS_CardinalityType

LEMMA BucketGrows ==
  ASSUME NEW r, NEW b, NEW n \in Nat
  PROVE  /\ WriteIndex(r[n + 1], Len(r)) # b => Bucket(r, b, n + 1) = Bucket(r, b, n)
         /\ WriteIndex(r[n + 1], Len(r)) = b =>
              /\ Bucket(r, b, n + 1) = Bucket(r, b, n) \cup {n + 1}
              /\ Cardinality(Bucket(r, b, n + 1)) = Cardinality(Bucket(r, b, n)) + 1
              /\ Rank(r, n + 1) = Cardinality(Bucket(r, b, n))
<1>1. 1 .. n + 1 = (1 .. n) \cup {n + 1} /\ n + 1 \notin 1 .. n
  OBVIOUS
<1>2. WriteIndex(r[n + 1], Len(r)) # b => Bucket(r, b, n + 1) = Bucket(r, b, n)
  BY <1>1 DEF Bucket
<1>3. ASSUME WriteIndex(r[n + 1], Len(r)) = b
      PROVE  /\ Bucket(r, b, n + 1) = Bucket(r, b, n) \cup {n + 1}
             /\ Cardinality(Bucket(r, b, n + 1)) = Cardinality(Bucket(r, b, n)) + 1
             /\ Rank(r, n + 1) = Cardinality(Bucket(r, b, n))
  <2>1. Bucket(r, b, n + 1) = Bucket(r, b, n) \cup {n + 1} /\ n + 1 \notin Bucket(r, b, n)
    BY <1>1, <1>3 DEF Bucket
  <2>2. Cardinality(Bucket(r, b, n) \cup {n + 1}) = Cardinality(Bucket(r, b, n)) + 1
    BY <2>1, BucketFinite, FS_AddElement
  <2>3. n + 1 - 1 = n
    OBVIOUS
  <2>4. Rank(r, n + 1) = Cardinality(Bucket(r, b, n))
    BY <1>3, <2>3 DEF Rank
  <2> QED
    BY <2>1, <2>2, <2>4
<1> QED
  BY <1>2, <1>3

\* lcs_shm_write enters a row in the slot that its rank says.
LEMMA EnterRow ==
  ASSUME NEW r \in Seq(Keys), NEW d, IsTable(d), NEW n \in 0 .. Len(r) - 1, Filled(r, d, n),
         NEW b, b = WriteIndex(r[n + 1], Len(r)),
         NEW e, IsTable(e), e.state = d.state, e.key = [d.key EXCEPT ![n] = r[n + 1]],
         e.h = IF b \in DOMAIN d.h THEN [d.h EXCEPT ![b] = Entered(d.h[b], n)] ELSE d.h
  PROVE  Filled(r, e, n + 1)
<1> Slots \in Nat \ {0} /\ MaxRows \in Nat
  BY TableAssumption
<1>0. n \in Nat /\ Len(r) \in Nat \ {0} /\ r[n + 1] \in Keys
  OBVIOUS
<1>1. /\ d.state = "made" /\ DOMAIN d.h = 0 .. Len(r)
      /\ d.key = [k \in 0 .. Len(r) |-> d.key[k]] /\ d.h = [k \in 0 .. Len(r) |-> d.h[k]]
      /\ \A k \in 1 .. n : d.key[k - 1] = r[k]
  BY DEF Filled
<1>2. b \in Int /\ b < Len(r)
  BY <1>0, IndexRange
<1>3. /\ e.key = [k \in 0 .. Len(r) |-> e.key[k]] /\ e.h = [k \in 0 .. Len(r) |-> e.h[k]]
      /\ DOMAIN e.h = 0 .. Len(r)
      /\ \A k \in 0 .. Len(r) : k # b => e.h[k] = d.h[k]
      /\ b \in 0 .. Len(r) => e.h[b] = Entered(d.h[b], n)
  BY <1>1
<1>4. \A k \in 1 .. n + 1 : e.key[k - 1] = r[k]
  <2> TAKE k \in 1 .. n + 1
  <2>1. k - 1 \in 0 .. Len(r) /\ (k - 1 = n <=> k = n + 1) /\ (k # n + 1 => k \in 1 .. n)
    BY <1>0
  <2>2. \A j \in 0 .. Len(r) : e.key[j] = IF j = n THEN r[n + 1] ELSE d.key[j]
    BY <1>1
  <2> QED
    BY <1>1, <2>1, <2>2
<1>5. ASSUME NEW c \in 0 .. Len(r) - 1
      PROVE  /\ e.h[c] \in [1 .. Slots -> Int]
             /\ \A t \in 1 .. Slots : t > Cardinality(Bucket(r, c, n + 1)) => e.h[c][t] = -1
             /\ \A t \in 1 .. Slots : t <= Cardinality(Bucket(r, c, n + 1)) =>
                  e.h[c][t] + 1 \in Bucket(r, c, n + 1) /\ Rank(r, e.h[c][t] + 1) = t - 1
             /\ \A k \in Bucket(r, c, n + 1) :
                  Rank(r, k) < Slots => e.h[c][Rank(r, k) + 1] = k - 1
  <2> DEFINE s == d.h[c]
             z == Cardinality(Bucket(r, c, n))
             w == e.h[c]
  <2>0. /\ s \in [1 .. Slots -> Int]
        /\ \A t \in 1 .. Slots : t > z => s[t] = -1
        /\ \A t \in 1 .. Slots : t <= z =>
             s[t] + 1 \in Bucket(r, c, n) /\ Rank(r, s[t] + 1) = t - 1
        /\ \A k \in Bucket(r, c, n) : Rank(r, k) < Slots => s[Rank(r, k) + 1] = k - 1
    BY DEF Filled
  <2>1. z \in Nat
    BY <1>0, BucketFinite
  <2>2. CASE c # b
    <3>1. w = s
      BY <1>3, <2>2
    <3>2. Bucket(r, c, n + 1) = Bucket(r, c, n)
      BY <1>0, <2>2, BucketGrows
    <3> QED
      BY <2>0, <3>1, <3>2
  <2>3. CASE c = b
    <3>1. /\ Bucket(r, c, n + 1) = Bucket(r, c, n) \cup {n + 1}
          /\ Cardinality(Bucket(r, c, n + 1)) = z + 1
          /\ Rank(r, n + 1) = z
      BY <1>0, <2>3, BucketGrows
    <3>2. w = Entered(s, n)
      BY <1>3, <2>3
    <3>3. \A k \in Bucket(r, c, n) : k \in 1 .. n /\ Rank(r, k) \in Nat
      <4> TAKE k \in Bucket(r, c, n)
      <4>1. k \in 1 .. n /\ k - 1 \in Nat
        BY DEF Bucket
      <4> QED
        BY <4>1, BucketFinite DEF Rank
    <3> DEFINE free == {t \in 1 .. Slots : s[t] < 0}
    <3>4. free = {t \in 1 .. Slots : t > z}
      <4>1. ASSUME NEW t \in 1 .. Slots PROVE s[t] < 0 <=> t > z
        <5>1. CASE t > z
          BY <2>0, <5>1
        <5>2. CASE t <= z
          <6>1. s[t] + 1 \in 1 .. n /\ s[t] \in Int
            BY <2>0, <3>3, <5>2
          <6> QED
            BY <2>1, <5>2, <6>1
        <5> QED
          BY <2>1, <5>1, <5>2
      <4> QED
        BY <4>1
    <3> HIDE DEF z, s, w
    <3>5. CASE z >= Slots
      <4>1. free = {}
        BY <2>1, <3>4, <3>5
      <4>2. w = s
        BY <3>2, <4>1 DEF Entered
      <4>3. \A t \in 1 .. Slots : t <= z
        BY <2>1, <3>5
      <4>4. \A k \in Bucket(r, c, n + 1) : Rank(r, k) < Slots => w[Rank(r, k) + 1] = k - 1
        BY <2>0, <2>1, <3>1, <3>5, <4>2
      <4>5. \A t \in 1 .. Slots : t <= z + 1 => w[t] + 1 \in Bucket(r, c, n + 1) /\ Rank(r, w[t] + 1) = t - 1
        BY <2>0, <3>1, <4>2, <4>3
      <4>6. \A t \in 1 .. Slots : t > z + 1 => w[t] = -1
        BY <2>1, <3>5
      <4> QED
        BY <2>0, <3>1, <4>2, <4>4, <4>5, <4>6 DEF w
    <3>6. CASE z < Slots
      <4>1. z + 1 \in free /\ \A t \in free : z + 1 <= t
        BY <2>1, <3>4, <3>6
      <4>2. w = [s EXCEPT ![z + 1] = n]
        <5>1. (CHOOSE t \in free : \A u \in free : t <= u) = z + 1
          <6>1. \A t \in free : t \in Int
            BY <3>4
          <6>2. \A t \in free : (\A u \in free : t <= u) => t = z + 1
            BY <2>1, <4>1, <6>1
          <6> HIDE DEF free
          <6> QED
            BY <4>1, <6>2
        <5>2. free # {}
          BY <4>1
        <5> QED
          BY <3>2, <5>1, <5>2 DEF Entered
      <4>3. z + 1 \in 1 .. Slots
        BY <2>1, <3>6
      <4>4. w \in [1 .. Slots -> Int] /\ w[z + 1] = n /\ \A t \in 1 .. Slots : t # z + 1 => w[t] = s[t]
        BY <1>0, <2>0, <4>2, <4>3
      <4>5. ASSUME NEW t \in 1 .. Slots, t > z + 1 PROVE w[t] = -1
        <5>1. t > z /\ t # z + 1
          BY <2>1, <4>5
        <5> HIDE DEF free
        <5>2. w[t] = s[t] /\ s[t] = -1
          BY <2>0, <4>4, <5>1
        <5> QED
          BY <5>2
      <4>6. ASSUME NEW t \in 1 .. Slots, t <= z + 1
            PROVE  w[t] + 1 \in Bucket(r, c, n + 1) /\ Rank(r, w[t] + 1) = t - 1
        <5>1. CASE t = z + 1
          BY <2>1, <3>1, <4>4, <5>1
        <5>2. CASE t # z + 1
          <6>1. t <= z /\ w[t] = s[t]
            BY <2>1, <4>4, <4>6, <5>2
          <6> QED
            BY <2>0, <3>1, <6>1
        <5> QED
          BY <5>1, <5>2
      <4>7. ASSUME NEW k \in Bucket(r, c, n + 1), Rank(r, k) < Slots
            PROVE  w[Rank(r, k) + 1] = k - 1
        <5>1. CASE k = n + 1
          BY <1>0, <3>1, <4>4, <5>1
        <5>2. CASE k # n + 1
          <6>1. k \in Bucket(r, c, n)
            BY <3>1, <5>2
          <6>2. k \in 1 .. n /\ Rank(r, k) \in Nat /\ s[Rank(r, k) + 1] = k - 1
            BY <2>0, <3>3, <4>7, <6>1
          <6>3. Rank(r, k) # z
            BY <2>0, <2>1, <4>3, <6>2
          <6>4. Rank(r, k) + 1 \in 1 .. Slots /\ Rank(r, k) + 1 # z + 1
            BY <2>1, <4>7, <6>2, <6>3
          <6> HIDE DEF free
          <6>5. w[Rank(r, k) + 1] = s[Rank(r, k) + 1]
            BY <4>4, <6>4
          <6> QED
            BY <6>2, <6>5
        <5> QED
          BY <5>1, <5>2
      <4> QED
        BY <3>1, <4>4, <4>5, <4>6, <4>7 DEF w
    <3> QED
      BY <2>1, <3>5, <3>6
  <2> QED
    BY <2>2, <2>3
<1> QED
  BY <1>1, <1>3, <1>4, <1>5 DEF Filled

\* The shape of the state, and what a run holds before it has made the regions.
RunInv ==
  /\ IsNumber(num) /\ IsTable(data) /\ rows \in Seq(Keys) /\ i \in 0 .. Len(rows)
  /\ (num.state = "none" => num = NoNum) /\ (data.state = "none" => data = NoData)
  /\ stage \in {"num", "n", "data", "slots", "write"} =>
       rows # <<>> /\ found = "none" /\ query = NoKey
  /\ stage \in {"num", "n", "data", "slots"} => i = 0
  /\ stage \in {"idle", "removing"} => rows = <<>> /\ i = 0 /\ found = "none" /\ query = NoKey
  /\ stage # "idle" => ended = FALSE

\* What each stage of a run has made; a run that finds a region makes nothing.
MakingInv ==
  /\ stage = "num" /\ clean => num = NoNum /\ data = NoData
  /\ stage = "n" => num.state = "made" /\ (clean => data = NoData)
  /\ stage = "data" => Made(num, Len(rows)) /\ (clean => data = NoData)
  /\ stage = "slots" =>
       /\ Made(num, Len(rows)) /\ data.state = "made"
       /\ data.key = [k \in 0 .. Len(rows) |-> NoKey]
       /\ data.h = [b \in 0 .. Len(rows) |-> [t \in 1 .. Slots |-> 0]]
  /\ stage = "write" => Made(num, Len(rows)) /\ Filled(rows, data, i)
  /\ stage \in {"analysis", "lookup", "unlink"} /\ clean /\ rows # <<>> =>
       Made(num, Len(rows)) /\ Filled(rows, data, Len(rows))

\* What a lookup in rows r has to find.
Answer(r, x, f) ==
  /\ f # "dead"
  /\ x # NoKey =>
       /\ f = "hit" => \E k \in 1 .. Len(r) : r[k] = x /\ Rank(r, k) < Slots
       /\ Fits(x) => \A k \in 1 .. Len(r) : r[k] = x /\ Rank(r, k) < Slots => f = "hit"

FoundInv ==
  /\ \A x \in outside : x \in Numbers /\ ~Fits(x)
  /\ clean /\ rows # <<>> => Answer(rows, query, found)

\* Once the directory is listed, a region is in the listing or was made since.
Swept(r, name) == r.state # "none" => name \in listed \/ (stray /\ r.state = "empty")

SweepInv ==
  /\ stage # "removing" => listed = {}
  /\ stage = "removing" \/ (stage = "idle" /\ ended) => Swept(num, "num") /\ Swept(data, "data")

AgentInv == RunInv /\ MakingInv /\ FoundInv /\ SweepInv

LEMMA InitAgentInv == TableInit => AgentInv
<1> SUFFICES ASSUME TableInit PROVE AgentInv
  OBVIOUS
<1>1. RunInv
  BY DEF TableInit, RunInv, IsNumber, IsTable, NoNum, NoData
<1> QED
  BY <1>1 DEF TableInit, AgentInv, MakingInv, FoundInv, SweepInv, Swept, NoNum, NoData

\* shmcreate up to the loop over the rows.
LEMMA CountAgentInv == AgentInv /\ Count => AgentInv'
<1> SUFFICES ASSUME AgentInv, Count PROVE AgentInv'
  OBVIOUS
<1> Slots \in Nat \ {0} /\ MaxRows \in Nat
  BY TableAssumption
<1>1. /\ stage = "idle" /\ num' = num /\ data' = data /\ i' = i /\ found' = found /\ query' = query
      /\ stage' = (IF rows' = <<>> THEN "analysis" ELSE "num") /\ ended' = FALSE /\ listed' = listed
      /\ clean' = (num.state = "none" /\ data.state = "none") /\ outside' = outside
  BY DEF Count, regions, reader, removal
<1>2. rows' \in Seq(Keys) /\ Len(rows') \in Nat
  <2>1. PICK c \in 0 .. MaxRows : rows' \in [1 .. c -> Keys]
    BY DEF Count, Tables
  <2> QED
    BY <2>1
<1>3. i = 0 /\ found = "none" /\ query = NoKey
  BY <1>1 DEF AgentInv, RunInv
<1>4. RunInv'
  BY <1>1, <1>2, <1>3 DEF AgentInv, RunInv, IsNumber, IsTable
<1>5. MakingInv'
  <2>1. (num.state = "none" => num = NoNum) /\ (data.state = "none" => data = NoData)
    BY DEF AgentInv, RunInv
  <2> QED
    BY <1>1, <2>1 DEF MakingInv
<1>6. FoundInv'
  BY <1>1, <1>3 DEF AgentInv, FoundInv, Answer
<1> QED
  BY <1>1, <1>4, <1>5, <1>6 DEF AgentInv, SweepInv

LEMMA CreateAgentInv == AgentInv /\ (CreateNum \/ SetN \/ CreateData) => AgentInv'
<1> SUFFICES ASSUME AgentInv, CreateNum \/ SetN \/ CreateData PROVE AgentInv'
  OBVIOUS
<1> Slots \in Nat \ {0} /\ MaxRows \in Nat
  BY TableAssumption
<1>1. /\ stage \in {"num", "n", "data"} /\ stage' \in {"n", "data", "slots", "analysis"}
      /\ rows' = rows /\ i' = i /\ found' = found /\ query' = query
      /\ ended' = ended /\ listed' = listed /\ clean' = clean /\ outside' = outside
  BY DEF CreateNum, SetN, CreateData, reader, removal
<1>2. i = 0 /\ found = "none" /\ query = NoKey /\ rows # <<>> /\ rows \in Seq(Keys) /\ ended = FALSE
  BY <1>1 DEF AgentInv, RunInv
<1>3. /\ IsNumber(num) /\ IsTable(data)
      /\ (num.state = "none" => num = NoNum) /\ (data.state = "none" => data = NoData)
  BY DEF AgentInv, RunInv
<1>4. /\ IsNumber(num)' /\ IsTable(data)'
      /\ (num'.state = "none" => num' = NoNum) /\ (data'.state = "none" => data' = NoData)
      /\ MakingInv'
  <2>1. CASE CreateNum
    <3>1. stage = "num" /\ data' = data
      BY <2>1 DEF CreateNum
    <3>2. clean => num = NoNum /\ data = NoData
      BY <3>1 DEF AgentInv, MakingInv
    <3>3. \/ num.state # "none" /\ stage' = "analysis" /\ num' = num
          \/ stage' = "n" /\ num' = [state |-> "made", n |-> 0]
      BY <2>1 DEF CreateNum
    <3>4. NoNum.state = "none"
      BY DEF NoNum
    <3> QED
      BY <1>1, <1>3, <3>1, <3>2, <3>3, <3>4 DEF MakingInv, IsNumber, IsTable
  <2>2. CASE SetN
    <3>1. stage = "n" /\ data' = data /\ stage' = "data" /\ num' = [num EXCEPT !.n = Len(rows)]
      BY <2>2 DEF SetN
    <3>2. num.state = "made" /\ (clean => data = NoData)
      BY <3>1 DEF AgentInv, MakingInv
    <3>3. num' = [state |-> "made", n |-> Len(rows)]
      BY <1>3, <3>1, <3>2 DEF IsNumber
    <3>4. num'.state = "made"
      BY <3>3
    <3> QED
      BY <1>1, <1>3, <3>1, <3>2, <3>3, <3>4 DEF MakingInv, IsNumber, IsTable, Made
  <2>3. CASE CreateData
    <3>1. stage = "data" /\ num' = num
      BY <2>3 DEF CreateData
    <3>2. Made(num, Len(rows)) /\ (clean => data = NoData)
      BY <3>1 DEF AgentInv, MakingInv
    <3>3. NoData.state = "none"
      BY DEF NoData
    <3>4. CASE data.state # "none" /\ stage' = "analysis" /\ data' = data
      BY <1>1, <1>3, <3>1, <3>2, <3>3, <3>4 DEF MakingInv, IsNumber, IsTable
    <3>5. CASE /\ stage' = "slots"
               /\ data' = [state |-> "made", key |-> [k \in 0 .. Len(rows) |-> NoKey],
                           h |-> [b \in 0 .. Len(rows) |-> [t \in 1 .. Slots |-> 0]]]
      <4>1. /\ data'.state = "made" /\ data'.key = [k \in 0 .. Len(rows) |-> NoKey]
            /\ data'.h = [b \in 0 .. Len(rows) |-> [t \in 1 .. Slots |-> 0]]
            /\ IsTable(data)'
        BY <3>5 DEF IsTable
      <4> QED
        BY <1>1, <1>3, <3>1, <3>2, <3>5, <4>1 DEF MakingInv, IsNumber
    <3> QED
      BY <2>3, <3>4, <3>5 DEF CreateData
  <2> QED
    BY <2>1, <2>2, <2>3
<1>5. RunInv'
  BY <1>1, <1>2, <1>4 DEF AgentInv, RunInv
<1>6. FoundInv'
  BY <1>1, <1>2 DEF AgentInv, FoundInv, Answer
<1> QED
  BY <1>1, <1>4, <1>5, <1>6 DEF AgentInv, SweepInv

LEMMA SetSlotsAgentInv == AgentInv /\ SetSlots => AgentInv'
<1> SUFFICES ASSUME AgentInv, SetSlots PROVE AgentInv'
  OBVIOUS
<1> Slots \in Nat \ {0} /\ MaxRows \in Nat
  BY TableAssumption
<1>1. /\ stage = "slots" /\ stage' = "write" /\ num' = num
      /\ rows' = rows /\ i' = i /\ found' = found /\ query' = query
      /\ ended' = ended /\ listed' = listed /\ clean' = clean /\ outside' = outside
      /\ data' = [data EXCEPT !.h = [b \in DOMAIN data.h |->
                    IF b < Len(rows) THEN [t \in 1 .. Slots |-> -1] ELSE data.h[b]]]
  BY DEF SetSlots, reader, removal
<1>2. /\ i = 0 /\ found = "none" /\ query = NoKey /\ rows # <<>> /\ rows \in Seq(Keys)
      /\ ended = FALSE /\ IsNumber(num) /\ IsTable(data)
      /\ num.state = "none" => num = NoNum
  BY <1>1 DEF AgentInv, RunInv
<1>3. /\ Made(num, Len(rows)) /\ data.state = "made"
      /\ data.key = [k \in 0 .. Len(rows) |-> NoKey]
      /\ data.h = [b \in 0 .. Len(rows) |-> [t \in 1 .. Slots |-> 0]]
  BY <1>1 DEF AgentInv, MakingInv
<1>4. /\ data'.state = "made" /\ data'.key = data.key /\ IsTable(data)'
      /\ data'.h = [b \in 0 .. Len(rows) |->
                      IF b < Len(rows) THEN [t \in 1 .. Slots |-> -1] ELSE data.h[b]]
  BY <1>1, <1>2, <1>3 DEF IsTable
<1>5. Filled(rows, data', 0)
  <2>1. Len(rows) \in Nat
    BY <1>2
  <2>2. \A b : Bucket(rows, b, 0) = {} /\ Cardinality(Bucket(rows, b, 0)) = 0
    <3>1. \A b : Bucket(rows, b, 0) = {}
      BY DEF Bucket
    <3> QED
      BY <3>1, FS_EmptySet
  <2>3. ASSUME NEW b \in 0 .. Len(rows) - 1 PROVE data'.h[b] = [t \in 1 .. Slots |-> -1]
    BY <1>4, <2>1
  <2>4. ASSUME NEW b \in 0 .. Len(rows) - 1
        PROVE  /\ data'.h[b] \in [1 .. Slots -> Int]
               /\ \A t \in 1 .. Slots : data'.h[b][t] = -1 /\ ~(t <= 0)
    BY <2>3
  <2>5. 1 .. 0 = {} /\ DOMAIN data'.h = 0 .. Len(rows)
    BY <1>4
  <2>6. data'.h = [b \in 0 .. Len(rows) |-> data'.h[b]] /\ data'.key = [k \in 0 .. Len(rows) |-> data'.key[k]]
    BY <1>3, <1>4
  <2> QED
    BY <1>4, <2>2, <2>4, <2>5, <2>6 DEF Filled
<1>6. MakingInv'
  BY <1>1, <1>2, <1>3, <1>5 DEF MakingInv
<1>7. RunInv'
  BY <1>1, <1>2, <1>4 DEF AgentInv, RunInv
<1>8. FoundInv'
  BY <1>1, <1>2 DEF AgentInv, FoundInv, Answer
<1> QED
  BY <1>1, <1>6, <1>7, <1>8 DEF AgentInv, SweepInv

LEMMA WriteAgentInv == AgentInv /\ lcs_shm_write => AgentInv'
<1> SUFFICES ASSUME AgentInv, lcs_shm_write PROVE AgentInv'
  OBVIOUS
<1> Slots \in Nat \ {0} /\ MaxRows \in Nat
  BY TableAssumption
<1> DEFINE x == rows[i + 1]
           b == WriteIndex(x, num.n)
           D == [data EXCEPT !.key[i] = x]
<1>1. /\ stage = "write" /\ i < Len(rows) /\ num' = num
      /\ rows' = rows /\ found' = found /\ query' = query /\ ended' = ended /\ listed' = listed
      /\ \/ /\ b \in DOMAIN data.h
            /\ data' = [D EXCEPT !.h[b] = Entered(@, i)]
            /\ i' = i + 1 /\ stage' = stage /\ clean' = clean /\ outside' = outside
         \/ /\ b \notin DOMAIN data.h
            /\ data' = D /\ i' = i + 1 /\ outside' = outside \cup {x} /\ stage' = stage /\ clean' = clean
         \/ /\ b \notin DOMAIN data.h
            /\ stage' = "analysis" /\ clean' = FALSE /\ outside' = outside \cup {x}
            /\ data' = data /\ i' = i
  BY DEF lcs_shm_write, reader, removal
<1>2. /\ found = "none" /\ query = NoKey /\ rows # <<>> /\ rows \in Seq(Keys) /\ i \in 0 .. Len(rows)
      /\ ended = FALSE /\ IsNumber(num) /\ IsTable(data)
      /\ (num.state = "none" => num = NoNum) /\ (data.state = "none" => data = NoData)
  BY <1>1 DEF AgentInv, RunInv
<1>3. Made(num, Len(rows)) /\ Filled(rows, data, i)
  BY <1>1 DEF AgentInv, MakingInv
<1>4. num.n = Len(rows) /\ Len(rows) \in Nat \ {0} /\ i \in 0 .. Len(rows) - 1 /\ x \in Keys
  <2>1. num.n = Len(rows)
    BY <1>3 DEF Made
  <2> QED
    BY <1>1, <1>2, <2>1
<1>5. /\ data.state = "made" /\ DOMAIN data.h = 0 .. Len(rows)
      /\ data.key = [k \in 0 .. Len(rows) |-> data.key[k]] /\ data.h = [k \in 0 .. Len(rows) |-> data.h[k]]
  BY <1>3 DEF Filled
<1>6. b \in Int /\ b < Len(rows) /\ (b < 0 => x \in Numbers /\ ~Fits(x))
  BY <1>4, IndexRange
<1>7. b \notin DOMAIN data.h => x \in Numbers /\ ~Fits(x)
  BY <1>4, <1>5, <1>6
<1> HIDE DEF x, b
<1>8. /\ D.state = data.state /\ D.key = [data.key EXCEPT ![i] = x] /\ D.h = data.h /\ IsTable(D)
  BY <1>2 DEF IsTable
<1> HIDE DEF D
<1>9. ASSUME i' = i + 1, data' = [D EXCEPT !.h[b] = Entered(@, i)], b \in DOMAIN data.h
      PROVE  IsTable(data') /\ Filled(rows, data', i + 1) /\ data'.state = "made"
  <2>1. /\ data'.state = data.state /\ data'.key = [data.key EXCEPT ![i] = x]
        /\ data'.h = [data.h EXCEPT ![b] = Entered(data.h[b], i)] /\ IsTable(data')
    BY <1>8, <1>9 DEF IsTable
  <2>2. data'.h = IF b \in DOMAIN data.h THEN [data.h EXCEPT ![b] = Entered(data.h[b], i)] ELSE data.h
    BY <1>9, <2>1
  <2>3. b = WriteIndex(rows[i + 1], Len(rows))
    BY <1>4 DEF b, x
  <2>4. data'.key = [data.key EXCEPT ![i] = rows[i + 1]]
    BY <2>1 DEF x
  <2> QED
    BY <1>2, <1>3, <1>4, <1>5, <2>1, <2>2, <2>3, <2>4, EnterRow
<1>10. ASSUME i' = i + 1, data' = D, b \notin DOMAIN data.h
       PROVE  IsTable(data') /\ Filled(rows, data', i + 1) /\ data'.state = "made"
  <2>1. data'.h = IF b \in DOMAIN data.h THEN [data.h EXCEPT ![b] = Entered(data.h[b], i)] ELSE data.h
    BY <1>8, <1>10
  <2>2. b = WriteIndex(rows[i + 1], Len(rows))
    BY <1>4 DEF b, x
  <2>3. data'.key = [data.key EXCEPT ![i] = rows[i + 1]] /\ data'.state = data.state /\ IsTable(data')
    BY <1>8, <1>10 DEF x
  <2> QED
    BY <1>2, <1>3, <1>4, <1>5, <2>1, <2>2, <2>3, EnterRow
<1>11. /\ IsTable(data') /\ data'.state = "made" /\ i' \in 0 .. Len(rows)
       /\ stage' = "write" => Filled(rows, data', i')
  BY <1>1, <1>2, <1>4, <1>5, <1>9, <1>10
<1>12. stage' \in {"write", "analysis"} /\ (stage' = "analysis" => clean' = FALSE) /\ (clean' => clean)
  BY <1>1
<1>13. MakingInv'
  BY <1>1, <1>3, <1>11, <1>12 DEF MakingInv
<1>14. RunInv'
  BY <1>1, <1>2, <1>11, <1>12 DEF RunInv
<1>15. FoundInv'
  <2>1. \A y \in outside' : y \in Numbers /\ ~Fits(y)
    BY <1>1, <1>7 DEF AgentInv, FoundInv
  <2> QED
    BY <1>1, <1>2, <2>1 DEF FoundInv, Answer
<1> QED
  BY <1>1, <1>2, <1>12, <1>13, <1>14, <1>15 DEF AgentInv, SweepInv

\* The ends of the stages, and the deaths: no row is entered and none looked up.
LEMMA MoveAgentInv ==
  AgentInv /\ (Written \/ Dies \/ AnalysisEnds \/ ParentDies) => AgentInv'
<1> SUFFICES ASSUME AgentInv, Written \/ Dies \/ AnalysisEnds \/ ParentDies PROVE AgentInv'
  OBVIOUS
<1> Slots \in Nat \ {0} /\ MaxRows \in Nat
  BY TableAssumption
<1>1. /\ stage \in {"num", "n", "data", "slots", "write", "analysis", "lookup"}
      /\ stage' \in {"analysis", "unlink"}
      /\ stage = "write" /\ clean' => i = Len(rows) /\ clean
      /\ stage # "write" /\ clean' => stage \in {"analysis", "lookup"} /\ clean
      /\ num' = num /\ data' = data /\ rows' = rows /\ i' = i /\ found' = found /\ query' = query
      /\ ended' = ended /\ listed' = listed /\ outside' = outside
  BY DEF Written, Dies, AnalysisEnds, ParentDies, regions, reader, removal
<1>2. RunInv'
  BY <1>1 DEF AgentInv, RunInv, IsTable, IsNumber
<1>3. MakingInv'
  BY <1>1 DEF AgentInv, MakingInv
<1>4. FoundInv'
  BY <1>1 DEF AgentInv, FoundInv
<1> QED
  BY <1>1, <1>2, <1>3, <1>4 DEF AgentInv, SweepInv

\* Opening the regions makes the missing ones, without a byte.
LEMMA OpenedShape ==
  ASSUME RunInv, lcs_read_shmagent
  PROVE  /\ IsNumber(num') /\ (num'.state = "none" => num' = NoNum)
         /\ IsTable(data') /\ (data'.state = "none" => data' = NoData)
         /\ num.state # "none" => num' = num
         /\ data.state # "none" => data' = data
         /\ num' # num => num'.state = "empty"
         /\ data' # data => data'.state = "empty"
<1> Slots \in Nat \ {0} /\ MaxRows \in Nat
  BY TableAssumption
<1>1. /\ num' = IF num.state = "none" THEN [NoNum EXCEPT !.state = "empty"] ELSE num
      /\ data' = data \/ (data.state = "none" /\ data' = [NoData EXCEPT !.state = "empty"])
  BY DEF lcs_read_shmagent
<1>2. /\ IsNumber(num) /\ IsTable(data)
      /\ (num.state = "none" => num = NoNum) /\ (data.state = "none" => data = NoData)
  BY DEF RunInv
<1>3. /\ IsNumber(num') /\ (num'.state = "none" => num' = NoNum)
      /\ num.state # "none" => num' = num
      /\ num' # num => num'.state = "empty"
  <2>1. CASE num.state = "none"
    <3>1. num' = [state |-> "empty", n |-> 0]
      BY <1>1, <2>1 DEF NoNum
    <3> QED
      BY <2>1, <3>1 DEF IsNumber
  <2>2. CASE num.state # "none"
    BY <1>1, <1>2, <2>2
  <2> QED
    BY <2>1, <2>2
<1>4. /\ IsTable(data') /\ (data'.state = "none" => data' = NoData)
      /\ data.state # "none" => data' = data
      /\ data' # data => data'.state = "empty"
  <2>1. CASE data.state = "none" /\ data' = [NoData EXCEPT !.state = "empty"]
    <3>1. data' = [state |-> "empty", key |-> <<>>, h |-> <<>>]
      BY <2>1 DEF NoData
    <3> QED
      BY <2>1, <3>1 DEF IsTable
  <2>2. CASE data' = data
    BY <1>2, <2>2
  <2> QED
    BY <1>1, <2>1, <2>2
<1> QED
  BY <1>3, <1>4

LEMMA LoadAgentInv == AgentInv /\ Load => AgentInv'
<1> SUFFICES ASSUME AgentInv, Load PROVE AgentInv'
  OBVIOUS
<1> Slots \in Nat \ {0} /\ MaxRows \in Nat
  BY TableAssumption
<1>1. /\ stage = "analysis" /\ stage' \in {"analysis", "lookup"} /\ query' = NoKey
      /\ lcs_read_shmagent
      /\ num'.state # "empty" => found' = found
      /\ rows' = rows /\ i' = i /\ clean' = clean /\ ended' = ended /\ outside' = outside
      /\ listed' = listed
  BY DEF Load, removal
<1>2. rows \in Seq(Keys) /\ i \in 0 .. Len(rows) /\ ended = FALSE /\ RunInv
  BY <1>1 DEF AgentInv, RunInv
<1>3. /\ IsNumber(num') /\ (num'.state = "none" => num' = NoNum)
      /\ IsTable(data') /\ (data'.state = "none" => data' = NoData)
      /\ num.state # "none" => num' = num
      /\ data.state # "none" => data' = data
  BY <1>1, <1>2, OpenedShape
<1>4. ASSUME clean, rows # <<>>
      PROVE  num' = num /\ data' = data /\ found' = found
  <2>1. Made(num, Len(rows)) /\ Filled(rows, data, Len(rows))
    BY <1>1, <1>4 DEF AgentInv, MakingInv
  <2>2. num.state = "made" /\ data.state = "made"
    BY <2>1 DEF Made, Filled
  <2> QED
    BY <1>1, <1>3, <2>2
<1>5. RunInv'
  BY <1>1, <1>2, <1>3 DEF RunInv
<1>6. MakingInv'
  BY <1>1, <1>4 DEF AgentInv, MakingInv
<1>7. FoundInv'
  BY <1>1, <1>4 DEF AgentInv, FoundInv, Answer
<1> QED
  BY <1>1, <1>2, <1>5, <1>6, <1>7 DEF AgentInv, SweepInv

\* A late program may open the regions at every stage: a run whose regions it
\* makes is no longer undisturbed, and what it makes after the listing stays.
LEMMA LateLoadAgentInv == AgentInv /\ LateLoad => AgentInv'
<1> SUFFICES ASSUME AgentInv, LateLoad PROVE AgentInv'
  OBVIOUS
<1> Slots \in Nat \ {0} /\ MaxRows \in Nat
  BY TableAssumption
<1>1. /\ lcs_read_shmagent /\ stage' = stage /\ rows' = rows /\ i' = i
      /\ found' = found /\ query' = query /\ ended' = ended /\ outside' = outside
      /\ listed' = listed
      /\ clean' => clean /\ num' = num /\ data' = data
      /\ stray' = (stray \/ ~(num' = num /\ data' = data))
  BY DEF LateLoad, regions, reader
<1>2. RunInv
  BY DEF AgentInv
<1>3. /\ IsNumber(num') /\ (num'.state = "none" => num' = NoNum)
      /\ IsTable(data') /\ (data'.state = "none" => data' = NoData)
      /\ num.state # "none" => num' = num
      /\ data.state # "none" => data' = data
      /\ num' # num => num'.state = "empty"
      /\ data' # data => data'.state = "empty"
  BY <1>1, <1>2, OpenedShape
<1>4. RunInv'
  BY <1>1, <1>2, <1>3 DEF RunInv
<1>5. MakingInv'
  <2>1. stage = "n" => num' = num
    BY <1>3 DEF AgentInv, MakingInv
  <2>2. stage = "data" => num' = num
    BY <1>3 DEF AgentInv, MakingInv, Made
  <2>3. stage \in {"slots", "write"} => num' = num /\ data' = data
    BY <1>3 DEF AgentInv, MakingInv, Made, Filled
  <2> QED
    BY <1>1, <2>1, <2>2, <2>3 DEF AgentInv, MakingInv
<1>6. FoundInv'
  BY <1>1 DEF AgentInv, FoundInv
<1>7. SweepInv'
  BY <1>1, <1>3 DEF AgentInv, SweepInv, Swept
<1> QED
  BY <1>4, <1>5, <1>6, <1>7 DEF AgentInv

\* A lookup in a table that holds all its rows.
LEMMA LookupAnswer ==
  ASSUME AgentInv, NEW x \in Keys, Lookup(x), clean, rows # <<>>
  PROVE  Answer(rows, x, found')
<1> Slots \in Nat \ {0} /\ MaxRows \in Nat
  BY TableAssumption
<1> DEFINE b == ReadIndex(x, num.n)
           s == data.h[b]
<1>1. /\ stage = "lookup" /\ num.n # 0 =>
           \/ b < 0 /\ found' = "missed"
           \/ /\ b >= 0 /\ b \in DOMAIN data.h
              /\ found' = IF \E t \in 1 .. Slots : Hit(x, s, t) THEN "hit" ELSE "missed"
           \/ b >= 0 /\ b \notin DOMAIN data.h /\ found' \in {"dead", "missed"}
      /\ stage = "lookup"
  BY DEF Lookup
<1>2. Made(num, Len(rows)) /\ Filled(rows, data, Len(rows)) /\ rows \in Seq(Keys)
  BY <1>1 DEF AgentInv, MakingInv, RunInv
<1>3. Len(rows) \in Nat \ {0} /\ num.n = Len(rows)
  BY <1>2 DEF Made
<1>4. b \in Int /\ b < Len(rows) /\ (Fits(x) => b = WriteIndex(x, Len(rows)) /\ b >= 0)
  BY <1>3, IndexRange
<1>5. DOMAIN data.h = 0 .. Len(rows) /\ (b >= 0 => b \in DOMAIN data.h /\ b \in 0 .. Len(rows) - 1)
  BY <1>2, <1>3, <1>4 DEF Filled
<1>6. CASE b < 0
  BY <1>1, <1>3, <1>4, <1>5, <1>6 DEF Answer
<1>7. CASE b >= 0
  <2> DEFINE z == Cardinality(Bucket(rows, b, Len(rows)))
             hit == \E t \in 1 .. Slots : Hit(x, s, t)
  <2>1. found' = IF hit THEN "hit" ELSE "missed"
    BY <1>1, <1>3, <1>4, <1>5, <1>7
  <2>2. /\ s \in [1 .. Slots -> Int]
        /\ \A t \in 1 .. Slots : t > z => s[t] = -1
        /\ \A t \in 1 .. Slots : t <= z =>
             s[t] + 1 \in Bucket(rows, b, Len(rows)) /\ Rank(rows, s[t] + 1) = t - 1
        /\ \A k \in Bucket(rows, b, Len(rows)) : Rank(rows, k) < Slots => s[Rank(rows, k) + 1] = k - 1
    BY <1>2, <1>5, <1>7 DEF Filled
  <2>3. /\ data.key = [k \in 0 .. Len(rows) |-> data.key[k]]
        /\ \A k \in 1 .. Len(rows) : data.key[k - 1] = rows[k]
    BY <1>2 DEF Filled
  <2>4. z \in Nat
    BY <1>3, BucketFinite
  <2>5. \A k \in Bucket(rows, b, Len(rows)) :
          k \in 1 .. Len(rows) /\ WriteIndex(rows[k], Len(rows)) = b /\ Rank(rows, k) \in Nat
    <3> TAKE k \in Bucket(rows, b, Len(rows))
    <3>1. k \in 1 .. Len(rows) /\ k - 1 \in Nat /\ WriteIndex(rows[k], Len(rows)) = b
      BY <1>3 DEF Bucket
    <3> QED
      BY <3>1, BucketFinite DEF Rank
  <2> HIDE DEF b, s, z
  <2>6. ASSUME NEW t \in 1 .. Slots, s[t] >= 0
        PROVE  /\ t <= z /\ s[t] + 1 \in 1 .. Len(rows) /\ Rank(rows, s[t] + 1) = t - 1
               /\ s[t] \in DOMAIN data.key /\ data.key[s[t]] = rows[s[t] + 1]
    <3>1. s[t] \in Int
      BY <2>2
    <3>2. t <= z
      BY <2>2, <2>4, <2>6, <3>1
    <3>3. s[t] + 1 \in 1 .. Len(rows) /\ Rank(rows, s[t] + 1) = t - 1
      BY <2>2, <2>5, <3>2
    <3>4. s[t] \in 0 .. Len(rows) /\ s[t] = (s[t] + 1) - 1
      BY <1>3, <3>1, <3>3
    <3>5. data.key[s[t]] = rows[s[t] + 1]
      BY <2>3, <3>3, <3>4
    <3>6. s[t] \in DOMAIN data.key
      BY <2>3, <3>4
    <3> QED
      BY <3>2, <3>3, <3>5, <3>6
  <2>7. ASSUME hit
        PROVE  \E k \in 1 .. Len(rows) : rows[k] = x /\ Rank(rows, k) < Slots
    <3>1. PICK t \in 1 .. Slots : Hit(x, s, t)
      BY <2>7
    <3>2. s[t] >= 0 /\ data.key[s[t]] = x
      BY <3>1 DEF Hit
    <3>3. s[t] + 1 \in 1 .. Len(rows) /\ Rank(rows, s[t] + 1) = t - 1 /\ rows[s[t] + 1] = x
      BY <2>6, <3>2
    <3> QED
      BY <3>3
  <2>8. ASSUME Fits(x), NEW k \in 1 .. Len(rows), rows[k] = x, Rank(rows, k) < Slots
        PROVE  hit
    <3>1. k \in Bucket(rows, b, Len(rows))
      BY <1>4, <2>8 DEF Bucket
    <3> DEFINE T == {t \in 1 .. Slots : s[t] >= 0 /\ data.key[s[t]] = x}
    <3>2. Rank(rows, k) \in Nat /\ s[Rank(rows, k) + 1] = k - 1
      BY <2>2, <2>5, <2>8, <3>1
    <3>3. Rank(rows, k) + 1 \in T
      <4>1. Rank(rows, k) + 1 \in 1 .. Slots
        BY <2>8, <3>2
      <4>2. s[Rank(rows, k) + 1] >= 0 /\ data.key[s[Rank(rows, k) + 1]] = x
        BY <2>3, <2>8, <3>2
      <4> QED
        BY <4>1, <4>2
    <3>4. PICK t \in T : \A u \in T : t <= u
      <4>1. T \subseteq Nat /\ T # {}
        BY <3>3
      <4> HIDE DEF T
      <4> QED
        BY <4>1, SmallestOf
    <3>5. t \in 1 .. Slots /\ s[t] >= 0 /\ data.key[s[t]] = x /\ s[t] \in DOMAIN data.key /\ t <= z
      BY <2>6, <3>4
    <3>6. ASSUME NEW u \in 1 .. t PROVE s[u] >= 0
      <4>1. u \in 1 .. Slots /\ u <= z
        BY <2>4, <3>5
      <4>2. s[u] \in Int /\ s[u] + 1 \in 1 .. Len(rows)
        BY <2>2, <2>5, <4>1
      <4> QED
        BY <4>2
    <3>7. ASSUME NEW u \in 1 .. t - 1 PROVE data.key[s[u]] # x
      <4>1. u \in 1 .. Slots /\ u \in 1 .. t /\ ~(t <= u)
        BY <3>5
      <4>2. u \notin T
        BY <3>4, <4>1
      <4> QED
        BY <3>6, <4>1, <4>2
    <3>8. Hit(x, s, t)
      BY <3>5, <3>6, <3>7 DEF Hit
    <3> QED
      BY <3>5, <3>8
  <2> HIDE DEF hit
  <2> QED
    BY <2>1, <2>7, <2>8 DEF Answer
<1> QED
  BY <1>4, <1>6, <1>7

LEMMA LookupAgentInv == ASSUME NEW x \in Keys PROVE AgentInv /\ Lookup(x) => AgentInv'
<1> SUFFICES ASSUME AgentInv, Lookup(x) PROVE AgentInv'
  OBVIOUS
<1>1. /\ stage = "lookup" /\ stage' = "analysis" /\ query' = x
      /\ num' = num /\ data' = data /\ rows' = rows /\ i' = i /\ clean' = clean
      /\ ended' = ended /\ listed' = listed /\ outside' = outside
  BY DEF Lookup, regions, removal
<1>2. clean /\ rows # <<>> => Answer(rows, x, found')
  BY LookupAnswer
<1>3. RunInv'
  BY <1>1 DEF AgentInv, RunInv, IsTable, IsNumber
<1>4. MakingInv'
  BY <1>1 DEF AgentInv, MakingInv
<1>5. FoundInv'
  BY <1>1, <1>2 DEF AgentInv, FoundInv
<1> QED
  BY <1>1, <1>3, <1>4, <1>5 DEF AgentInv, SweepInv

\* The manager lists the directory or dies.
LEMMA EndAgentInv == AgentInv /\ (lcs_comm_list_files \/ ListOverrun \/ Kill) => AgentInv'
<1> SUFFICES ASSUME AgentInv, lcs_comm_list_files \/ ListOverrun \/ Kill PROVE AgentInv'
  OBVIOUS
<1>1. /\ rows' = <<>> /\ i' = 0 /\ found' = "none" /\ query' = NoKey /\ outside' = outside
      /\ stage # "idle" /\ num' = num /\ data' = data /\ ended' = ended
      /\ \/ stage' = "removing" /\ listed' = Regions
         \/ stage' = "idle" /\ (listed' = {} \/ (stage = "unlink" /\ listed' = listed))
  BY DEF lcs_comm_list_files, ListOverrun, Kill, Forget, regions, removal
<1>2. ended = FALSE
  BY <1>1 DEF AgentInv, RunInv
<1>3. RunInv'
  BY <1>1, <1>2 DEF AgentInv, RunInv, IsNumber, IsTable
<1>4. MakingInv'
  BY <1>1 DEF MakingInv
<1>5. FoundInv'
  BY <1>1 DEF AgentInv, FoundInv
<1>6. SweepInv'
  BY <1>1, <1>2 DEF AgentInv, SweepInv, Swept, Regions
<1> QED
  BY <1>3, <1>4, <1>5, <1>6 DEF AgentInv

\* One name of the listing after the other; at the end of the listing the run
\* has ended.
LEMMA UnlinkAgentInv == AgentInv /\ lcs_man_shm_unlink => AgentInv'
<1> SUFFICES ASSUME AgentInv, lcs_man_shm_unlink PROVE AgentInv'
  OBVIOUS
<1>1. /\ stage = "removing" /\ rows' = rows /\ i' = i /\ found' = found /\ query' = query
      /\ outside' = outside /\ stray' = stray
      /\ \/ /\ num' = NoNum /\ data' = data /\ listed' = listed \ {"num"}
            /\ stage' = stage /\ ended' = ended
         \/ /\ data' = NoData /\ num' = num /\ listed' = listed \ {"data"}
            /\ stage' = stage /\ ended' = ended
         \/ /\ listed = {} /\ stage' = "idle" /\ num' = num /\ data' = data /\ listed' = listed
  BY DEF lcs_man_shm_unlink, regions, reader
<1>2. /\ rows = <<>> /\ i = 0 /\ found = "none" /\ query = NoKey /\ IsNumber(num) /\ IsTable(data)
      /\ (num.state = "none" => num = NoNum) /\ (data.state = "none" => data = NoData)
      /\ ended = FALSE
  BY <1>1 DEF AgentInv, RunInv
<1>3. /\ IsNumber(num') /\ IsTable(data')
      /\ (num'.state = "none" => num' = NoNum) /\ (data'.state = "none" => data' = NoData)
  BY <1>1, <1>2 DEF IsNumber, IsTable, NoNum, NoData
<1>4. RunInv'
  BY <1>1, <1>2, <1>3 DEF RunInv
<1>5. MakingInv'
  BY <1>1 DEF MakingInv
<1>6. FoundInv'
  BY <1>1, <1>2 DEF AgentInv, FoundInv
<1>7. SweepInv'
  BY <1>1 DEF AgentInv, SweepInv, Swept, NoNum, NoData
<1> QED
  BY <1>4, <1>5, <1>6, <1>7 DEF AgentInv

LEMMA TableAgentInv == TableSpec => []AgentInv
<1>1. ASSUME AgentInv, UNCHANGED tableVars PROVE AgentInv'
  <2>1. /\ num' = num /\ data' = data /\ stage' = stage /\ rows' = rows /\ i' = i
        /\ found' = found /\ query' = query /\ clean' = clean /\ outside' = outside /\ ended' = ended
        /\ listed' = listed /\ stray' = stray
    BY <1>1 DEF tableVars, regions, reader, removal
  <2>2. RunInv' /\ MakingInv'
    BY <1>1, <2>1 DEF AgentInv, RunInv, MakingInv, IsTable, IsNumber
  <2> QED
    BY <1>1, <2>1, <2>2 DEF AgentInv, FoundInv, SweepInv, Swept
<1>2. AgentInv /\ [TableNext]_tableVars => AgentInv'
  BY <1>1, CountAgentInv, CreateAgentInv, SetSlotsAgentInv, WriteAgentInv, MoveAgentInv,
     LoadAgentInv, LateLoadAgentInv, LookupAgentInv, EndAgentInv, UnlinkAgentInv, Zenon DEF TableNext
<1> QED
  BY <1>2, InitAgentInv, PTL DEF TableSpec

\* For every set of agents and every size of a bucket: in a table that was
\* filled undisturbed a lookup finds the agents that are among the first of their
\* bucket, and no other; and only numbers that are negative or too large for
\* an int are written outside of the table.
THEOREM LookupRightHolds == TableSpec => []LookupRight
<1>1. AgentInv => LookupRight
  <2> SUFFICES ASSUME AgentInv PROVE LookupRight
    OBVIOUS
  <2>1. \A k : Cardinality(Before(k)) = Rank(rows, k)
    BY DEF Before, Rank, Bucket
  <2> QED
    BY <2>1 DEF AgentInv, FoundInv, Answer, LookupRight
<1> QED
  BY <1>1, TableAgentInv, PTL

\* A five-minute program never dies in a table that its run has filled.
THEOREM DeadOnlyIfHolds == TableSpec => []DeadOnlyIf
<1>1. AgentInv => DeadOnlyIf
  BY DEF AgentInv, FoundInv, Answer, DeadOnlyIf
<1> QED
  BY <1>1, TableAgentInv, PTL

\* Whatever runs were killed before it, in whatever order the directory lists the
\* regions and whenever late programs open them: a run that came to the end of
\* lcs_man_shm_unlink leaves no table, and no region but one that a late program
\* has made since the listing.
THEOREM HealedHolds == TableSpec => []Healed
<1>1. AgentInv => Healed
  BY DEF AgentInv, SweepInv, Swept, Healed
<1> QED
  BY <1>1, TableAgentInv, PTL
=============================================================================
