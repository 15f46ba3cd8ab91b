------------------------ MODULE SegmentSort_proofs ------------------------
(***************************************************************************)
(* The sorts are correct for every length and every comparison: the array  *)
(* is a permutation of what was given, and sorted when the sort ends.      *)
(*                                                                         *)
(* The argument: a segment is only changed inside, and every pair of       *)
(* positions that no segment holds together is in order.  An exchange      *)
(* inside a segment keeps that for the pairs with one position outside,    *)
(* because the partner inside is in the same relation to it, whichever     *)
(* element it was; the end of partition splits a segment where all that is *)
(* left of the split is not above all that is right of it.                 *)
(*                                                                         *)
(* The arrays of segments have room for all that are ever queued, and the  *)
(* file that lcs_hcollect005_sum makes of the sorted rows has one row for  *)
(* each hour with the sum of its calls.  Sums are taken by a fold whose    *)
(* order is left open; the lemmas on them show that it does not matter.    *)
(***************************************************************************)
EXTENDS Merge005, SequenceTheorems, FiniteSetTheorems, WellFoundedInduction, TLAPS

\* What the loop conditions leave at each point, and that a segment is not
\* empty.
Control ==
  /\ pc \in {"down", "up", "swap", "finish"} => low <= hi
  /\ pc = "finish" => j <= i
  /\ \A k \in 1 .. Len(todo) : todo[k].low <= todo[k].hi
  /\ pc = "done" => todo = <<>>

SInv == N # 0 /\ Types /\ Partitioned /\ Control /\ Disjoint /\ Settled

-----------------------------------------------------------------------------
(* Exchanging two elements.                                                *)

LEMMA SwappedType ==
  ASSUME data \in [Index -> Elem], NEW a \in Index, NEW b \in Index
  PROVE  /\ Swapped(a, b) \in [Index -> Elem]
         /\ \A p \in Index : Swapped(a, b)[p] =
              IF p = a THEN data[b] ELSE IF p = b THEN data[a] ELSE data[p]
  BY DEF Swapped

LEMMA SwappedPermuted ==
  ASSUME data \in [Index -> Elem], orig \in [Index -> Elem], Permuted,
         NEW a \in Index, NEW b \in Index, data' = Swapped(a, b), orig' = orig
  PROVE  Permuted'
<1>1. PICK f \in Perms : \A k \in Index : data[k] = orig[f[k]]
  BY DEF Permuted
<1> DEFINE g == [k \in Index |-> IF k = a THEN f[b] ELSE IF k = b THEN f[a] ELSE f[k]]
<1>2. f \in [Index -> Index] /\ \A x, y \in Index : f[x] = f[y] => x = y
  BY DEF Perms
<1>3. g \in [Index -> Index]
  BY <1>2
<1>4. ASSUME NEW x \in Index, NEW y \in Index, g[x] = g[y]
      PROVE  x = y
  BY <1>2, <1>4
<1>5. g \in Perms
  BY <1>3, <1>4 DEF Perms
<1>6. ASSUME NEW k \in Index
      PROVE  data'[k] = orig'[g[k]]
  <2>1. data'[k] = IF k = a THEN data[b] ELSE IF k = b THEN data[a] ELSE data[k]
    BY SwappedType
  <2>2. data[a] = orig[f[a]] /\ data[b] = orig[f[b]] /\ data[k] = orig[f[k]]
    BY <1>1
  <2>3. g[k] = IF k = a THEN f[b] ELSE IF k = b THEN f[a] ELSE f[k]
    OBVIOUS
  <2> HIDE DEF g
  <2> QED
    BY <2>1, <2>2, <2>3
<1> QED
  BY <1>5, <1>6 DEF Permuted

-----------------------------------------------------------------------------
(* Types.                                                                  *)

LEMMA InitSInv == Init /\ N # 0 => SInv
<1> SUFFICES ASSUME Init, N # 0 PROVE SInv
  OBVIOUS
<1> USE SortAssumption
<1> DEFINE all == [low |-> 0, hi |-> N - 1]
<1>1. all \in Segment /\ 0 \in Index /\ N - 1 \in Index
  BY DEF Index, Segment
<1>2. \/ todo = <<all>>
      \/ todo = <<>> /\ N = 1
  BY DEF Init
<1>3. Types
  BY <1>1, <1>2 DEF Init, Types, PCs
<1>4. Partitioned /\ Control /\ Disjoint
  BY <1>1, <1>2 DEF Init, Partitioned, Control, Disjoint, Busy
<1>5. Settled
  <2> SUFFICES ASSUME NEW p \in Index, NEW q \in Index, p < q
               PROVE  Together(p, q)
    BY DEF Settled
  <2>1. todo = <<all>>
    BY <1>2 DEF Index
  <2>2. todo[1] = all /\ 1 \in 1 .. Len(todo)
    BY <2>1
  <2>3. all \in Segments
    BY <2>2 DEF Segments
  <2>4. all.low <= p /\ q <= all.hi
    BY DEF Index
  <2> QED
    BY <2>3, <2>4 DEF Together
<1> QED
  BY <1>3, <1>4, <1>5 DEF SInv

-----------------------------------------------------------------------------
(* Taking a segment.                                                       *)

LEMMA TakeSInv == SInv /\ Take => SInv'
<1> SUFFICES ASSUME SInv, Take PROVE SInv'
  OBVIOUS
<1> USE SortAssumption
<1> N \in Nat \ {0}
  BY DEF SInv
<1>1. /\ todo \in Seq(Segment) /\ todo # <<>> /\ data \in [Index -> Elem]
      /\ pc = "take"
  BY DEF SInv, Types, Take
<1>2. /\ Len(todo) \in Nat /\ 1 \in 1 .. Len(todo) /\ Head(todo) = todo[1]
      /\ todo[1] \in Segment /\ todo' = Tail(todo) /\ Len(todo') = Len(todo) - 1
      /\ todo' \in Seq(Segment)
      /\ \A k \in 1 .. Len(todo') : k + 1 \in 1 .. Len(todo) /\ todo'[k] = todo[k + 1]
  BY <1>1 DEF Take
<1>3. /\ low' = todo[1].low /\ hi' = todo[1].hi /\ low' \in Index /\ hi' \in Index
      /\ low' <= hi' /\ i' = low' + 1 /\ j' = hi' /\ pc' = Scan(i', j')
      /\ data' = data /\ orig' = orig /\ style' = style /\ taken' = taken
  <2>1. low' = todo[1].low /\ hi' = todo[1].hi /\ low' \in Index /\ hi' \in Index /\ low' <= hi'
    BY <1>2 DEF Take, Segment, SInv, Control
  <2>2. ~(hi' < low')
    BY <2>1 DEF Index
  <2> QED
    BY <2>1, <2>2 DEF Take
<1>4. pc' \in {"down", "finish"} /\ (pc' = "down" <=> i' < j')
  BY <1>3 DEF Scan
<1>5. Types'
  <2>1. i' \in 0 .. N /\ j' \in Index
    BY <1>3 DEF Index
  <2>2. pc' \in PCs
    BY <1>4 DEF PCs
  <2> QED
    BY <1>1, <1>2, <1>3, <2>1, <2>2 DEF Types, SInv
<1>6. Partitioned'
  <2>1. /\ low' <= j' /\ j' <= hi' /\ low' < i' /\ i' <= j' + 1
        /\ low' < hi' => low' < j'
        /\ pc' # "finish" => i' <= j'
    BY <1>3, <1>4 DEF Index
  <2>2. low' + 1 .. i' - 1 = {} /\ j' + 1 .. hi' = {}
    BY <1>3 DEF Index
  <2>3. pc' # "up" /\ pc' # "swap"
    BY <1>4
  <2> QED
    BY <2>1, <2>2, <2>3 DEF Partitioned
<1>7. Control'
  <2>1. \A k \in 1 .. Len(todo') : todo'[k].low <= todo'[k].hi
    BY <1>2 DEF SInv, Control
  <2>2. pc' = "finish" => j' <= i'
    BY <1>3, <1>4 DEF Index
  <2> QED
    BY <1>3, <1>4, <2>1, <2>2 DEF Control
<1>8. Disjoint'
  <2>0. \A k, h \in 1 .. Len(todo) :
          k # h => todo[k].hi < todo[h].low \/ todo[h].hi < todo[k].low
    BY DEF SInv, Disjoint
  <2>1. ASSUME NEW k \in 1 .. Len(todo'), NEW h \in 1 .. Len(todo'), k # h
        PROVE  todo'[k].hi < todo'[h].low \/ todo'[h].hi < todo'[k].low
    BY <1>2, <2>0, <2>1
  <2>2. ASSUME NEW k \in 1 .. Len(todo')
        PROVE  todo'[k].hi < low' \/ hi' < todo'[k].low
    BY <1>2, <1>3, <2>0
  <2> QED
    BY <2>1, <2>2 DEF Disjoint
<1>9. Settled'
  <2>1. Busy'
    BY <1>4 DEF Busy
  <2>2. ASSUME NEW k \in 1 .. Len(todo)
        PROVE  \E s \in Segments' : s.low = todo[k].low /\ s.hi = todo[k].hi
    <3>1. CASE k = 1
      <4>1. [low |-> low', hi |-> hi'] \in Segments'
        BY <2>1 DEF Segments
      <4> QED
        BY <4>1, <3>1, <1>3
    <3>2. CASE k # 1
      <4>1. k - 1 \in 1 .. Len(todo') /\ todo'[k - 1] = todo[k]
        BY <1>2, <3>2
      <4>2. todo[k] \in Segments'
        BY <4>1 DEF Segments
      <4> QED
        BY <4>2
    <3> QED
      BY <3>1, <3>2
  <2>3. Segments = {todo[k] : k \in 1 .. Len(todo)}
    BY <1>1 DEF Segments, Busy
  <2>4. ASSUME NEW p \in Index, NEW q \in Index, p < q, Together(p, q)
        PROVE  Together(p, q)'
    BY <2>2, <2>3, <2>4 DEF Together
  <2> QED
    BY <2>4, <1>3 DEF SInv, Settled
<1> QED
  BY <1>5, <1>6, <1>7, <1>8, <1>9 DEF SInv

LEMMA StopSInv == SInv /\ Stop => SInv'
<1> SUFFICES ASSUME SInv, Stop PROVE SInv'
  OBVIOUS
<1>1. Types'
  BY DEF SInv, Types, Stop, PCs
<1>2. Partitioned' /\ Control'
  BY DEF SInv, Partitioned, Control, Stop
<1>3. Disjoint'
  BY DEF SInv, Disjoint, Busy, Stop
<1>4. Segments' = Segments /\ data' = data
  BY DEF Stop, Segments, Busy
<1>5. Settled'
  BY <1>4 DEF SInv, Settled, Together
<1> QED
  BY <1>1, <1>2, <1>3, <1>5 DEF SInv

-----------------------------------------------------------------------------
(* Moving the two indices.                                                 *)

LEMMA ScanSInv == SInv /\ (Down \/ Up) => SInv'
<1> SUFFICES ASSUME SInv, Down \/ Up PROVE SInv'
  OBVIOUS
<1> USE SortAssumption
<1> N \in Nat \ {0}
  BY DEF SInv
<1>1. /\ data' = data /\ orig' = orig /\ style' = style /\ taken' = taken /\ todo' = todo
      /\ low' = low /\ hi' = hi
      /\ pc \in {"down", "up"} /\ pc' \in {"down", "up", "swap"}
  BY DEF Down, Up
<1>2. /\ low \in Index /\ hi \in Index /\ i \in 0 .. N /\ j \in Index
      /\ low <= j /\ j <= hi /\ low < i /\ i <= j /\ low < j
      /\ data \in [Index -> Elem]
      /\ \A p \in low + 1 .. i - 1 : Key[data[p]] <= Pivot
      /\ \A p \in j + 1 .. hi : Key[data[p]] >= Pivot
      /\ pc = "up" => (i < j => Key[data[j]] < Pivot)
  BY <1>1 DEF SInv, Types, Partitioned, Index
<1>3. \A p \in Index : Key[data[p]] \in Int
  BY <1>2
<1>4. Pivot' = Pivot /\ Pivot \in Int
  BY <1>1, <1>2, <1>3 DEF Pivot
<1>5. Types' /\ Partitioned'
  <2>1. CASE Down
    <3>1. i' = i /\ pc = "down"
      BY <2>1 DEF Down
    <3>2. CASE Pivot <= Key[data[j]] /\ i < j
      <4>1. j' = j - 1 /\ pc' = "down"
        BY <2>1, <3>2 DEF Down
      <4>2. \A p \in j' + 1 .. hi : Key[data[p]] >= Pivot
        BY <4>1, <3>2, <1>2, <1>3, <1>4 DEF Index
      <4>3. Types'
        BY <4>1, <3>1, <3>2, <1>1, <1>2 DEF Types, SInv, Index, PCs
      <4>4. low' < j' /\ i' <= j' /\ j' <= hi'
        BY <4>1, <3>1, <3>2, <1>1, <1>2 DEF Index
      <4> QED
        BY <4>1, <4>2, <4>3, <4>4, <3>1, <1>1, <1>2, <1>4 DEF Partitioned, Index
    <3>3. CASE ~(Pivot <= Key[data[j]] /\ i < j)
      <4>1. j' = j /\ pc' = "up"
        BY <2>1, <3>3 DEF Down
      <4>2. Types'
        BY <4>1, <3>1, <1>1, <1>2 DEF Types, SInv, PCs
      <4>3. i < j => Key[data[j]] < Pivot
        BY <3>3, <1>2, <1>3, <1>4
      <4> QED
        BY <4>1, <4>2, <4>3, <3>1, <1>1, <1>2, <1>4 DEF Partitioned, Index
    <3> QED
      BY <3>2, <3>3
  <2>2. CASE Up
    <3>1. j' = j /\ pc = "up"
      BY <2>2 DEF Up
    <3>2. CASE Pivot >= Key[data[i]] /\ i < j
      <4>1. i' = i + 1 /\ pc' = "up"
        BY <2>2, <3>1, <3>2 DEF Up
      <4>2. \A p \in low + 1 .. i' - 1 : Key[data[p]] <= Pivot
        BY <4>1, <3>2, <1>2, <1>3, <1>4 DEF Index
      <4>3. Types'
        BY <4>1, <3>1, <3>2, <1>1, <1>2 DEF Types, SInv, Index, PCs
      <4>4. low' < i' /\ i' <= j'
        BY <4>1, <3>1, <3>2, <1>1, <1>2 DEF Index
      <4>5. i' < j' => Key[data[j]] < Pivot
        BY <3>1, <3>2, <1>2
      <4> QED
        BY <4>1, <4>2, <4>3, <4>4, <4>5, <3>1, <1>1, <1>2, <1>4 DEF Partitioned, Index
    <3>3. CASE ~(Pivot >= Key[data[i]] /\ i < j)
      <4>1. i' = i /\ pc' = "swap"
        BY <2>2, <3>3 DEF Up
      <4>2. Types'
        BY <4>1, <3>1, <1>1, <1>2 DEF Types, SInv, PCs
      <4>3. i < j => Key[data[i]] > Pivot
        BY <3>3, <1>2, <1>3, <1>4 DEF Index
      <4> QED
        BY <4>1, <4>2, <4>3, <3>1, <1>1, <1>2, <1>4 DEF Partitioned, Index
    <3> QED
      BY <3>2, <3>3
  <2> QED
    BY <2>1, <2>2
<1>6. Control'
  BY <1>1, <1>2 DEF Control, SInv, Index
<1>7. Disjoint'
  BY <1>1 DEF SInv, Disjoint, Busy
<1>8. Segments' = Segments
  BY <1>1 DEF Segments, Busy
<1>9. Settled'
  BY <1>1, <1>8 DEF SInv, Settled, Together
<1> QED
  BY <1>5, <1>6, <1>7, <1>9 DEF SInv

-----------------------------------------------------------------------------
(* An exchange inside the segment in hand keeps the order of every pair    *)
(* that reaches outside of it.                                             *)

LEMMA Inside ==
  ASSUME SInv, Busy, NEW a \in low .. hi, NEW b \in low .. hi,
         NEW p \in Index, NEW q \in Index, p < q,
         ~(low <= p /\ q <= hi), ~Together(p, q)
  PROVE  Key[Swapped(a, b)[p]] <= Key[Swapped(a, b)[q]]
<1> USE SortAssumption
<1> N \in Nat \ {0}
  BY DEF SInv
<1>1. /\ low \in Index /\ hi \in Index /\ data \in [Index -> Elem]
      /\ todo \in Seq(Segment)
  BY DEF SInv, Types
<1>2. a \in Index /\ b \in Index
  BY <1>1 DEF Index
<1>3. \A x \in Index : Swapped(a, b)[x] =
        IF x = a THEN data[b] ELSE IF x = b THEN data[a] ELSE data[x]
  BY <1>1, <1>2, SwappedType
<1>4. ASSUME NEW x \in Index, NEW y \in Index, x < y, ~Together(x, y)
      PROVE  Key[data[x]] <= Key[data[y]]
  BY <1>4 DEF SInv, Settled
<1>5. \A k \in 1 .. Len(todo) :
        /\ todo[k].low \in Index /\ todo[k].hi \in Index
        /\ todo[k].low <= todo[k].hi
        /\ todo[k].hi < low \/ hi < todo[k].low
  <2> TAKE k \in 1 .. Len(todo)
  <2>1. todo[k] \in Segment
    BY <1>1
  <2>2. todo[k].low \in Index /\ todo[k].hi \in Index
    BY <2>1 DEF Segment
  <2>3. todo[k].low <= todo[k].hi
    BY DEF SInv, Control
  <2>4. todo[k].hi < low \/ hi < todo[k].low
    BY DEF SInv, Disjoint
  <2> QED
    BY <2>2, <2>3, <2>4
<1>6. ASSUME NEW x \in Index, NEW y \in Index, x < y,
             Together(x, y), ~(low <= x /\ y <= hi)
      PROVE  \E k \in 1 .. Len(todo) : todo[k].low <= x /\ y <= todo[k].hi
  BY <1>6 DEF Together, Segments
<1>7. \A k \in 1 .. Len(todo) : ~(todo[k].low <= p /\ q <= todo[k].hi)
  BY DEF Together, Segments
<1>8. CASE p < low /\ q \in low .. hi
  <2>1. ASSUME NEW y \in low .. hi
        PROVE  Key[data[p]] <= Key[data[y]]
    <3>1. y \in Index /\ p < y
      BY <1>1, <1>8 DEF Index
    <3>2. ~Together(p, y)
      <4> SUFFICES ASSUME Together(p, y) PROVE FALSE
        OBVIOUS
      <4>1. PICK k \in 1 .. Len(todo) : todo[k].low <= p /\ y <= todo[k].hi
        BY <1>6, <1>8, <3>1 DEF Index
      <4>2. /\ todo[k].low \in Int /\ todo[k].hi \in Int /\ low \in Int /\ hi \in Int
            /\ todo[k].hi < low \/ hi < todo[k].low
        BY <1>1, <1>5 DEF Index
      <4> QED
        BY <4>1, <4>2, <1>8 DEF Index
    <3> QED
      BY <3>1, <3>2, <1>4
  <2>2. Swapped(a, b)[p] = data[p]
    BY <1>1, <1>3, <1>8 DEF Index
  <2>3. \E y \in low .. hi : Swapped(a, b)[q] = data[y]
    BY <1>3, <1>8
  <2> QED
    BY <2>1, <2>2, <2>3
<1>9. CASE p \in low .. hi /\ hi < q
  <2>1. ASSUME NEW x \in low .. hi
        PROVE  Key[data[x]] <= Key[data[q]]
    <3>1. x \in Index /\ x < q
      BY <1>1, <1>9 DEF Index
    <3>2. ~Together(x, q)
      <4> SUFFICES ASSUME Together(x, q) PROVE FALSE
        OBVIOUS
      <4>1. PICK k \in 1 .. Len(todo) : todo[k].low <= x /\ q <= todo[k].hi
        BY <1>6, <1>9, <3>1 DEF Index
      <4>2. /\ todo[k].low \in Int /\ todo[k].hi \in Int /\ low \in Int /\ hi \in Int
            /\ todo[k].hi < low \/ hi < todo[k].low
        BY <1>1, <1>5 DEF Index
      <4> QED
        BY <4>1, <4>2, <1>9 DEF Index
    <3> QED
      BY <3>1, <3>2, <1>4
  <2>2. Swapped(a, b)[q] = data[q]
    BY <1>1, <1>3, <1>9 DEF Index
  <2>3. \E x \in low .. hi : Swapped(a, b)[p] = data[x]
    BY <1>3, <1>9
  <2> QED
    BY <2>1, <2>2, <2>3
<1>10. CASE p \notin low .. hi /\ q \notin low .. hi
  <2>1. Swapped(a, b)[p] = data[p] /\ Swapped(a, b)[q] = data[q]
    BY <1>3, <1>10
  <2> QED
    BY <2>1, <1>4
<1> QED
  BY <1>8, <1>9, <1>10, <1>1 DEF Index

LEMMA SwapSInv == SInv /\ Swap => SInv'
<1> SUFFICES ASSUME SInv, Swap PROVE SInv'
  OBVIOUS
<1> USE SortAssumption
<1> N \in Nat \ {0}
  BY DEF SInv
<1>1. /\ orig' = orig /\ style' = style /\ taken' = taken /\ todo' = todo /\ low' = low /\ hi' = hi
      /\ pc = "swap" /\ pc' = Scan(i', j')
  BY DEF Swap
<1>2. /\ low \in Index /\ hi \in Index /\ i \in 0 .. N /\ j \in Index
      /\ low <= j /\ j <= hi /\ low < i /\ i <= j /\ low < j
      /\ data \in [Index -> Elem] /\ low <= hi
      /\ \A p \in low + 1 .. i - 1 : Key[data[p]] <= Pivot
      /\ \A p \in j + 1 .. hi : Key[data[p]] >= Pivot
      /\ i < j => Key[data[j]] < Pivot
      /\ i < j => Key[data[i]] > Pivot
  BY <1>1 DEF SInv, Types, Partitioned, Index
<1>3. \A p \in Index : Key[data[p]] \in Int
  BY <1>2
<1>4. Pivot \in Int
  BY <1>2, <1>3 DEF Pivot
<1>5. Busy /\ Busy'
  BY <1>1 DEF Busy, Scan
<1>6. Segments' = Segments
  BY <1>1, <1>5 DEF Segments
<1>7. Disjoint'
  BY <1>1, <1>5 DEF SInv, Disjoint
<1>8. CASE i < j
  <2>1. data' = Swapped(i, j) /\ i' = i + 1 /\ j' = j - 1
    BY <1>8 DEF Swap
  <2>2. i \in Index /\ i \in low .. hi /\ j \in low .. hi
    BY <1>2, <1>8 DEF Index
  <2>3. data' \in [Index -> Elem] /\ \A p \in Index : data'[p] =
          IF p = i THEN data[j] ELSE IF p = j THEN data[i] ELSE data[p]
    BY <2>1, <2>2, <1>2, SwappedType
  <2>4. data'[low] = data[low] /\ Pivot' = Pivot
    <3>1. low # i /\ low # j
      BY <1>2 DEF Index
    <3> QED
      BY <3>1, <2>3, <1>1, <1>2 DEF Pivot
  <2>5. i' \in 0 .. N /\ j' \in Index /\ i' <= j' + 1 /\ low < i' /\ low < j' /\ j' <= hi
    BY <2>1, <1>2, <1>8 DEF Index
  <2>6. pc' \in {"down", "finish"} /\ (pc' = "down" => i' <= j') /\ (pc' = "finish" => j' <= i')
    BY <1>1, <2>5 DEF Scan, Index
  <2>7. Types'
    BY <2>3, <2>5, <2>6, <1>1 DEF SInv, Types, PCs
  <2>8. \A p \in low + 1 .. i' - 1 : Key[data'[p]] <= Pivot
    <3> SUFFICES ASSUME NEW p \in low + 1 .. i PROVE Key[data'[p]] <= Pivot
      BY <2>1, <1>2
    <3>1. p \in Index /\ p # j
      BY <1>2, <1>8 DEF Index
    <3> QED
      BY <3>1, <2>3, <1>2, <1>3, <1>4, <1>8 DEF Index
  <2>9. \A p \in j' + 1 .. hi : Key[data'[p]] >= Pivot
    <3> SUFFICES ASSUME NEW p \in j .. hi PROVE Key[data'[p]] >= Pivot
      BY <2>1, <1>2 DEF Index
    <3>1. p \in Index /\ p # i
      BY <1>2, <1>8 DEF Index
    <3> QED
      BY <3>1, <2>3, <1>2, <1>3, <1>4, <1>8 DEF Index
  <2>10. Partitioned'
    <3>1. low <= j'
      BY <2>5, <1>2 DEF Index
    <3> QED
      BY <3>1, <2>4, <2>5, <2>6, <2>8, <2>9, <1>1 DEF Partitioned
  <2>11. Control'
    BY <2>6, <1>1, <1>2 DEF SInv, Control
  <2>12. Settled'
    <3> SUFFICES ASSUME NEW p \in Index, NEW q \in Index, p < q, ~Together(p, q)
                 PROVE  Key[data'[p]] <= Key[data'[q]]
      BY <1>6 DEF Settled, Together
    <3>1. ~(low <= p /\ q <= hi)
      <4>1. [low |-> low, hi |-> hi] \in Segments
        BY <1>5 DEF Segments
      <4> QED
        BY <4>1 DEF Together
    <3> QED
      BY <3>1, <2>1, <2>2, <1>5, Inside
  <2> QED
    BY <2>7, <2>10, <2>11, <2>12, <1>7 DEF SInv
<1>9. CASE ~(i < j)
  <2>1. data' = data /\ i' = i /\ j' = j
    BY <1>9 DEF Swap
  <2>2. pc' = "finish" /\ Pivot' = Pivot
    BY <2>1, <1>1, <1>9 DEF Scan, Pivot
  <2>3. Types'
    BY <2>1, <2>2, <1>1 DEF SInv, Types, PCs
  <2>4. Partitioned'
    BY <2>1, <2>2, <1>1, <1>2 DEF Partitioned, Index
  <2>5. Control'
    BY <2>1, <2>2, <1>1, <1>2, <1>9 DEF SInv, Control, Index
  <2>6. Settled'
    BY <2>1, <1>6 DEF SInv, Settled, Together
  <2> QED
    BY <2>3, <2>4, <2>5, <2>6, <1>7 DEF SInv
<1> QED
  BY <1>8, <1>9

-----------------------------------------------------------------------------
(* The end of partition.                                                   *)

After == IF PivotMoves THEN Swapped(low, split) ELSE data

LEMMA Splits ==
  ASSUME SInv, pc = "finish"
  PROVE  /\ split \in low .. hi /\ split \in Index
         /\ After \in [Index -> Elem] /\ Pivot \in Int
         /\ \A p \in low .. split - 1 : Key[After[p]] <= Pivot
         /\ \A p \in split .. hi : Pivot <= Key[After[p]]
         /\ style = "pivot" => Key[After[split]] = Pivot
         /\ style # "pivot" /\ low < hi => low < split
<1> USE SortAssumption
<1> N \in Nat \ {0}
  BY DEF SInv
<1>1. /\ low \in Index /\ hi \in Index /\ i \in 0 .. N /\ j \in Index
      /\ low <= j /\ j <= hi /\ low < i /\ i <= j + 1 /\ j <= i
      /\ data \in [Index -> Elem] /\ low <= hi
      /\ low < hi => low < j
      /\ \A p \in low + 1 .. i - 1 : Key[data[p]] <= Pivot
      /\ \A p \in j + 1 .. hi : Key[data[p]] >= Pivot
  BY DEF SInv, Types, Partitioned, Control
<1>2. low \in Int /\ hi \in Int /\ i \in Int /\ j \in Int
  BY <1>1 DEF Index
<1>3. \A p \in Index : Key[data[p]] \in Int
  BY <1>1
<1>4. Pivot \in Int /\ Pivot = Key[data[low]]
  BY <1>1, <1>3 DEF Pivot
<1>5. \/ Back /\ split = j - 1 /\ i = j /\ style = "pivot" /\ Key[data[j]] > Pivot
      \/ ~Back /\ split = j
  BY DEF Back, split
<1>6. split \in low .. hi /\ split \in Index /\ split \in Int
  BY <1>1, <1>2, <1>5 DEF Index
<1>7. style # "pivot" /\ low < hi => low < split
  BY <1>1, <1>5
<1>8. \A p \in low .. hi : p \in Index
  BY <1>1 DEF Index
<1>9. \A p \in low .. split - 1 : Key[data[p]] <= Pivot
  <2> SUFFICES ASSUME NEW p \in low .. split - 1 PROVE Key[data[p]] <= Pivot
    OBVIOUS
  <2>1. p = low \/ p \in low + 1 .. i - 1
    BY <1>1, <1>2, <1>5
  <2> QED
    BY <2>1, <1>1, <1>4
<1>10. \A p \in split + 1 .. hi : Pivot <= Key[data[p]]
  <2> SUFFICES ASSUME NEW p \in split + 1 .. hi PROVE Pivot <= Key[data[p]]
    OBVIOUS
  <2>1. p \in j + 1 .. hi \/ (p = j /\ Key[data[j]] > Pivot)
    BY <1>2, <1>5
  <2>2. p \in low .. hi
    BY <1>2, <1>6
  <2>3. Key[data[p]] \in Int
    BY <2>2, <1>3, <1>8
  <2> QED
    BY <2>1, <2>3, <1>1, <1>4
<1>11. Key[data[split]] <= Pivot \/ ~PivotMoves
  <2>1. CASE style = "pivot" /\ i > j
    <3>1. split = j /\ i = j + 1
      BY <1>1, <1>2, <1>5, <2>1
    <3>2. j = low \/ j \in low + 1 .. i - 1
      BY <3>1, <1>1, <1>2
    <3> QED
      BY <3>1, <3>2, <1>1, <1>4
  <2>2. CASE ~(style = "pivot" /\ i > j)
    <3>1. Key[data[split]] \in Int
      BY <1>3, <1>6
    <3> QED
      BY <3>1, <1>4, <2>2 DEF PivotMoves
  <2> QED
    BY <2>1, <2>2
<1>12. ~PivotMoves => Key[data[split]] >= Pivot
  <2>1. Key[data[split]] \in Int
    BY <1>3, <1>6
  <2> QED
    BY <2>1, <1>4 DEF PivotMoves
<1>13. ~PivotMoves /\ style = "pivot" => Key[data[split]] <= Pivot
  <2> SUFFICES ASSUME ~PivotMoves, style = "pivot" PROVE Key[data[split]] <= Pivot
    OBVIOUS
  <2>1. i = j
    BY <1>1, <1>2 DEF PivotMoves
  <2>2. CASE Back
    <3>1. split = low \/ split \in low + 1 .. i - 1
      BY <2>1, <2>2, <1>1, <1>2, <1>5
    <3> QED
      BY <3>1, <1>1, <1>4
  <2>3. CASE ~Back
    <3>1. split = j /\ Key[data[j]] \in Int
      BY <2>3, <1>1, <1>3, <1>5
    <3> QED
      BY <3>1, <2>1, <2>3, <1>4 DEF Back
  <2> QED
    BY <2>2, <2>3
<1>14. CASE PivotMoves
  <2>1. After = Swapped(low, split)
    BY <1>14 DEF After
  <2>2. /\ After \in [Index -> Elem]
        /\ \A p \in Index : After[p] =
             IF p = low THEN data[split] ELSE IF p = split THEN data[low] ELSE data[p]
    BY <2>1, <1>1, <1>6, SwappedType
  <2>3. After[split] = data[low]
    BY <2>2, <1>6
  <2>4. ASSUME NEW p \in low .. split - 1
        PROVE  Key[After[p]] <= Pivot
    <3>1. p \in Index /\ p # split
      BY <1>2, <1>6, <1>8
    <3> QED
      BY <3>1, <2>2, <1>9, <1>11, <1>14
  <2>5. ASSUME NEW p \in split .. hi
        PROVE  Pivot <= Key[After[p]]
    <3>1. CASE p = split
      BY <3>1, <2>3, <1>4
    <3>2. CASE p # split
      <4>1. p \in split + 1 .. hi /\ p \in Index /\ p # low
        BY <3>2, <1>2, <1>6, <1>8
      <4> QED
        BY <4>1, <3>2, <2>2, <1>10
    <3> QED
      BY <3>1, <3>2
  <2> QED
    BY <2>2, <2>3, <2>4, <2>5, <1>4, <1>6, <1>7
<1>15. CASE ~PivotMoves
  <2>1. After = data
    BY <1>15 DEF After
  <2>2. ASSUME NEW p \in split .. hi
        PROVE  Pivot <= Key[data[p]]
    <3>1. p = split \/ p \in split + 1 .. hi
      BY <1>6
    <3>2. Key[data[split]] \in Int
      BY <1>3, <1>6
    <3> QED
      BY <3>1, <3>2, <1>4, <1>10, <1>12, <1>15
  <2>3. style = "pivot" => Key[data[split]] = Pivot
    <3>1. Key[data[split]] \in Int
      BY <1>3, <1>6
    <3> QED
      BY <3>1, <1>4, <1>12, <1>13, <1>15
  <2> QED
    BY <2>1, <2>2, <2>3, <1>1, <1>4, <1>6, <1>7, <1>9
<1> QED
  BY <1>14, <1>15

\* The parts that are kept are parts, do not overlap, and none that is worth
\* sorting is dropped.
LEMMA KeptParts ==
  ASSUME low \in Index, hi \in Index, NEW s \in low .. hi
  PROVE  /\ Kept(s) \in Seq(Segment)
         /\ \A k \in 1 .. Len(Kept(s)) :
              /\ low <= Kept(s)[k].low /\ Kept(s)[k].low < Kept(s)[k].hi
              /\ Kept(s)[k].hi <= hi
         /\ \A k, h \in 1 .. Len(Kept(s)) : k # h =>
              Kept(s)[k].hi < Kept(s)[h].low \/ Kept(s)[h].hi < Kept(s)[k].low
         /\ \A n \in {1, 2} : Worth(Parts(s)[n]) =>
              \E k \in 1 .. Len(Kept(s)) : Kept(s)[k] = Parts(s)[n]
<1> USE SortAssumption
<1> DEFINE a == Parts(s)[1]
           b == Parts(s)[2]
<1>1. low \in Int /\ hi \in Int /\ s \in Int
  BY DEF Index
<1>2. /\ a.low = low /\ a.hi = s - 1
      /\ b.low \in {s, s + 1} /\ b.hi = hi
      /\ a = [low |-> a.low, hi |-> a.hi] /\ b = [low |-> b.low, hi |-> b.hi]
  BY <1>1 DEF Parts
<1>3. Worth(a) => a \in Segment
  BY <1>1, <1>2 DEF Worth, Segment, Index
<1>4. Worth(b) => b \in Segment
  BY <1>1, <1>2 DEF Worth, Segment, Index
<1>5. Kept(s) = (IF Worth(a) THEN <<a>> ELSE <<>>) \o (IF Worth(b) THEN <<b>> ELSE <<>>)
  BY DEF Kept
<1> HIDE DEF a, b
<1>6. CASE Worth(a) /\ Worth(b)
  <2>1. Kept(s) = <<a, b>>
    <3>1. Kept(s) = <<a>> \o <<b>>
      BY <1>5, <1>6
    <3>2. <<a>> \in Seq(Segment) /\ <<b>> \in Seq(Segment) /\ <<a, b>> \in Seq(Segment)
      BY <1>3, <1>4, <1>6
    <3>3. <<a>> \o <<b>> = <<a, b>>
      <4>1. /\ <<a>> \o <<b>> \in Seq(Segment) /\ Len(<<a>> \o <<b>>) = 2
            /\ (<<a>> \o <<b>>)[1] = a /\ (<<a>> \o <<b>>)[2] = b
        BY <3>2
      <4>2. Len(<<a, b>>) = 2 /\ <<a, b>>[1] = a /\ <<a, b>>[2] = b
        OBVIOUS
      <4>3. \A n \in 1 .. 2 : (<<a>> \o <<b>>)[n] = <<a, b>>[n]
        BY <4>1, <4>2
      <4> QED
        BY <3>2, <4>1, <4>2, <4>3, SeqEqual
    <3> QED
      BY <3>1, <3>3
  <2> QED
    BY <2>1, <1>1, <1>2, <1>3, <1>4, <1>6 DEF Worth, a, b
<1>7. CASE Worth(a) /\ ~Worth(b)
  <2>1. Kept(s) = <<a>>
    BY <1>3, <1>5, <1>7
  <2> QED
    BY <2>1, <1>1, <1>2, <1>3, <1>7 DEF Worth, a, b
<1>8. CASE ~Worth(a) /\ Worth(b)
  <2>1. Kept(s) = <<b>>
    BY <1>4, <1>5, <1>8
  <2> QED
    BY <2>1, <1>1, <1>2, <1>4, <1>8 DEF Worth, a, b
<1>9. CASE ~Worth(a) /\ ~Worth(b)
  <2>1. Kept(s) = <<>>
    BY <1>5, <1>9
  <2> QED
    BY <2>1, <1>9 DEF a, b
<1> QED
  BY <1>6, <1>7, <1>8, <1>9

\* The queue after the end of partition, whichever end the parts go to: the
\* old segments and the parts, and nothing else.
LEMMA Queued ==
  ASSUME NEW S, NEW s \in Seq(S), NEW t \in Seq(S)
  PROVE  /\ s \o t \in Seq(S)
         /\ \A k \in 1 .. Len(s \o t) :
              \/ k \in 1 .. Len(s) /\ (s \o t)[k] = s[k]
              \/ k - Len(s) \in 1 .. Len(t) /\ (s \o t)[k] = t[k - Len(s)]
         /\ \A k \in 1 .. Len(s) : k \in 1 .. Len(s \o t) /\ (s \o t)[k] = s[k]
         /\ \A k \in 1 .. Len(t) :
              k + Len(s) \in 1 .. Len(s \o t) /\ (s \o t)[k + Len(s)] = t[k]
  OBVIOUS

Apart(a, b) == a.hi < b.low \/ b.hi < a.low
Spread(s) == \A k, h \in 1 .. Len(s) : k # h => Apart(s[k], s[h])

LEMMA SpreadConcat ==
  ASSUME NEW s \in Seq(Segment), NEW t \in Seq(Segment), Spread(s), Spread(t),
         \A k \in 1 .. Len(s), h \in 1 .. Len(t) : Apart(s[k], t[h])
  PROVE  Spread(s \o t)
<1> DEFINE u == s \o t
<1> SUFFICES ASSUME NEW k \in 1 .. Len(u), NEW h \in 1 .. Len(u), k # h
             PROVE  Apart(u[k], u[h])
  BY DEF Spread
<1>1. \/ k \in 1 .. Len(s) /\ u[k] = s[k]
      \/ k - Len(s) \in 1 .. Len(t) /\ u[k] = t[k - Len(s)]
  BY Queued
<1>2. \/ h \in 1 .. Len(s) /\ u[h] = s[h]
      \/ h - Len(s) \in 1 .. Len(t) /\ u[h] = t[h - Len(s)]
  BY Queued
<1>3. \A a, b : Apart(a, b) <=> Apart(b, a)
  BY DEF Apart
<1>4. Len(s) \in Nat
  OBVIOUS
<1> HIDE DEF u
<1>5. CASE k \in 1 .. Len(s) /\ u[k] = s[k] /\ h \in 1 .. Len(s) /\ u[h] = s[h]
  BY <1>5 DEF Spread
<1>6. CASE /\ k \in 1 .. Len(s) /\ u[k] = s[k]
           /\ h - Len(s) \in 1 .. Len(t) /\ u[h] = t[h - Len(s)]
  BY <1>6
<1>7. CASE /\ h \in 1 .. Len(s) /\ u[h] = s[h]
           /\ k - Len(s) \in 1 .. Len(t) /\ u[k] = t[k - Len(s)]
  BY <1>3, <1>7
<1>8. CASE /\ h - Len(s) \in 1 .. Len(t) /\ u[h] = t[h - Len(s)]
           /\ k - Len(s) \in 1 .. Len(t) /\ u[k] = t[k - Len(s)]
  <2>1. k - Len(s) # h - Len(s)
    BY <1>4
  <2> QED
    BY <1>8, <2>1 DEF Spread
<1> QED
  BY <1>1, <1>2, <1>5, <1>6, <1>7, <1>8

LEMMA QueuedElements ==
  ASSUME NEW s \in Seq(Segment), NEW t \in Seq(Segment)
  PROVE  /\ s \o t \in Seq(Segment)
         /\ \A k \in 1 .. Len(s \o t) :
              \/ \E h \in 1 .. Len(s) : (s \o t)[k] = s[h]
              \/ \E h \in 1 .. Len(t) : (s \o t)[k] = t[h]
         /\ \A h \in 1 .. Len(s) : \E k \in 1 .. Len(s \o t) : (s \o t)[k] = s[h]
         /\ \A h \in 1 .. Len(t) : \E k \in 1 .. Len(s \o t) : (s \o t)[k] = t[h]
<1> DEFINE u == s \o t
           len == Len(s)
<1>1. /\ u \in Seq(Segment)
      /\ \A k \in 1 .. Len(u) :
           \/ k \in 1 .. Len(s) /\ u[k] = s[k]
           \/ k - len \in 1 .. Len(t) /\ u[k] = t[k - len]
      /\ \A k \in 1 .. Len(s) : k \in 1 .. Len(u) /\ u[k] = s[k]
      /\ \A k \in 1 .. Len(t) : k + len \in 1 .. Len(u) /\ u[k + len] = t[k]
  BY Queued
<1> HIDE DEF u, len
<1>2. ASSUME NEW h \in 1 .. Len(t)
      PROVE  \E k \in 1 .. Len(u) : u[k] = t[h]
  BY <1>1
<1>3. /\ \A k \in 1 .. Len(u) :
           \/ \E h \in 1 .. Len(s) : u[k] = s[h]
           \/ \E h \in 1 .. Len(t) : u[k] = t[h]
      /\ \A h \in 1 .. Len(s) : \E k \in 1 .. Len(u) : u[k] = s[h]
  BY <1>1
<1> QED
  BY <1>1, <1>2, <1>3 DEF u

LEMMA FinishSInv == SInv /\ Finish => SInv'
<1> SUFFICES ASSUME SInv, Finish PROVE SInv'
  OBVIOUS
<1> USE SortAssumption
<1> N \in Nat \ {0}
  BY DEF SInv
<1> DEFINE K == Kept(split)
<1>1. /\ orig' = orig /\ style' = style /\ low' = low /\ hi' = hi /\ i' = i /\ j' = j
      /\ pc = "finish" /\ pc' = "take" /\ data' = After
      /\ todo' = todo \o K \/ todo' = K \o todo
      /\ taken' = taken + Len(K)
  BY DEF Finish, After
<1>2. /\ split \in low .. hi /\ split \in Index
      /\ After \in [Index -> Elem] /\ Pivot \in Int
      /\ \A p \in low .. split - 1 : Key[After[p]] <= Pivot
      /\ \A p \in split .. hi : Pivot <= Key[After[p]]
      /\ style = "pivot" => Key[After[split]] = Pivot
      /\ style # "pivot" /\ low < hi => low < split
  BY <1>1, Splits
<1>3. /\ low \in Index /\ hi \in Index /\ low <= hi /\ todo \in Seq(Segment)
      /\ data \in [Index -> Elem] /\ taken \in Nat
  BY <1>1 DEF SInv, Types, Control
<1>4. /\ K \in Seq(Segment)
      /\ \A k \in 1 .. Len(K) :
           low <= K[k].low /\ K[k].low < K[k].hi /\ K[k].hi <= hi
      /\ \A k, h \in 1 .. Len(K) : k # h =>
           K[k].hi < K[h].low \/ K[h].hi < K[k].low
      /\ \A n \in {1, 2} : Worth(Parts(split)[n]) =>
           \E k \in 1 .. Len(K) : K[k] = Parts(split)[n]
  BY <1>2, <1>3, KeptParts
<1> HIDE DEF K
<1>5. /\ todo' \in Seq(Segment)
      /\ \A k \in 1 .. Len(todo') :
           \/ \E h \in 1 .. Len(todo) : todo'[k] = todo[h]
           \/ \E h \in 1 .. Len(K) : todo'[k] = K[h]
      /\ \A h \in 1 .. Len(todo) : \E k \in 1 .. Len(todo') : todo'[k] = todo[h]
      /\ \A h \in 1 .. Len(K) : \E k \in 1 .. Len(todo') : todo'[k] = K[h]
  <2>1. CASE todo' = todo \o K
    <3>1. /\ todo \o K \in Seq(Segment)
          /\ \A k \in 1 .. Len(todo \o K) :
               \/ \E h \in 1 .. Len(todo) : (todo \o K)[k] = todo[h]
               \/ \E h \in 1 .. Len(K) : (todo \o K)[k] = K[h]
          /\ \A h \in 1 .. Len(todo) : \E k \in 1 .. Len(todo \o K) : (todo \o K)[k] = todo[h]
          /\ \A h \in 1 .. Len(K) : \E k \in 1 .. Len(todo \o K) : (todo \o K)[k] = K[h]
      <4>1. todo \in Seq(Segment) /\ K \in Seq(Segment)
        BY <1>3, <1>4
      <4> QED
        BY <4>1, QueuedElements, ZenonT(30)
    <3> QED
      BY <2>1, <3>1, Zenon
  <2>2. CASE todo' = K \o todo
    <3>1. /\ K \o todo \in Seq(Segment)
          /\ \A k \in 1 .. Len(K \o todo) :
               \/ \E h \in 1 .. Len(K) : (K \o todo)[k] = K[h]
               \/ \E h \in 1 .. Len(todo) : (K \o todo)[k] = todo[h]
          /\ \A h \in 1 .. Len(K) : \E k \in 1 .. Len(K \o todo) : (K \o todo)[k] = K[h]
          /\ \A h \in 1 .. Len(todo) : \E k \in 1 .. Len(K \o todo) : (K \o todo)[k] = todo[h]
      <4>1. todo \in Seq(Segment) /\ K \in Seq(Segment)
        BY <1>3, <1>4
      <4> QED
        BY <4>1, QueuedElements, ZenonT(30)
    <3> QED
      BY <2>2, <3>1, Zenon
  <2> QED
    BY <1>1, <2>1, <2>2
<1>6. Types'
  <2>1. taken' \in Nat
    BY <1>1, <1>3, <1>4
  <2> QED
    BY <2>1, <1>1, <1>2, <1>5 DEF SInv, Types, PCs
<1>7. Partitioned'
  BY <1>1 DEF Partitioned
<1>8. Control'
  <2>1. ASSUME NEW k \in 1 .. Len(K)
        PROVE  K[k].low <= K[k].hi
    <3>1. K[k] \in Segment
      BY <1>4
    <3>2. K[k].low \in Int /\ K[k].hi \in Int
      BY <3>1 DEF Segment, Index
    <3> QED
      BY <3>2, <1>4
  <2>2. \A k \in 1 .. Len(todo) : todo[k].low <= todo[k].hi
    BY DEF SInv, Control
  <2>3. \A k \in 1 .. Len(todo') : todo'[k].low <= todo'[k].hi
    BY <2>1, <2>2, <1>5
  <2> QED
    BY <2>3, <1>1 DEF Control
<1>9. Disjoint'
  <2>1. Spread(K)
    BY <1>4 DEF Spread, Apart
  <2>2. Spread(todo)
    BY DEF SInv, Disjoint, Spread, Apart
  <2>3. ASSUME NEW k \in 1 .. Len(K), NEW h \in 1 .. Len(todo)
        PROVE  Apart(K[k], todo[h]) /\ Apart(todo[h], K[k])
    <3>1. K[k] \in Segment /\ todo[h] \in Segment
      BY <1>3, <1>4
    <3>0. K[k].low \in Index /\ K[k].hi \in Index /\ todo[h].low \in Index /\ todo[h].hi \in Index
      BY <3>1 DEF Segment
    <3>2. /\ K[k].low \in Int /\ K[k].hi \in Int
          /\ todo[h].low \in Int /\ todo[h].hi \in Int /\ low \in Int /\ hi \in Int
      <4>1. \A x \in Index : x \in Int
        BY DEF Index
      <4> HIDE DEF K
      <4> QED
        BY <3>0, <1>3, <4>1
    <3>3. todo[h].hi < low \/ hi < todo[h].low
      BY <1>1 DEF SInv, Disjoint, Busy
    <3>4. low <= K[k].low /\ K[k].hi <= hi
      BY <1>4
    <3> QED
      BY <3>2, <3>3, <3>4 DEF Apart
  <2>4. Spread(todo')
    <3>1. CASE todo' = todo \o K
      BY <3>1, <2>1, <2>2, <2>3, <1>3, <1>4, SpreadConcat
    <3>2. CASE todo' = K \o todo
      BY <3>2, <2>1, <2>2, <2>3, <1>3, <1>4, SpreadConcat
    <3> QED
      BY <1>1, <3>1, <3>2
  <2> QED
    BY <2>4, <1>1 DEF Disjoint, Busy, Spread, Apart
<1>10. Settled'
  <2> SUFFICES ASSUME NEW p \in Index, NEW q \in Index, p < q, ~(Together(p, q)')
               PROVE  Key[data'[p]] <= Key[data'[q]]
    BY DEF Settled
  <2>1. Segments' = {todo'[k] : k \in 1 .. Len(todo')}
    BY <1>1 DEF Segments, Busy
  <2>2. \A k \in 1 .. Len(todo) : ~(todo[k].low <= p /\ q <= todo[k].hi)
    BY <2>1, <1>5 DEF Together
  <2>3. \A k \in 1 .. Len(K) : ~(K[k].low <= p /\ q <= K[k].hi)
    BY <2>1, <1>5 DEF Together
  <2>4. Busy
    BY <1>1 DEF Busy
  <2>5. CASE low <= p /\ q <= hi
    <3>1. p \in Int /\ q \in Int /\ split \in Int /\ low \in Int /\ hi \in Int
      BY <1>2, <1>3 DEF Index
    <3>2. Key[After[p]] \in Int /\ Key[After[q]] \in Int
      BY <1>2
    <3>3. CASE q < split
      <4>1. Parts(split)[1].low = low /\ Parts(split)[1].hi = split - 1
        BY DEF Parts
      <4>2. Worth(Parts(split)[1])
        BY <4>1, <3>1, <3>3, <2>5 DEF Worth
      <4>3. PICK k \in 1 .. Len(K) : K[k] = Parts(split)[1]
        BY <4>2, <1>4
      <4> QED
        BY <4>1, <4>3, <3>1, <3>3, <2>3, <2>5
    <3>4. CASE p < split /\ split <= q
      <4>1. p \in low .. split - 1 /\ q \in split .. hi
        BY <3>1, <3>4, <2>5
      <4> QED
        BY <4>1, <3>2, <1>1, <1>2
    <3>5. CASE split <= p /\ (style # "pivot" \/ split < p)
      <4>1. /\ Parts(split)[2].hi = hi
            /\ Parts(split)[2].low = IF style = "pivot" THEN split + 1 ELSE split
        BY DEF Parts
      <4>2. Parts(split)[2].low <= p /\ q <= Parts(split)[2].hi /\ Worth(Parts(split)[2])
        BY <4>1, <3>1, <3>5, <2>5 DEF Worth
      <4>3. PICK k \in 1 .. Len(K) : K[k] = Parts(split)[2]
        BY <4>2, <1>4
      <4> QED
        BY <4>2, <4>3, <2>3
    <3>6. CASE p = split /\ style = "pivot"
      <4>1. q \in split .. hi
        BY <3>1, <3>6, <2>5
      <4> QED
        BY <4>1, <3>6, <1>1, <1>2
    <3> QED
      BY <3>1, <3>3, <3>4, <3>5, <3>6
  <2>6. CASE ~(low <= p /\ q <= hi)
    <3>1. ~Together(p, q)
      BY <2>2, <2>4, <2>6 DEF Together, Segments
    <3>2. CASE PivotMoves
      <4>1. data' = Swapped(low, split)
        BY <3>2, <1>1 DEF After
      <4>2. low \in low .. hi
        BY <1>3 DEF Index
      <4> QED
        BY <4>1, <4>2, <3>1, <2>4, <2>6, <1>2, Inside
    <3>3. CASE ~PivotMoves
      <4>1. data' = data
        BY <3>3, <1>1 DEF After
      <4> QED
        BY <4>1, <3>1 DEF SInv, Settled
    <3> QED
      BY <3>2, <3>3
  <2> QED
    BY <2>5, <2>6
<1> QED
  BY <1>6, <1>7, <1>8, <1>9, <1>10 DEF SInv

-----------------------------------------------------------------------------
(* The theorems.                                                           *)

LEMMA NextSInv == SInv /\ [Next]_vars => SInv'
<1> SUFFICES ASSUME SInv, [Next]_vars PROVE SInv'
  OBVIOUS
<1>1. CASE UNCHANGED vars
  <2>1. /\ data' = data /\ todo' = todo /\ low' = low /\ hi' = hi /\ i' = i
        /\ j' = j /\ pc' = pc /\ orig' = orig /\ style' = style /\ taken' = taken
    BY <1>1 DEF vars
  <2>2. Types'
    BY <2>1 DEF SInv, Types
  <2>3. Partitioned' /\ Control'
    BY <2>1 DEF SInv, Partitioned, Control, Pivot
  <2>4. Disjoint'
    BY <2>1 DEF SInv, Disjoint, Busy
  <2>5. Segments' = Segments
    BY <2>1 DEF Segments, Busy
  <2>6. Settled'
    BY <2>1, <2>5 DEF SInv, Settled, Together
  <2> QED
    BY <2>2, <2>3, <2>4, <2>6 DEF SInv
<1> QED
  BY <1>1, TakeSInv, ScanSInv, SwapSInv, FinishSInv, StopSInv DEF Next

\* Without an element the recursive driver still takes one segment, which ends
\* before it begins.
EInv ==
  /\ N = 0 /\ style \in Styles /\ pc \in {"take", "done", "dead"}
  /\ todo # <<>> => todo = <<[low |-> 0, hi |-> -1]>>
  /\ todo # <<>> \/ pc = "dead" => style = "recursive"

LEMMA InitEInv == Init /\ N = 0 => EInv
  BY DEF Init, EInv

LEMMA NextEInv == EInv /\ [Next]_vars => EInv'
<1> SUFFICES ASSUME EInv, [Next]_vars PROVE EInv'
  OBVIOUS
<1> DEFINE none == [low |-> 0, hi |-> -1]
<1>1. CASE Take
  <2>1. todo = <<none>> /\ style = "recursive" /\ style' = style /\ style \in Styles
    BY <1>1 DEF Take, EInv
  <2>2. Head(todo) = none /\ Tail(todo) = <<>>
    BY <2>1
  <2>3. low' = 0 /\ hi' = -1 /\ todo' = <<>>
    BY <1>1, <2>2 DEF Take
  <2>4. pc' \in {"take", "dead"}
    BY <1>1, <2>3 DEF Take
  <2> QED
    BY <2>1, <2>3, <2>4 DEF EInv
<1>2. CASE Stop
  BY <1>2 DEF Stop, EInv
<1>3. CASE UNCHANGED vars
  BY <1>3 DEF vars, EInv
<1>4. ~Down /\ ~Up /\ ~Swap /\ ~Finish
  BY DEF EInv, Down, Up, Swap, Finish
<1> QED
  BY <1>1, <1>2, <1>3, <1>4 DEF Next

LEMMA SpecSInv == Spec => [](SInv \/ EInv)
<1>1. Init => SInv \/ EInv
  BY InitSInv, InitEInv
<1>2. (SInv \/ EInv) /\ [Next]_vars => (SInv \/ EInv)'
  BY NextSInv, NextEInv
<1> QED
  BY <1>1, <1>2, PTL DEF Spec

\* What is true of the sort of nothing.
LEMMA NothingSorted ==
  ASSUME EInv
  PROVE  Partitioned /\ Disjoint /\ Settled /\ unit_test /\ Permuted
<1>1. N = 0 /\ Index = {} /\ ~Busy
  BY DEF EInv, Index, Busy
<1>2. Partitioned /\ Settled
  BY <1>1 DEF EInv, Partitioned, Settled
<1>3. Disjoint
  <2>1. todo = <<>> \/ todo = <<[low |-> 0, hi |-> -1]>>
    BY DEF EInv
  <2>2. Len(todo) = 0 \/ Len(todo) = 1
    BY <2>1
  <2>3. ASSUME NEW k \in 1 .. Len(todo), NEW h \in 1 .. Len(todo) PROVE k = h
    <3>1. CASE Len(todo) = 0
      BY <3>1
    <3>2. CASE Len(todo) = 1
      BY <3>2
    <3> QED
      BY <2>2, <3>1, <3>2
  <2> QED
    BY <1>1, <2>3 DEF Disjoint
<1>4. unit_test
  BY <1>1 DEF unit_test
<1>5. Permuted
  <2> DEFINE f == [k \in Index |-> k]
  <2>1. f \in Perms
    BY DEF Perms
  <2> QED
    BY <1>1, <2>1 DEF Permuted
<1> QED
  BY <1>2, <1>3, <1>4, <1>5

\* The indices of partition stay in the array, for every length but 0.  With
\* nothing to sort it is lcs_quick_sort alone that looks outside of the array, and
\* it may die of it.
THEOREM TypeCorrect == Spec => []TypeOK
<1>1. SInv \/ EInv => TypeOK
  BY DEF SInv, EInv, TypeOK
<1> QED
  BY <1>1, SpecSInv, PTL

\* partition does what it is for: the elements its indices have passed are on
\* the side of the pivot where they belong.
THEOREM PartitionHolds == Spec => []Partitioned
<1>1. SInv \/ EInv => Partitioned
  BY NothingSorted DEF SInv
<1> QED
  BY <1>1, SpecSInv, PTL

\* The segments left to sort never overlap, whichever order a driver takes.
THEOREM DisjointHolds == Spec => []Disjoint
<1>1. SInv \/ EInv => Disjoint
  BY NothingSorted DEF SInv
<1> QED
  BY <1>1, SpecSInv, PTL

\* All disorder is inside the segments that are left to sort.
THEOREM SettledHolds == Spec => []Settled
<1>1. SInv \/ EInv => Settled
  BY NothingSorted DEF SInv
<1> QED
  BY <1>1, SpecSInv, PTL

\* Each of the sorts leaves a sorted array, for every length, every array and
\* every comparison by an integer key.
THEOREM Sorted == Spec => []unit_test
<1>1. SInv => unit_test
  <2> SUFFICES ASSUME SInv, pc = "done", NEW k \in 0 .. N - 2
               PROVE  Key[data[k]] <= Key[data[k + 1]]
    BY DEF unit_test
  <2>1. todo = <<>>
    BY DEF SInv, Control
  <2>2. Segments = {}
    BY <2>1 DEF Segments, Busy
  <2>3. k \in Index /\ k + 1 \in Index /\ k < k + 1
    BY SortAssumption DEF Index
  <2> QED
    BY <2>2, <2>3 DEF SInv, Settled, Together
<1>2. EInv => unit_test
  BY NothingSorted
<1> QED
  BY <1>1, <1>2, SpecSInv, PTL

LEMMA InitPermuted == Init => Permuted
<1> USE SortAssumption
<1> SUFFICES ASSUME Init PROVE Permuted
  OBVIOUS
<1> DEFINE f == [k \in Index |-> k]
<1>1. f \in Perms
  BY DEF Perms
<1>2. \A k \in Index : data[k] = orig[f[k]]
  BY DEF Init
<1> QED
  BY <1>1, <1>2 DEF Permuted

LEMMA NextPermuted == SInv /\ Permuted /\ [Next]_vars => Permuted'
<1> USE SortAssumption
<1> SUFFICES ASSUME SInv, Permuted, [Next]_vars PROVE Permuted'
  OBVIOUS
<1> N \in Nat \ {0}
  BY DEF SInv
<1>1. data \in [Index -> Elem] /\ orig \in [Index -> Elem]
  BY DEF SInv, Types
<1>2. orig' = orig
  BY DEF Next, Take, Down, Up, Swap, Finish, Stop, vars
<1>3. CASE data' = data
  BY <1>2, <1>3 DEF Permuted
<1>4. CASE Swap /\ i < j
  <2>1. i \in Index /\ j \in Index
    BY <1>4 DEF SInv, Types, Partitioned, Index
  <2>2. data' = Swapped(i, j)
    BY <1>4 DEF Swap
  <2> QED
    BY <2>1, <2>2, <1>1, <1>2, SwappedPermuted
<1>5. CASE Finish /\ PivotMoves
  <2>1. data' = Swapped(low, split) /\ pc = "finish"
    BY <1>5 DEF Finish
  <2>2. low \in Index /\ split \in Index
    BY <2>1, Splits DEF SInv, Types
  <2> QED
    BY <2>1, <2>2, <1>1, <1>2, SwappedPermuted
<1> QED
  BY <1>3, <1>4, <1>5 DEF Next, Take, Down, Up, Swap, Finish, Stop, vars

\* No sort loses or doubles an element.
THEOREM PermutationHolds == Spec => []Permuted
<1>1. Init => (SInv /\ Permuted) \/ EInv
  BY InitSInv, InitEInv, InitPermuted
<1>2. ((SInv /\ Permuted) \/ EInv) /\ [Next]_vars => ((SInv /\ Permuted) \/ EInv)'
  BY NextSInv, NextPermuted, NextEInv
<1>3. (SInv /\ Permuted) \/ EInv => Permuted
  BY NothingSorted
<1> QED
  BY <1>1, <1>2, <1>3, PTL DEF Spec

-----------------------------------------------------------------------------
(* The room in the arrays of segments.  A cut is a pair of neighbours that *)
(* some segment still holds together.  Partition destroys at least one     *)
(* each time, and every waiting segment has one of its own: what was ever  *)
(* queued is what was partitioned and what waits, at most the N - 1 cuts   *)
(* there were.                                                             *)

Waiting == Len(todo) + IF Busy THEN 1 ELSE 0
Cuts == {p \in 0 .. N - 2 : Together(p, p + 1)}
Proper ==
  /\ \A k \in 1 .. Len(todo) : todo[k].low < todo[k].hi
  /\ Busy => low < hi
QInv == N > 1 => Proper /\ (taken - Waiting) + Cardinality(Cuts) <= N - 1

LEMMA CutsFinite ==
  ASSUME N # 0
  PROVE  IsFiniteSet(Cuts) /\ Cardinality(Cuts) \in Nat /\ Cardinality(Cuts) <= N - 1
<1> USE SortAssumption
<1>1. IsFiniteSet(0 .. N - 2) /\ Cardinality(0 .. N - 2) = N - 1
  <2>1. 0 \in Int /\ N - 2 \in Int
    OBVIOUS
  <2>2. /\ IsFiniteSet(0 .. N - 2)
        /\ Cardinality(0 .. N - 2) = IF 0 > N - 2 THEN 0 ELSE N - 2 - 0 + 1
    BY <2>1, FS_Interval
  <2> QED
    BY <2>2
<1>2. Cuts \in SUBSET (0 .. N - 2)
  BY DEF Cuts
<1>3. IsFiniteSet(Cuts) /\ Cardinality(Cuts) <= Cardinality(0 .. N - 2)
  BY <1>1, <1>2, FS_Subset
<1> QED
  BY <1>1, <1>3, FS_CardinalityType

\* Every segment that waits begins with a cut that no other one has.
LEMMA OneCutEach == ASSUME SInv, Proper PROVE Waiting <= Cardinality(Cuts)
<1> USE SortAssumption
<1> N \in Nat \ {0}
  BY DEF SInv
<1>0. /\ todo \in Seq(Segment) /\ Len(todo) \in Nat /\ low \in Index /\ hi \in Index
      /\ Waiting \in Nat
  BY DEF SInv, Types, Waiting
<1> DEFINE first(k) == IF k <= Len(todo) THEN todo[k].low ELSE low
           f == [k \in 1 .. Waiting |-> first(k)]
<1>1. ASSUME NEW k \in 1 .. Waiting PROVE first(k) \in Cuts
  <2>1. CASE k <= Len(todo)
    <3>1. k \in 1 .. Len(todo) /\ todo[k] \in Segment
      BY <1>0, <2>1
    <3>2. /\ todo[k].low \in Index /\ todo[k].hi \in Index /\ todo[k].low < todo[k].hi
          /\ todo[k] \in Segments
      BY <3>1 DEF Segment, Proper, Segments
    <3>3. todo[k].low \in 0 .. N - 2 /\ todo[k].low + 1 <= todo[k].hi
      BY <3>2 DEF Index
    <3>4. Together(todo[k].low, todo[k].low + 1)
      BY <3>2, <3>3 DEF Together, Index
    <3> QED
      BY <2>1, <3>3, <3>4 DEF Cuts
  <2>2. CASE ~(k <= Len(todo))
    <3>1. Busy
      BY <1>0, <2>2 DEF Waiting
    <3>2. low < hi /\ [low |-> low, hi |-> hi] \in Segments
      BY <3>1 DEF Proper, Segments
    <3>3. low \in 0 .. N - 2 /\ low + 1 <= hi
      BY <1>0, <3>2 DEF Index
    <3>4. Together(low, low + 1)
      BY <1>0, <3>2, <3>3 DEF Together, Index
    <3> QED
      BY <2>2, <3>3, <3>4 DEF Cuts
  <2> QED
    BY <2>1, <2>2
<1>2. ASSUME NEW k \in 1 .. Waiting, NEW n \in 1 .. Waiting, k # n PROVE first(k) # first(n)
  <2>1. ASSUME NEW c \in 1 .. Len(todo)
        PROVE  todo[c].low \in Int /\ todo[c].hi \in Int /\ todo[c].low < todo[c].hi
    <3>1. todo[c] \in Segment
      BY <1>0
    <3> QED
      BY <3>1 DEF Proper, Segment, Index
  <2>2. \A c, d \in 1 .. Len(todo) :
          c # d => todo[c].hi < todo[d].low \/ todo[d].hi < todo[c].low
    BY DEF SInv, Disjoint
  <2>3. low \in Int /\ hi \in Int
    BY <1>0 DEF Index
  <2>4. k > Len(todo) \/ n > Len(todo) => Busy
    BY <1>0 DEF Waiting
  <2>5. Busy => low < hi /\ \A c \in 1 .. Len(todo) : todo[c].hi < low \/ hi < todo[c].low
    BY DEF Proper, SInv, Disjoint
  <2>6. CASE k <= Len(todo) /\ n <= Len(todo)
    <3>1. k \in 1 .. Len(todo) /\ n \in 1 .. Len(todo)
      BY <1>0, <2>6
    <3> QED
      BY <1>2, <2>1, <2>2, <2>6, <3>1
  <2>7. CASE k <= Len(todo) /\ n > Len(todo)
    <3>1. k \in 1 .. Len(todo)
      BY <1>0, <2>7
    <3> QED
      BY <1>0, <2>1, <2>3, <2>4, <2>5, <2>7, <3>1
  <2>8. CASE n <= Len(todo) /\ k > Len(todo)
    <3>1. n \in 1 .. Len(todo)
      BY <1>0, <2>8
    <3> QED
      BY <1>0, <2>1, <2>3, <2>4, <2>5, <2>8, <3>1
  <2>9. ~(k > Len(todo) /\ n > Len(todo))
    BY <1>0, <1>2 DEF Waiting
  <2> QED
    BY <1>0, <2>6, <2>7, <2>8, <2>9
<1>3. f \in Injection(1 .. Waiting, Cuts)
  <2>1. f \in [1 .. Waiting -> Cuts]
    BY <1>1
  <2>2. \A k, n \in 1 .. Waiting : f[k] = f[n] => k = n
    BY <1>2
  <2> QED
    BY <2>1, <2>2 DEF Injection, IsInjective
<1>4. Cardinality(1 .. Waiting) <= Cardinality(Cuts)
  BY <1>3, CutsFinite, FS_Injection
<1>5. Cardinality(1 .. Waiting) = Waiting
  <2>1. 1 \in Int /\ Waiting \in Int
    BY <1>0
  <2>2. Cardinality(1 .. Waiting) = IF 1 > Waiting THEN 0 ELSE Waiting - 1 + 1
    BY <2>1, FS_Interval
  <2> QED
    BY <1>0, <2>2
<1> QED
  BY <1>4, <1>5

\* What partition leaves of a segment does not hold the split together with one
\* of its neighbours.
LEMMA KeptWithout ==
  ASSUME low \in Index, hi \in Index, NEW s \in low .. hi, low < hi,
         style # "pivot" => low < s
  PROVE  \E c \in 0 .. N - 2 :
           /\ low <= c /\ c + 1 <= hi
           /\ \A k \in 1 .. Len(Kept(s)) : ~(Kept(s)[k].low <= c /\ c + 1 <= Kept(s)[k].hi)
<1> USE SortAssumption
<1> DEFINE a == Parts(s)[1]
           b == Parts(s)[2]
           c == IF low < s THEN s - 1 ELSE s
<1>1. low \in Int /\ hi \in Int /\ s \in Int /\ low >= 0 /\ hi <= N - 1
  BY DEF Index
<1>2. /\ a.low = low /\ a.hi = s - 1 /\ b.hi = hi
      /\ b.low = IF style = "pivot" THEN s + 1 ELSE s
  BY <1>1 DEF Parts
<1>3. c \in 0 .. N - 2 /\ low <= c /\ c + 1 <= hi
  BY <1>1
<1>4. ~(a.low <= c /\ c + 1 <= a.hi) /\ ~(b.low <= c /\ c + 1 <= b.hi)
  BY <1>1, <1>2
<1>5. Kept(s) = (IF Worth(a) THEN <<a>> ELSE <<>>) \o (IF Worth(b) THEN <<b>> ELSE <<>>)
  BY DEF Kept
<1>6. \A k \in 1 .. Len(Kept(s)) : Kept(s)[k] = a \/ Kept(s)[k] = b
  <2> HIDE DEF a, b
  <2> DEFINE S == {a, b}
             x == IF Worth(a) THEN <<a>> ELSE <<>>
             y == IF Worth(b) THEN <<b>> ELSE <<>>
  <2>1. x \in Seq(S) /\ y \in Seq(S)
    <3>1. <<a>> \in Seq(S) /\ <<b>> \in Seq(S) /\ <<>> \in Seq(S)
      OBVIOUS
    <3> QED
      BY <3>1
  <2>2. x \o y \in Seq(S)
    BY <2>1
  <2> QED
    BY <1>5, <2>2
<1> HIDE DEF a, b, c
<1>7. \A k \in 1 .. Len(Kept(s)) : ~(Kept(s)[k].low <= c /\ c + 1 <= Kept(s)[k].hi)
  BY <1>4, <1>6
<1> QED
  BY <1>3, <1>7

\* A step that changes neither the queue nor the set of segments.
LEMMA QStays ==
  ASSUME QInv, taken' = taken, Waiting' = Waiting, Proper => Proper',
         \A p, q \in Index : Together(p, q) = Together(p, q)'
  PROVE  QInv'
<1> USE SortAssumption
<1>1. Cuts' = Cuts
  BY DEF Cuts, Index
<1> QED
  BY <1>1 DEF QInv

LEMMA TakeQInv == SInv /\ QInv /\ Take => QInv'
<1> SUFFICES ASSUME SInv, QInv, Take PROVE QInv'
  OBVIOUS
<1> USE SortAssumption
<1> N \in Nat \ {0}
  BY DEF SInv
<1>1. /\ todo \in Seq(Segment) /\ todo # <<>> /\ pc = "take" /\ ~Busy
  BY DEF SInv, Types, Take, Busy
<1>2. /\ Len(todo) \in Nat /\ 1 \in 1 .. Len(todo) /\ Head(todo) = todo[1]
      /\ todo[1] \in Segment /\ todo' = Tail(todo) /\ Len(todo') = Len(todo) - 1
      /\ \A k \in 1 .. Len(todo') : k + 1 \in 1 .. Len(todo) /\ todo'[k] = todo[k + 1]
      /\ \A k \in 1 .. Len(todo) : k = 1 \/ (k - 1 \in 1 .. Len(todo') /\ todo'[k - 1] = todo[k])
  BY <1>1 DEF Take
<1>3. low' = todo[1].low /\ hi' = todo[1].hi /\ taken' = taken /\ Busy'
  <2>1. low' = todo[1].low /\ hi' = todo[1].hi /\ low' \in Index /\ hi' \in Index /\ low' <= hi'
    BY <1>2 DEF Take, Segment, SInv, Control
  <2>2. ~(hi' < low')
    BY <2>1 DEF Index
  <2> QED
    BY <2>1, <2>2 DEF Take, Scan, Busy
<1>4. Waiting' = Waiting
  BY <1>1, <1>2, <1>3 DEF Waiting
<1>5. Proper => Proper'
  BY <1>2, <1>3 DEF Proper
<1>6. ASSUME NEW p \in Index, NEW q \in Index PROVE Together(p, q) = Together(p, q)'
  <2>1. Together(p, q) <=> \E k \in 1 .. Len(todo) : todo[k].low <= p /\ q <= todo[k].hi
    BY <1>1 DEF Together, Segments
  <2>2. Together(p, q)' <=> \/ low' <= p /\ q <= hi'
                            \/ \E k \in 1 .. Len(todo') : todo'[k].low <= p /\ q <= todo'[k].hi
    <3>1. Segments' = {todo'[k] : k \in 1 .. Len(todo')} \cup {[low |-> low', hi |-> hi']}
      BY <1>3 DEF Segments
    <3>2. Together(p, q)' <=> \E s \in Segments' : s.low <= p /\ q <= s.hi
      BY DEF Together
    <3>3. \A s : s = [low |-> low', hi |-> hi'] => s.low = low' /\ s.hi = hi'
      OBVIOUS
    <3>4. [low |-> low', hi |-> hi'] \in Segments'
      BY <3>1
    <3>5. ASSUME NEW s \in Segments', s.low <= p, q <= s.hi
          PROVE  \/ low' <= p /\ q <= hi'
                 \/ \E k \in 1 .. Len(todo') : todo'[k].low <= p /\ q <= todo'[k].hi
      BY <3>1, <3>3, <3>5
    <3>6. \A k \in 1 .. Len(todo') : todo'[k] \in Segments'
      BY <3>1
    <3> QED
      BY <3>2, <3>3, <3>4, <3>5, <3>6
  <2>3. Together(p, q) <=> Together(p, q)'
    BY <1>2, <1>3, <2>1, <2>2
  <2> QED
    BY <2>3 DEF Together
<1> QED
  BY <1>3, <1>4, <1>5, <1>6, QStays

LEMMA FinishQInv == SInv /\ QInv /\ Finish => QInv'
<1> SUFFICES ASSUME SInv, QInv, Finish, N > 1
             PROVE  Proper' /\ (taken' - Waiting') + Cardinality(Cuts') <= N - 1
  BY DEF QInv
<1> USE SortAssumption
<1> N \in Nat \ {0}
  BY DEF SInv
<1> DEFINE K == Kept(split)
<1>1. /\ low' = low /\ hi' = hi /\ pc = "finish" /\ Busy /\ ~Busy'
      /\ todo' = todo \o K \/ todo' = K \o todo
      /\ taken' = taken + Len(K)
  BY DEF Finish, Busy
<1>2. split \in low .. hi /\ (style # "pivot" /\ low < hi => low < split)
  BY <1>1, Splits
<1>3. /\ low \in Index /\ hi \in Index /\ low < hi /\ todo \in Seq(Segment) /\ taken \in Nat
      /\ Len(todo) \in Nat
  BY <1>1 DEF SInv, Types, QInv, Proper
<1>4. /\ K \in Seq(Segment)
      /\ \A k \in 1 .. Len(K) :
           low <= K[k].low /\ K[k].low < K[k].hi /\ K[k].hi <= hi
  BY <1>2, <1>3, KeptParts
<1>5. PICK c \in 0 .. N - 2 :
        /\ low <= c /\ c + 1 <= hi
        /\ \A k \in 1 .. Len(K) : ~(K[k].low <= c /\ c + 1 <= K[k].hi)
  BY <1>2, <1>3, KeptWithout
<1> HIDE DEF K
<1>6. /\ Len(todo') = Len(todo) + Len(K)
      /\ \A k \in 1 .. Len(todo') :
           \/ \E n \in 1 .. Len(todo) : todo'[k] = todo[n]
           \/ \E n \in 1 .. Len(K) : todo'[k] = K[n]
  <2>1. CASE todo' = todo \o K
    <3>1. \A k \in 1 .. Len(todo \o K) :
               \/ \E n \in 1 .. Len(todo) : (todo \o K)[k] = todo[n]
               \/ \E n \in 1 .. Len(K) : (todo \o K)[k] = K[n]
      BY <1>3, <1>4, QueuedElements, Zenon
    <3>2. Len(todo \o K) = Len(todo) + Len(K)
      BY <1>3, <1>4
    <3> QED
      BY <2>1, <3>1, <3>2, Zenon
  <2>2. CASE todo' = K \o todo
    <3>1. \A k \in 1 .. Len(K \o todo) :
               \/ \E n \in 1 .. Len(K) : (K \o todo)[k] = K[n]
               \/ \E n \in 1 .. Len(todo) : (K \o todo)[k] = todo[n]
      BY <1>3, <1>4, QueuedElements, Zenon
    <3>2. Len(K \o todo) = Len(todo) + Len(K)
      BY <1>3, <1>4
    <3> QED
      BY <2>2, <3>1, <3>2, Zenon
  <2> QED
    BY <1>1, <2>1, <2>2
<1>7. Proper'
  <2>1. \A k \in 1 .. Len(todo) : todo[k].low < todo[k].hi
    BY DEF QInv, Proper
  <2> QED
    BY <1>1, <1>4, <1>6, <2>1 DEF Proper
<1>8. taken' - Waiting' = taken - Waiting + 1
  <2>1. Len(K) \in Nat /\ Len(todo') \in Nat
    BY <1>3, <1>4, <1>6
  <2> QED
    BY <1>1, <1>3, <1>6, <2>1 DEF Waiting
<1>9. Cuts' \subseteq Cuts \ {c}
  <2>0. [low |-> low, hi |-> hi] \in Segments
    BY <1>1 DEF Segments
  <2> SUFFICES ASSUME NEW p \in 0 .. N - 2, Together(p, p + 1)'
               PROVE  Together(p, p + 1) /\ p # c
    BY DEF Cuts
  <2>1. PICK k \in 1 .. Len(todo') : todo'[k].low <= p /\ p + 1 <= todo'[k].hi
    BY <1>1 DEF Together, Segments
  <2>2. CASE \E n \in 1 .. Len(todo) : todo'[k] = todo[n]
    <3>1. PICK n \in 1 .. Len(todo) : todo'[k] = todo[n]
      BY <2>2
    <3>2. Together(p, p + 1)
      <4>1. todo[n] \in Segments
        BY DEF Segments
      <4> QED
        BY <2>1, <3>1, <4>1 DEF Together
    <3>3. todo[n].hi < low \/ hi < todo[n].low
      BY <1>1 DEF SInv, Disjoint
    <3>4. todo[n].low \in Int /\ todo[n].hi \in Int /\ low \in Int /\ hi \in Int
      <4>1. todo[n] \in Segment
        BY <1>3
      <4> QED
        BY <1>3, <4>1 DEF Segment, Index
    <3> QED
      BY <1>5, <2>1, <3>1, <3>2, <3>3, <3>4
  <2>3. CASE \E n \in 1 .. Len(K) : todo'[k] = K[n]
    <3>1. PICK n \in 1 .. Len(K) : todo'[k] = K[n]
      BY <2>3
    <3>2. K[n].low \in Int /\ K[n].hi \in Int /\ low \in Int /\ hi \in Int
      <4>1. K[n] \in Segment
        BY <1>4
      <4> QED
        BY <1>3, <4>1 DEF Segment, Index
    <3>3. low <= p /\ p + 1 <= hi
      BY <1>4, <2>1, <3>1, <3>2
    <3>4. Together(p, p + 1)
      BY <2>0, <3>3 DEF Together
    <3> QED
      BY <1>5, <2>1, <3>1, <3>4
  <2> QED
    BY <1>6, <2>2, <2>3
<1>10. c \in Cuts
  <2>1. [low |-> low, hi |-> hi] \in Segments
    BY <1>1 DEF Segments
  <2> QED
    BY <1>5, <2>1 DEF Cuts, Together
<1>11. Cardinality(Cuts') <= Cardinality(Cuts) - 1 /\ Cardinality(Cuts') \in Nat
  <2>1. IsFiniteSet(Cuts \ {c}) /\ Cardinality(Cuts \ {c}) = Cardinality(Cuts) - 1
    BY <1>10, CutsFinite, FS_RemoveElement
  <2>2. IsFiniteSet(Cuts') /\ Cardinality(Cuts') <= Cardinality(Cuts \ {c})
    BY <1>9, <2>1, FS_Subset
  <2> QED
    BY <2>1, <2>2, FS_CardinalityType
<1>12. taken - Waiting \in Int /\ Cardinality(Cuts) \in Nat
  BY <1>3, CutsFinite DEF Waiting
<1>13. (taken - Waiting) + Cardinality(Cuts) <= N - 1
  BY DEF QInv
<1> QED
  BY <1>7, <1>8, <1>11, <1>12, <1>13

LEMMA NextQInv == SInv /\ QInv /\ [Next]_vars => QInv'
<1> SUFFICES ASSUME SInv, QInv, [Next]_vars PROVE QInv'
  OBVIOUS
<1>1. CASE Down \/ Up \/ Swap \/ Stop \/ UNCHANGED vars
  <2>1. todo' = todo /\ low' = low /\ hi' = hi /\ taken' = taken /\ Busy' = Busy
    BY <1>1 DEF Down, Up, Swap, Stop, vars, Busy, Scan
  <2>2. Waiting' = Waiting /\ (Proper => Proper')
    BY <2>1 DEF Waiting, Proper
  <2>3. Segments' = Segments
    BY <2>1 DEF Segments
  <2>4. \A p, q \in Index : Together(p, q) = Together(p, q)'
    BY <2>3 DEF Together
  <2> QED
    BY <2>1, <2>2, <2>4, QStays
<1> QED
  BY <1>1, TakeQInv, FinishQInv DEF Next

\* The arrays of quick_sort_non_recursive_improve, which have room for as many
\* segments as there are elements, are never filled up, on any array: the entry
\* at which its loop stops is always there.
THEOREM QueueFitsHolds == Spec => []QueueFits
<1> USE SortAssumption
<1>1. Init => QInv
  <2> SUFFICES ASSUME Init, N > 1
               PROVE  Proper /\ (taken - Waiting) + Cardinality(Cuts) <= N - 1
    BY DEF QInv
  <2> DEFINE all == [low |-> 0, hi |-> N - 1]
  <2>1. todo = <<all>> /\ taken = Len(todo) /\ ~Busy
    BY DEF Init, Busy
  <2>2. Len(todo) = 1 /\ todo[1] = all /\ all.low = 0 /\ all.hi = N - 1
    BY <2>1
  <2>3. Proper
    BY <2>1, <2>2 DEF Proper
  <2>4. taken = 1 /\ Waiting = 1
    BY <2>1, <2>2 DEF Waiting
  <2> QED
    BY <2>3, <2>4, CutsFinite
<1>2. SInv /\ QInv => QueueFits
  <2> SUFFICES ASSUME SInv, QInv, N > 1 PROVE taken < N
    BY DEF QueueFits
  <2>1. Waiting <= Cardinality(Cuts) /\ (taken - Waiting) + Cardinality(Cuts) <= N - 1
    BY OneCutEach DEF QInv
  <2>2. taken \in Nat /\ Waiting \in Nat /\ Cardinality(Cuts) \in Nat
    BY CutsFinite DEF SInv, Types, Waiting
  <2> QED
    BY <2>1, <2>2
<1>3. EInv => QueueFits
  BY DEF EInv, QueueFits
<1>4. Init => (SInv /\ QInv) \/ EInv
  BY <1>1, InitSInv, InitEInv
<1>5. ((SInv /\ QInv) \/ EInv) /\ [Next]_vars => ((SInv /\ QInv) \/ EInv)'
  BY NextSInv, NextQInv, NextEInv
<1> QED
  BY <1>2, <1>3, <1>4, <1>5, PTL DEF Spec

-----------------------------------------------------------------------------
(* Sums over finite sets, as SumFunctionOnSet computes them.  What is true *)
(* of all sets is shown for a smallest one for which it would not be.      *)

LEMMA NatMin ==
  ASSUME NEW T, T \subseteq Nat, T # {}
  PROVE  \E x \in T : \A y \in T : x <= y
<1>1. PICK x \in T : \A y \in T : ~(<<y, x>> \in OpToRel(<, Nat))
  BY WFMin, NatLessThanWellFounded
<1>2. ASSUME NEW y \in T PROVE x <= y
  <2>1. x \in Nat /\ y \in Nat
    OBVIOUS
  <2>2. ~(<<y, x>> \in {ss \in Nat \X Nat : ss[1] < ss[2]})
    BY <1>1 DEF OpToRel
  <2>3. ~(y < x)
    BY <2>1, <2>2
  <2> QED
    BY <2>1, <2>3
<1> QED
  BY <1>2

\* A set of subsets has one that is smaller than none of its own subsets in it.
LEMMA SmallestSet ==
  ASSUME NEW S, IsFiniteSet(S), NEW P \in SUBSET SUBSET S, P # {}
  PROVE  \E Y \in P : \A Z \in P : Z \subseteq Y => Z = Y
<1> DEFINE T == {Cardinality(Y) : Y \in P}
<1>1. ASSUME NEW Y \in P PROVE IsFiniteSet(Y) /\ Cardinality(Y) \in Nat
  <2>1. Y \in SUBSET S
    OBVIOUS
  <2>2. IsFiniteSet(Y)
    BY <2>1, FS_Subset
  <2> QED
    BY <2>2, FS_CardinalityType
<1>2. PICK c \in T : \A d \in T : c <= d
  <2>1. T \subseteq Nat /\ T # {}
    BY <1>1
  <2> QED
    BY <2>1, NatMin
<1>3. PICK Y \in P : c = Cardinality(Y)
  OBVIOUS
<1>4. ASSUME NEW Z \in P, Z \subseteq Y PROVE Z = Y
  <2>1. Cardinality(Y) <= Cardinality(Z) /\ Cardinality(Z) \in Nat /\ Cardinality(Y) \in Nat
    BY <1>1, <1>2, <1>3
  <2>2. Z \in SUBSET Y /\ IsFiniteSet(Y)
    BY <1>1, <1>4
  <2>3. Cardinality(Z) <= Cardinality(Y) /\ (Cardinality(Y) = Cardinality(Z) => Y = Z)
    BY <2>2, FS_Subset
  <2> QED
    BY <2>1, <2>3
<1> QED
  BY <1>4

Some(s) == CHOOSE x \in s : TRUE
FoldOf(g, w, S) ==
  g = [s \in SUBSET S |-> IF s = {} THEN 0 ELSE w[Some(s)] + g[s \ {Some(s)}]]
Total(w, S) == (CHOOSE g : FoldOf(g, w, S))[S]

LEMMA SumIsTotal == ASSUME NEW w, NEW S PROVE SumFunctionOnSet(w, S) = Total(w, S)
BY DEF SumFunctionOnSet, FoldFunctionOnSet, MapThenFoldSet, Total, FoldOf, Some

LEMMA SomeIn == ASSUME NEW s, s # {} PROVE Some(s) \in s
BY DEF Some

LEMMA FoldValue ==
  ASSUME NEW g, NEW w, NEW S, FoldOf(g, w, S), NEW s \in SUBSET S
  PROVE  g[s] = IF s = {} THEN 0 ELSE w[Some(s)] + g[s \ {Some(s)}]
BY DEF FoldOf

LEMMA FoldRestrict ==
  ASSUME NEW g, NEW w, NEW S, FoldOf(g, w, S), NEW R \in SUBSET S
  PROVE  FoldOf([s \in SUBSET R |-> g[s]], w, R)
<1> DEFINE h == [s \in SUBSET R |-> g[s]]
<1>1. ASSUME NEW s \in SUBSET R
      PROVE  h[s] = IF s = {} THEN 0 ELSE w[Some(s)] + h[s \ {Some(s)}]
  <2>1. s \in SUBSET S /\ s \ {Some(s)} \in SUBSET R
    OBVIOUS
  <2>2. g[s] = IF s = {} THEN 0 ELSE w[Some(s)] + g[s \ {Some(s)}]
    BY <2>1, FoldValue
  <2> QED
    BY <2>1, <2>2
<1> QED
  BY <1>1 DEF FoldOf

LEMMA FoldUnique ==
  ASSUME NEW g, NEW h, NEW w, NEW S, IsFiniteSet(S), FoldOf(g, w, S), FoldOf(h, w, S)
  PROVE  g = h
<1> DEFINE P == {s \in SUBSET S : g[s] # h[s]}
<1>1. g = [s \in SUBSET S |-> g[s]] /\ h = [s \in SUBSET S |-> h[s]]
  BY DEF FoldOf
<1>2. SUFFICES ASSUME P # {} PROVE FALSE
  BY <1>1
<1>3. PICK Y \in P : \A Z \in P : Z \subseteq Y => Z = Y
  <2>1. P \in SUBSET SUBSET S
    OBVIOUS
  <2> HIDE DEF P
  <2> QED
    BY <1>2, <2>1, SmallestSet
<1>4. /\ g[Y] = IF Y = {} THEN 0 ELSE w[Some(Y)] + g[Y \ {Some(Y)}]
      /\ h[Y] = IF Y = {} THEN 0 ELSE w[Some(Y)] + h[Y \ {Some(Y)}]
  BY FoldValue
<1>5. CASE Y = {}
  BY <1>4, <1>5
<1>6. CASE Y # {}
  <2>1. Some(Y) \in Y
    BY <1>6, SomeIn
  <2>2. Y \ {Some(Y)} \in SUBSET S /\ Y \ {Some(Y)} # Y
    BY <2>1
  <2>3. g[Y \ {Some(Y)}] = h[Y \ {Some(Y)}]
    BY <1>3, <2>2
  <2> QED
    BY <1>4, <1>6, <2>3
<1> QED
  BY <1>5, <1>6

\* The first step of a sum, where there is one.
LEMMA TotalOnce ==
  ASSUME NEW w, NEW S, IsFiniteSet(S), \E g : FoldOf(g, w, S)
  PROVE  Total(w, S) = IF S = {} THEN 0 ELSE w[Some(S)] + Total(w, S \ {Some(S)})
<1> DEFINE g == CHOOSE g : FoldOf(g, w, S)
           R == S \ {Some(S)}
           h == CHOOSE h : FoldOf(h, w, R)
           r == [s \in SUBSET R |-> g[s]]
<1>1. FoldOf(g, w, S)
  OBVIOUS
<1>2. Total(w, S) = g[S] /\ Total(w, R) = h[R]
  BY DEF Total
<1> HIDE DEF g
<1>3. FoldOf(r, w, R)
  <2>1. R \in SUBSET S
    OBVIOUS
  <2> QED
    BY <1>1, <2>1, FoldRestrict
<1> HIDE DEF r
<1>4. FoldOf(h, w, R)
  BY <1>3
<1> HIDE DEF h
<1>5. IsFiniteSet(R)
  BY FS_Subset
<1>6. r = h
  BY <1>3, <1>4, <1>5, FoldUnique
<1>7. h[R] = g[R]
  <2>1. R \in SUBSET R
    OBVIOUS
  <2>2. r[R] = g[R]
    BY <2>1 DEF r
  <2> QED
    BY <1>6, <2>2
<1>8. g[S] = IF S = {} THEN 0 ELSE w[Some(S)] + g[R]
  BY <1>1, FoldValue
<1> QED
  BY <1>2, <1>7, <1>8

LEMMA FoldExists == ASSUME NEW w, NEW S, IsFiniteSet(S) PROVE \E g : FoldOf(g, w, S)
<1> DEFINE P == {Y \in SUBSET S : ~ \E g : FoldOf(g, w, Y)}
<1>1. SUFFICES ASSUME P # {} PROVE FALSE
  OBVIOUS
<1>2. PICK Y \in P : \A Z \in P : Z \subseteq Y => Z = Y
  <2>1. P \in SUBSET SUBSET S
    OBVIOUS
  <2> HIDE DEF P
  <2> QED
    BY <1>1, <2>1, SmallestSet
<1> DEFINE g == [s \in SUBSET Y |->
                   IF s = {} THEN 0 ELSE w[Some(s)] + Total(w, s \ {Some(s)})]
<1>3. ASSUME NEW s \in SUBSET Y, s # Y PROVE g[s] = Total(w, s)
  <2>1. s \in SUBSET S /\ s \notin P
    BY <1>2, <1>3
  <2>2. IsFiniteSet(s) /\ \E h : FoldOf(h, w, s)
    BY <2>1, FS_Subset
  <2>3. Total(w, s) = IF s = {} THEN 0 ELSE w[Some(s)] + Total(w, s \ {Some(s)})
    BY <2>2, TotalOnce
  <2> QED
    BY <2>3
<1>4. ASSUME NEW s \in SUBSET Y, s # {}
      PROVE  g[s \ {Some(s)}] = Total(w, s \ {Some(s)})
  <2>1. Some(s) \in s
    BY <1>4, SomeIn
  <2>2. s \ {Some(s)} \in SUBSET Y /\ s \ {Some(s)} # Y
    BY <2>1
  <2> HIDE DEF g
  <2> QED
    BY <1>3, <2>2
<1>5. ASSUME NEW s \in SUBSET Y
      PROVE  g[s] = IF s = {} THEN 0 ELSE w[Some(s)] + g[s \ {Some(s)}]
  <2>1. g[s] = IF s = {} THEN 0 ELSE w[Some(s)] + Total(w, s \ {Some(s)})
    OBVIOUS
  <2> HIDE DEF g
  <2> QED
    BY <1>4, <2>1
<1>6. FoldOf(g, w, Y)
  BY <1>5 DEF FoldOf
<1> QED
  BY <1>2, <1>6

LEMMA TotalStep ==
  ASSUME NEW w, NEW S, IsFiniteSet(S)
  PROVE  Total(w, S) = IF S = {} THEN 0 ELSE w[Some(S)] + Total(w, S \ {Some(S)})
BY FoldExists, TotalOnce

LEMMA TotalNat ==
  ASSUME NEW S, IsFiniteSet(S), NEW w \in [S -> Nat], NEW R \in SUBSET S
  PROVE  Total(w, R) \in Nat
<1> DEFINE P == {Y \in SUBSET S : Total(w, Y) \notin Nat}
<1>1. SUFFICES ASSUME P # {} PROVE FALSE
  OBVIOUS
<1>2. PICK Y \in P : \A Z \in P : Z \subseteq Y => Z = Y
  <2>1. P \in SUBSET SUBSET S
    OBVIOUS
  <2> HIDE DEF P
  <2> QED
    BY <1>1, <2>1, SmallestSet
<1>3. Total(w, Y) = IF Y = {} THEN 0 ELSE w[Some(Y)] + Total(w, Y \ {Some(Y)})
  BY FS_Subset, TotalStep
<1>4. CASE Y # {}
  <2>1. Some(Y) \in Y
    BY <1>4, SomeIn
  <2>2. Total(w, Y \ {Some(Y)}) \in Nat
    <3>1. Y \ {Some(Y)} \in SUBSET S /\ Y \ {Some(Y)} # Y /\ Y \ {Some(Y)} \subseteq Y
      BY <2>1
    <3> QED
      BY <1>2, <3>1
  <2>3. w[Some(Y)] \in Nat
    BY <2>1
  <2> QED
    BY <1>3, <1>4, <2>2, <2>3
<1> QED
  BY <1>3, <1>4

\* A sum grows by what is added, in whichever order the fold takes the elements.
LEMMA TotalAdd ==
  ASSUME NEW S, IsFiniteSet(S), NEW w \in [S -> Nat], NEW R \in SUBSET S, NEW x \in R
  PROVE  Total(w, R) = w[x] + Total(w, R \ {x})
<1> DEFINE P == {Y \in SUBSET S : \E y \in Y : Total(w, Y) # w[y] + Total(w, Y \ {y})}
<1>1. SUFFICES ASSUME P # {} PROVE FALSE
  OBVIOUS
<1>2. PICK Y \in P : \A Z \in P : Z \subseteq Y => Z = Y
  <2>1. P \in SUBSET SUBSET S
    OBVIOUS
  <2> HIDE DEF P
  <2> QED
    BY <1>1, <2>1, SmallestSet
<1>3. PICK y \in Y : Total(w, Y) # w[y] + Total(w, Y \ {y})
  BY <1>2
<1> DEFINE c == Some(Y)
           A == Y \ {c}
           B == Y \ {y}
           C == (Y \ {c}) \ {y}
<1>4. c \in Y
  BY <1>3, SomeIn
<1>5. Total(w, Y) = w[c] + Total(w, A)
  BY <1>3, FS_Subset, TotalStep
<1> HIDE DEF c
<1>6. c # y
  BY <1>3, <1>5
<1>7. /\ A \in SUBSET S /\ B \in SUBSET S /\ C \in SUBSET S
      /\ A # Y /\ B # Y /\ y \in A /\ c \in B /\ A \ {y} = C /\ B \ {c} = C
  BY <1>4, <1>6
<1>8. Total(w, A) = w[y] + Total(w, C)
  <2>1. A \notin P
    BY <1>2, <1>7
  <2> QED
    BY <1>7, <2>1
<1>9. Total(w, B) = w[c] + Total(w, C)
  <2>1. B \notin P
    BY <1>2, <1>7
  <2> QED
    BY <1>7, <2>1
<1>10. w[c] \in Nat /\ w[y] \in Nat /\ Total(w, C) \in Nat
  BY <1>4, <1>7, TotalNat
<1>11. Total(w, Y) = w[y] + Total(w, B)
  BY <1>5, <1>8, <1>9, <1>10
<1> QED
  BY <1>3, <1>11

\* A sum does not change with the places of what is added up.
LEMMA TotalMoved ==
  ASSUME NEW S, IsFiniteSet(S), NEW v \in [S -> Nat], NEW w \in [S -> Nat],
         NEW f \in [S -> S], \A a, b \in S : f[a] = f[b] => a = b,
         \A a \in S : v[a] = w[f[a]],
         NEW R \in SUBSET S
  PROVE  Total(v, R) = Total(w, {f[a] : a \in R})
<1> DEFINE Im(Y) == {f[a] : a \in Y}
           P == {Y \in SUBSET S : Total(v, Y) # Total(w, Im(Y))}
<1>1. SUFFICES ASSUME P # {} PROVE FALSE
  OBVIOUS
<1>2. PICK Y \in P : \A Z \in P : Z \subseteq Y => Z = Y
  <2>1. P \in SUBSET SUBSET S
    OBVIOUS
  <2> HIDE DEF P
  <2> QED
    BY <1>1, <2>1, SmallestSet
<1>3. CASE Y = {}
  <2>1. Im(Y) = {}
    BY <1>3
  <2>2. Total(v, {}) = 0 /\ Total(w, {}) = 0
    BY FS_EmptySet, TotalStep
  <2> QED
    BY <1>2, <1>3, <2>1, <2>2
<1>4. CASE Y # {}
  <2>1. PICK y \in Y : TRUE
    BY <1>4
  <2> DEFINE A == Y \ {y}
  <2>2. /\ Y \in SUBSET S /\ A \in SUBSET S /\ A # Y /\ A \subseteq Y
        /\ Im(Y) \in SUBSET S /\ f[y] \in Im(Y) /\ Im(Y) \ {f[y]} = Im(A)
    BY <2>1
  <2>3. Total(v, A) = Total(w, Im(A))
    <3>1. A \notin P
      BY <1>2, <2>2
    <3> QED
      BY <2>2, <3>1
  <2>4. Total(v, Y) = v[y] + Total(v, A)
    BY <2>1, <2>2, TotalAdd
  <2> HIDE DEF Im
  <2>5. Total(w, Im(Y)) = w[f[y]] + Total(w, Im(A))
    <3>1. Total(w, Im(Y)) = w[f[y]] + Total(w, Im(Y) \ {f[y]})
      BY <2>2, TotalAdd
    <3> QED
      BY <2>2, <3>1
  <2>6. v[y] = w[f[y]]
    BY <2>1
  <2> QED
    BY <1>2, <2>3, <2>4, <2>5, <2>6
<1> QED
  BY <1>3, <1>4

-----------------------------------------------------------------------------
(* The merge.  The rows written are those of the hours before m; a group   *)
(* m .. at has all rows of its hour when the next row is of another one,   *)
(* because the array is sorted; and what the rows of an hour add up to is  *)
(* the same in the sorted array as in the one that was given.              *)

Calls == [k \in Index |-> Amount[data[k]]]
Given == [k \in Index |-> Amount[orig[k]]]
Hour(key) == {k \in Index : Key[data[k]] = key}

MergeType ==
  /\ m \in 0 .. N /\ file \in Seq(Row)
  /\ stage \in {"sort", "open", "group", "sum", "end"}
FileRight ==
  /\ \A k \in 1 .. Len(file) - 1 : file[k].key < file[k + 1].key
  /\ {file[k].key : k \in 1 .. Len(file)} = {Key[data[p]] : p \in 0 .. m - 1}
  /\ \A k \in 1 .. Len(file) : file[k].total = SumFunctionOnSet(Calls, Hour(file[k].key))
StageRight ==
  /\ stage \in {"sort", "open"} => file = <<>> /\ m = 0 /\ at = 0 /\ ~written
  /\ stage # "sort" => pc = "done"
  /\ stage = "end" /\ written => m = N
GroupRight ==
  stage \in {"group", "sum"} =>
    /\ at \in Int /\ m <= at /\ at < N
    /\ \A p \in m .. at : Key[data[p]] = Key[data[m]]
    /\ m > 0 => Key[data[m - 1]] < Key[data[m]]
SumRight ==
  stage = "sum" =>
    /\ at = N - 1 \/ Key[data[at]] # Key[data[at + 1]]
    /\ l \in m + 1 .. at + 1
    /\ acc = SumFunctionOnSet(Calls, m .. l - 1)

MergeInv == MergeType /\ FileRight /\ StageRight /\ GroupRight /\ SumRight

LEMMA IndexFinite == IsFiniteSet(Index)
<1>1. 0 \in Int /\ N - 1 \in Int
  BY SortAssumption
<1> QED
  BY <1>1, FS_Interval DEF Index

LEMMA CallsType ==
  ASSUME Types
  PROVE  Calls \in [Index -> Nat] /\ Given \in [Index -> Nat]
BY MergeAssumption DEF Types, Calls, Given

\* An hour has the same sum in the sorted array as in the given one, and the
\* arrays have the same hours.
LEMMA SameSums ==
  ASSUME Types, Permuted
  PROVE  /\ \A key : SumFunctionOnSet(Calls, Hour(key)) = OrigSum(key)
         /\ {Key[data[p]] : p \in Index} = OrigKeys
<1>1. PICK f \in Perms : \A k \in Index : data[k] = orig[f[k]]
  BY DEF Permuted
<1>2. f \in [Index -> Index] /\ \A a, b \in Index : f[a] = f[b] => a = b
  BY DEF Perms
<1>3. \A k \in Index : \E a \in Index : f[a] = k
  <2>1. f \in Injection(Index, Index)
    BY <1>2 DEF Injection, IsInjective
  <2>2. f \in Surjection(Index, Index)
    BY <2>1, IndexFinite, FS_Injection
  <2> QED
    BY <2>2 DEF Surjection
<1>4. Calls \in [Index -> Nat] /\ Given \in [Index -> Nat]
  BY CallsType
<1>5. \A a \in Index : Calls[a] = Given[f[a]]
  BY <1>1, <1>2 DEF Calls, Given
<1>6. ASSUME NEW key PROVE SumFunctionOnSet(Calls, Hour(key)) = OrigSum(key)
  <2> DEFINE R == Hour(key)
             Q == {k \in Index : Key[orig[k]] = key}
  <2>1. R \in SUBSET Index
    BY DEF Hour
  <2>2. {f[a] : a \in R} = Q
    BY <1>1, <1>2, <1>3 DEF Hour
  <2>3. OrigSum(key) = SumFunctionOnSet(Given, Q)
    BY DEF OrigSum, Given
  <2> HIDE DEF R, Q
  <2>4. Total(Calls, R) = Total(Given, {f[a] : a \in R})
    BY <1>2, <1>4, <1>5, <2>1, IndexFinite, TotalMoved
  <2>5. SumFunctionOnSet(Calls, R) = Total(Calls, R) /\ SumFunctionOnSet(Given, Q) = Total(Given, Q)
    BY SumIsTotal
  <2> QED
    BY <2>2, <2>3, <2>4, <2>5 DEF R
<1>7. {Key[data[p]] : p \in Index} = OrigKeys
  BY <1>1, <1>2, <1>3 DEF OrigKeys
<1> QED
  BY <1>6, <1>7

\* What the sort has left, position by position.
LEMMA SortedPairs ==
  ASSUME SInv, pc = "done"
  PROVE  \A p, q \in Index : p <= q => Key[data[p]] <= Key[data[q]]
<1> USE SortAssumption
<1> N \in Nat \ {0}
  BY DEF SInv
<1> SUFFICES ASSUME NEW p \in Index, NEW q \in Index, p <= q
             PROVE  Key[data[p]] <= Key[data[q]]
  OBVIOUS
<1>1. Segments = {}
  BY DEF SInv, Control, Segments, Busy
<1>2. CASE p < q
  BY <1>1, <1>2 DEF SInv, Settled, Together
<1>3. CASE p = q
  <2>1. Key[data[p]] \in Int
    BY DEF SInv, Types
  <2> QED
    BY <1>3, <2>1
<1> QED
  BY <1>2, <1>3 DEF Index

LEMMA GroupMergeInv == SInv /\ MergeInv /\ Group => MergeInv'
<1> SUFFICES ASSUME SInv, MergeInv, Group PROVE MergeInv'
  OBVIOUS
<1> USE SortAssumption
<1> N \in Nat \ {0}
  BY DEF SInv
<1>1. /\ stage = "group" /\ stage' \in {"group", "sum"}
      /\ m' = m /\ written' = written /\ file' = file /\ data' = data /\ pc' = pc
  BY DEF Group, vars
<1>2. Calls' = Calls /\ \A key : Hour(key)' = Hour(key)
  BY <1>1 DEF Calls, Hour
<1>3. MergeType' /\ StageRight'
  BY <1>1 DEF MergeInv, MergeType, StageRight
<1>4. FileRight'
  BY <1>1, <1>2 DEF MergeInv, FileRight
<1>5. /\ at \in Int /\ m <= at /\ at < N /\ m \in 0 .. N
      /\ \A p \in m .. at : Key[data[p]] = Key[data[m]]
      /\ m > 0 => Key[data[m - 1]] < Key[data[m]]
  BY <1>1 DEF MergeInv, MergeType, GroupRight
<1>6. CASE SameKey(at)
  <2>1. at' = at + 1 /\ stage' = "group" /\ at # N - 1 /\ Key[data[at]] = Key[data[at + 1]]
    BY <1>1, <1>6 DEF Group, SameKey
  <2>2. \A p \in m .. at + 1 : Key[data[p]] = Key[data[m]]
    BY <1>5, <2>1
  <2>3. GroupRight' /\ SumRight'
    BY <1>1, <1>5, <2>1, <2>2 DEF GroupRight, SumRight
  <2> QED
    BY <1>3, <1>4, <2>3 DEF MergeInv
<1>7. CASE ~SameKey(at)
  <2>1. /\ at' = at /\ stage' = "sum" /\ l' = m + 1 /\ acc' = Amount[data[m]]
        /\ at = N - 1 \/ Key[data[at]] # Key[data[at + 1]]
    BY <1>1, <1>7 DEF Group, SameKey
  <2>2. GroupRight'
    BY <1>1, <1>5, <2>1 DEF GroupRight
  <2>3. acc' = SumFunctionOnSet(Calls, m .. l' - 1)
    <3>1. m .. l' - 1 = {m} /\ m \in Index /\ {m} \ {m} = {}
      BY <1>5, <2>1 DEF Index
    <3>2. Total(Calls, {m}) = Calls[m] + Total(Calls, {m} \ {m})
      <4>1. {m} \in SUBSET Index /\ m \in {m}
        BY <3>1
      <4> QED
        BY <4>1, IndexFinite, CallsType, TotalAdd DEF SInv
    <3>3. Total(Calls, {}) = 0
      BY FS_EmptySet, TotalStep
    <3>4. Calls[m] = Amount[data[m]] /\ Calls[m] \in Nat
      BY <3>1, CallsType DEF Calls, SInv
    <3>5. SumFunctionOnSet(Calls, {m}) = Total(Calls, {m})
      BY SumIsTotal
    <3>6. Total(Calls, {m} \ {m}) = 0
      BY <3>1, <3>3, Zenon
    <3>7. SumFunctionOnSet(Calls, {m}) = Amount[data[m]]
      BY <3>2, <3>4, <3>5, <3>6
    <3> QED
      BY <2>1, <3>1, <3>7
  <2>4. SumRight'
    BY <1>1, <1>2, <1>5, <2>1, <2>3 DEF SumRight
  <2> QED
    BY <1>3, <1>4, <2>2, <2>4 DEF MergeInv
<1> QED
  BY <1>6, <1>7

LEMMA AddMergeInv == SInv /\ MergeInv /\ Add => MergeInv'
<1> SUFFICES ASSUME SInv, MergeInv, Add PROVE MergeInv'
  OBVIOUS
<1> USE SortAssumption
<1> N \in Nat \ {0}
  BY DEF SInv
<1>1. /\ stage = "sum" /\ stage' = "sum" /\ at' = at /\ l <= at /\ l' = l + 1
      /\ acc' = acc + Amount[data[l]]
      /\ m' = m /\ written' = written /\ file' = file /\ data' = data /\ pc' = pc
  BY DEF Add, vars
<1>2. Calls' = Calls /\ \A key : Hour(key)' = Hour(key)
  BY <1>1 DEF Calls, Hour
<1>3. MergeType' /\ StageRight' /\ GroupRight'
  BY <1>1 DEF MergeInv, MergeType, StageRight, GroupRight
<1>4. FileRight'
  BY <1>1, <1>2 DEF MergeInv, FileRight
<1>5. /\ at \in Int /\ at < N /\ m \in 0 .. N /\ l \in m + 1 .. at + 1
      /\ acc = SumFunctionOnSet(Calls, m .. l - 1)
      /\ at = N - 1 \/ Key[data[at]] # Key[data[at + 1]]
  BY <1>1 DEF MergeInv, MergeType, GroupRight, SumRight
<1>6. acc' = SumFunctionOnSet(Calls, m .. l)
  <2> DEFINE R == m .. l
  <2>1. R \in SUBSET Index /\ l \in R /\ R \ {l} = m .. l - 1 /\ l \in Index
    BY <1>1, <1>5 DEF Index
  <2> HIDE DEF R
  <2>2. Total(Calls, R) = Calls[l] + Total(Calls, R \ {l})
    BY <2>1, IndexFinite, CallsType, TotalAdd DEF SInv
  <2>3. Calls[l] = Amount[data[l]] /\ Calls[l] \in Nat /\ Total(Calls, m .. l - 1) \in Nat
    <3>1. m .. l - 1 \in SUBSET Index
      BY <2>1
    <3> QED
      BY <2>1, <3>1, IndexFinite, CallsType, TotalNat DEF Calls, SInv
  <2>4. acc = Total(Calls, m .. l - 1)
    BY <1>5, SumIsTotal
  <2>5. SumFunctionOnSet(Calls, R) = Total(Calls, R)
    BY SumIsTotal
  <2>6. Total(Calls, R \ {l}) = acc /\ acc \in Nat
    BY <2>1, <2>3, <2>4, Zenon
  <2>7. acc' = SumFunctionOnSet(Calls, R)
    BY <1>1, <2>2, <2>3, <2>5, <2>6
  <2> QED
    BY <2>7 DEF R
<1>7. SumRight'
  <2>1. l' - 1 = l /\ l' \in m + 1 .. at + 1
    BY <1>1, <1>5
  <2> QED
    BY <1>1, <1>2, <1>5, <1>6, <2>1 DEF SumRight
<1> QED
  BY <1>3, <1>4, <1>7 DEF MergeInv

LEMMA WriteMergeInv == SInv /\ MergeInv /\ Write => MergeInv'
<1> SUFFICES ASSUME SInv, MergeInv, Write PROVE MergeInv'
  OBVIOUS
<1> USE SortAssumption
<1> N \in Nat \ {0}
  BY DEF SInv
<1> DEFINE row == [key |-> Key[data[m]], total |-> acc]
<1>1. /\ stage = "sum" /\ stage' = (IF at' < N THEN "group" ELSE "end")
      /\ at' = at + 1 /\ m' = at + 1 /\ l > at
      /\ file' = Append(file, row)
      /\ written' = written /\ data' = data /\ pc' = pc
  BY DEF Write, vars
<1>2. Calls' = Calls /\ \A key : Hour(key)' = Hour(key)
  BY <1>1 DEF Calls, Hour
<1>3. /\ at \in Int /\ m <= at /\ at < N /\ m \in 0 .. N /\ l = at + 1
      /\ acc = SumFunctionOnSet(Calls, m .. l - 1)
      /\ at = N - 1 \/ Key[data[at]] # Key[data[at + 1]]
      /\ \A p \in m .. at : Key[data[p]] = Key[data[m]]
      /\ m > 0 => Key[data[m - 1]] < Key[data[m]]
      /\ pc = "done" /\ file \in Seq(Row)
  BY <1>1 DEF MergeInv, MergeType, GroupRight, SumRight, StageRight
<1>4. \A p, q \in Index : p <= q => Key[data[p]] <= Key[data[q]]
  BY <1>3, SortedPairs
<1>5. \A p \in Index : Key[data[p]] \in Int
  BY DEF SInv, Types
<1>6. \A p \in 0 .. m - 1 : p \in Index /\ Key[data[p]] < Key[data[m]]
  <2> TAKE p \in 0 .. m - 1
  <2>1. p \in Index /\ m - 1 \in Index /\ m \in Index /\ p <= m - 1 /\ m > 0
    BY <1>3 DEF Index
  <2>2. Key[data[p]] <= Key[data[m - 1]] /\ Key[data[m - 1]] < Key[data[m]]
    BY <1>3, <1>4, <2>1
  <2> QED
    BY <1>5, <2>1, <2>2
<1>7. \A p \in at + 1 .. N - 1 : p \in Index /\ Key[data[m]] < Key[data[p]]
  <2> TAKE p \in at + 1 .. N - 1
  <2>1. p \in Index /\ at \in Index /\ at + 1 \in Index /\ at + 1 <= p /\ at <= at + 1 /\ at # N - 1
        /\ m \in Index /\ at \in m .. at
    BY <1>3 DEF Index
  <2>2. /\ Key[data[at]] <= Key[data[at + 1]] /\ Key[data[at + 1]] <= Key[data[p]]
        /\ Key[data[at]] # Key[data[at + 1]] /\ Key[data[at]] = Key[data[m]]
    BY <1>3, <1>4, <2>1
  <2> QED
    BY <1>5, <2>1, <2>2
<1>8. Hour(Key[data[m]]) = m .. at
  <2>1. ASSUME NEW p \in Index PROVE Key[data[p]] = Key[data[m]] <=> p \in m .. at
    <3>1. p \in 0 .. m - 1 \/ p \in m .. at \/ p \in at + 1 .. N - 1
      BY <1>3 DEF Index
    <3>2. m \in Index
      BY <1>3 DEF Index
    <3>3. Key[data[p]] \in Int /\ Key[data[m]] \in Int
      BY <1>5, <3>2
    <3>4. p \in 0 .. m - 1 => p \notin m .. at
      BY <1>3
    <3>5. p \in at + 1 .. N - 1 => p \notin m .. at
      BY <1>3
    <3> QED
      BY <1>3, <1>6, <1>7, <3>1, <3>3, <3>4, <3>5
  <2>2. \A p \in m .. at : p \in Index
    BY <1>3 DEF Index
  <2> QED
    BY <2>1, <2>2 DEF Hour
<1>9. row \in Row /\ acc = SumFunctionOnSet(Calls, Hour(Key[data[m]]))
  <2>1. acc = SumFunctionOnSet(Calls, Hour(Key[data[m]]))
    <3>1. l - 1 = at
      BY <1>3
    <3> QED
      BY <1>3, <1>8, <3>1
  <2>2. acc \in Nat
    <3>1. Hour(Key[data[m]]) \in SUBSET Index
      BY DEF Hour
    <3>2. Total(Calls, Hour(Key[data[m]])) \in Nat
      BY <3>1, IndexFinite, CallsType, TotalNat DEF SInv
    <3> QED
      BY <2>1, <3>2, SumIsTotal
  <2>3. Key[data[m]] \in {Key[e] : e \in Elem}
    <3>1. m \in Index
      BY <1>3 DEF Index
    <3>2. data[m] \in Elem
      BY <3>1 DEF SInv, Types
    <3> QED
      BY <3>2
  <2> QED
    BY <2>1, <2>2, <2>3 DEF Row
<1>10. /\ file' \in Seq(Row) /\ Len(file) \in Nat /\ Len(file') = Len(file) + 1
       /\ file'[Len(file) + 1] = row
       /\ \A k \in 1 .. Len(file) : file'[k] = file[k]
  <2> HIDE DEF row
  <2> QED
    BY <1>1, <1>3, <1>9
<1>11. row.key = Key[data[m]] /\ row.total = acc
  OBVIOUS
<1> HIDE DEF row
<1>12. FileRight'
  <2>0. /\ \A k \in 1 .. Len(file) - 1 : file[k].key < file[k + 1].key
        /\ {file[k].key : k \in 1 .. Len(file)} = {Key[data[p]] : p \in 0 .. m - 1}
        /\ \A k \in 1 .. Len(file) : file[k].total = SumFunctionOnSet(Calls, Hour(file[k].key))
    BY DEF MergeInv, FileRight
  <2>1. ASSUME NEW k \in 1 .. Len(file') - 1 PROVE file'[k].key < file'[k + 1].key
    <3>1. CASE k = Len(file)
      <4>1. k \in 1 .. Len(file) /\ file'[k] = file[k] /\ file'[k + 1] = row
        BY <1>10, <3>1
      <4>2. PICK p \in 0 .. m - 1 : file[k].key = Key[data[p]]
        BY <2>0, <4>1
      <4> QED
        BY <1>6, <1>11, <4>1, <4>2
    <3>2. CASE k # Len(file)
      <4>1. k \in 1 .. Len(file) - 1 /\ k \in 1 .. Len(file) /\ k + 1 \in 1 .. Len(file)
        BY <1>10, <3>2
      <4> QED
        BY <1>10, <2>0, <4>1
    <3> QED
      BY <3>1, <3>2
  <2>2. {file'[k].key : k \in 1 .. Len(file')} = {Key[data[p]] : p \in 0 .. at}
    <3>1. 1 .. Len(file') = 1 .. Len(file) \cup {Len(file) + 1}
      BY <1>10
    <3>2. {file'[k].key : k \in 1 .. Len(file')} = {file[k].key : k \in 1 .. Len(file)} \cup {row.key}
      BY <1>10, <3>1
    <3>3. 0 .. at = (0 .. m - 1) \cup (m .. at) /\ m \in m .. at
      BY <1>3
    <3>4. {Key[data[p]] : p \in 0 .. at} = {Key[data[p]] : p \in 0 .. m - 1} \cup {Key[data[m]]}
      BY <1>3, <3>3
    <3> QED
      BY <1>11, <2>0, <3>2, <3>4
  <2>3. ASSUME NEW k \in 1 .. Len(file')
        PROVE  file'[k].total = SumFunctionOnSet(Calls, Hour(file'[k].key))
    <3>1. CASE k = Len(file) + 1
      BY <1>9, <1>10, <1>11, <3>1
    <3>2. CASE k # Len(file) + 1
      <4>1. k \in 1 .. Len(file)
        BY <1>10, <3>2
      <4> QED
        BY <1>10, <2>0, <4>1
    <3> QED
      BY <3>1, <3>2
  <2>4. m' - 1 = at
    BY <1>1, <1>3
  <2> QED
    BY <1>1, <1>2, <2>1, <2>2, <2>3, <2>4 DEF FileRight
<1>13. MergeType' /\ StageRight' /\ SumRight'
  BY <1>1, <1>3, <1>10 DEF MergeType, StageRight, SumRight
<1>14. GroupRight'
  <2> SUFFICES ASSUME at + 1 < N
               PROVE  /\ \A p \in at + 1 .. at + 1 : Key[data[p]] = Key[data[at + 1]]
                      /\ Key[data[at]] < Key[data[at + 1]]
    BY <1>1, <1>3 DEF GroupRight
  <2>1. at + 1 \in at + 1 .. N - 1 /\ at \in m .. at
    BY <1>3
  <2>2. \A p \in at + 1 .. at + 1 : p = at + 1
    BY <1>3
  <2> QED
    BY <1>3, <1>7, <2>1, <2>2
<1> QED
  BY <1>12, <1>13, <1>14 DEF MergeInv

LEMMA OpenMergeInv == SInv /\ MergeInv /\ Open => MergeInv'
<1> SUFFICES ASSUME SInv, MergeInv, Open PROVE MergeInv'
  OBVIOUS
<1> USE SortAssumption
<1> N \in Nat \ {0}
  BY DEF SInv
<1>1. /\ stage = "open" /\ (stage' = "group" \/ (stage' = "end" /\ written' = FALSE))
      /\ at' = at /\ m' = m /\ file' = file /\ data' = data /\ pc' = pc
  BY DEF Open, vars
<1>2. Calls' = Calls /\ \A key : Hour(key)' = Hour(key)
  BY <1>1 DEF Calls, Hour
<1>3. m = 0 /\ at = 0 /\ pc = "done" /\ file = <<>>
  BY <1>1 DEF MergeInv, StageRight
<1>4. MergeType' /\ StageRight' /\ SumRight'
  BY <1>1, <1>3 DEF MergeInv, MergeType, StageRight, SumRight
<1>5. FileRight'
  BY <1>1, <1>2 DEF MergeInv, FileRight
<1>6. GroupRight'
  <2>1. \A p \in 0 .. 0 : p = 0
    OBVIOUS
  <2> QED
    BY <1>1, <1>3, <2>1 DEF GroupRight
<1> QED
  BY <1>4, <1>5, <1>6 DEF MergeInv

LEMMA SortMergeInv == SInv /\ MergeInv /\ Sort => MergeInv'
<1> SUFFICES ASSUME SInv, MergeInv, Sort PROVE MergeInv'
  OBVIOUS
<1> USE SortAssumption
<1> N \in Nat \ {0}
  BY DEF SInv
<1>1. /\ stage = "sort" /\ stage' \in {"sort", "open", "end"} /\ (stage' # "sort" => pc' = "done")
      /\ at' = at /\ m' = m /\ file' = file /\ written' = written
  BY DEF Sort
<1>2. m = 0 /\ at = 0 /\ file = <<>> /\ ~written
  BY <1>1 DEF MergeInv, StageRight
<1>3. MergeType' /\ GroupRight' /\ SumRight'
  BY <1>1, <1>2 DEF MergeInv, MergeType, GroupRight, SumRight
<1>4. FileRight'
  <2>1. 1 .. Len(file') = {} /\ 1 .. Len(file') - 1 = {} /\ 0 .. m' - 1 = {}
    BY <1>1, <1>2
  <2> QED
    BY <2>1 DEF FileRight
<1> QED
  BY <1>1, <1>2, <1>3, <1>4 DEF MergeInv, StageRight

\* The file of the merge has one row for each hour, in order, with the calls of
\* all the rows of that hour: for every number of rows, in every order, however
\* many share an hour.
THEOREM MergedHolds == MSpec => []Merged
<1> USE SortAssumption
<1>1. MInit /\ N # 0 => SInv /\ Permuted /\ MergeInv
  <2> SUFFICES ASSUME MInit, N # 0 PROVE SInv /\ Permuted /\ MergeInv
    OBVIOUS
  <2>1. SInv /\ Permuted
    BY InitSInv, InitPermuted DEF MInit
  <2>2. m = 0 /\ at = 0 /\ file = <<>> /\ ~written /\ stage = "sort"
    BY DEF MInit
  <2>3. 1 .. Len(file) = {} /\ 1 .. Len(file) - 1 = {} /\ 0 .. m - 1 = {}
    BY <2>2
  <2>4. FileRight
    BY <2>3 DEF FileRight
  <2>5. MergeType /\ StageRight /\ GroupRight /\ SumRight
    BY <2>2 DEF MergeType, StageRight, GroupRight, SumRight
  <2> QED
    BY <2>1, <2>4, <2>5 DEF MergeInv
<1>2. SInv /\ Permuted /\ MergeInv /\ [MNext]_allVars => (SInv /\ Permuted /\ MergeInv)'
  <2> SUFFICES ASSUME SInv, Permuted, MergeInv, [MNext]_allVars
               PROVE  (SInv /\ Permuted /\ MergeInv)'
    OBVIOUS
  <2>1. [Next]_vars
    BY DEF MNext, Sort, Open, Group, Add, Write, allVars
  <2>2. SInv' /\ Permuted'
    BY <2>1, NextSInv, NextPermuted
  <2>3. ASSUME UNCHANGED allVars PROVE MergeInv'
    <3>1. /\ m' = m /\ at' = at /\ l' = l /\ acc' = acc /\ written' = written
          /\ file' = file /\ stage' = stage /\ data' = data /\ pc' = pc
      BY <2>3 DEF allVars, mergeVars, vars
    <3>2. Calls' = Calls /\ \A key : Hour(key)' = Hour(key)
      BY <3>1 DEF Calls, Hour
    <3>3. FileRight'
      BY <3>1, <3>2 DEF MergeInv, FileRight
    <3>4. MergeType' /\ StageRight' /\ GroupRight'
      BY <3>1 DEF MergeInv, MergeType, StageRight, GroupRight
    <3>5. SumRight'
      BY <3>1, <3>2 DEF MergeInv, SumRight
    <3> QED
      BY <3>3, <3>4, <3>5 DEF MergeInv
  <2>4. MergeInv'
    BY <2>3, SortMergeInv, OpenMergeInv, GroupMergeInv, AddMergeInv, WriteMergeInv, Zenon DEF MNext
  <2> QED
    BY <2>2, <2>4
<1>3. SInv /\ Permuted /\ MergeInv => Merged
  <2> SUFFICES ASSUME SInv, Permuted, MergeInv PROVE Merged
    OBVIOUS
  <2>1. \A k \in 1 .. Len(file) - 1 : file[k].key < file[k + 1].key
    BY DEF MergeInv, FileRight
  <2>2. ASSUME stage = "end", written
        PROVE  /\ {file[k].key : k \in 1 .. Len(file)} = OrigKeys
               /\ \A k \in 1 .. Len(file) : file[k].total = OrigSum(file[k].key)
    <3>1. 0 .. m - 1 = Index
      BY <2>2 DEF MergeInv, StageRight, Index
    <3>2. /\ \A key : SumFunctionOnSet(Calls, Hour(key)) = OrigSum(key)
          /\ {Key[data[p]] : p \in Index} = OrigKeys
      BY SameSums DEF SInv
    <3>3. {file[k].key : k \in 1 .. Len(file)} = {Key[data[p]] : p \in 0 .. m - 1}
      BY DEF MergeInv, FileRight
    <3>4. \A k \in 1 .. Len(file) : file[k].total = SumFunctionOnSet(Calls, Hour(file[k].key))
      BY DEF MergeInv, FileRight
    <3> QED
      BY <3>1, <3>2, <3>3, <3>4
  <2> QED
    BY <2>1, <2>2 DEF Merged
<1> DEFINE Nothing == EInv /\ stage \in {"sort", "end"} /\ file = <<>> /\ ~written
<1>4. MInit /\ N = 0 => Nothing
  BY InitEInv DEF MInit
<1>5. Nothing /\ [MNext]_allVars => Nothing'
  <2> SUFFICES ASSUME Nothing, [MNext]_allVars PROVE Nothing'
    OBVIOUS
  <2>1. [Next]_vars
    BY DEF MNext, Sort, Open, Group, Add, Write, allVars
  <2>2. EInv'
    BY <2>1, NextEInv
  <2>3. N = 0
    BY DEF EInv
  <2> QED
    BY <2>2, <2>3 DEF MNext, Sort, Open, Group, Add, Write, allVars, mergeVars
<1>6. Nothing => Merged
  BY DEF Merged
<1> HIDE DEF Nothing
<1>7. MInit => (SInv /\ Permuted /\ MergeInv) \/ Nothing
  BY <1>1, <1>4
<1>8. ((SInv /\ Permuted /\ MergeInv) \/ Nothing) /\ [MNext]_allVars
        => ((SInv /\ Permuted /\ MergeInv) \/ Nothing)'
  BY <1>2, <1>5
<1> QED
  BY <1>3, <1>6, <1>7, <1>8, PTL DEF MSpec
=============================================================================
