---------------------------- MODULE SegmentSort ----------------------------
(***************************************************************************)
(* The quicksorts of the repository: lcs_quick_sort and lcs_quick_sort_ext *)
(* (cluster/common/lcs_common.c), which sort directories and rows, the     *)
(* three drivers of cluster/quicksort/main.c around the same partition,    *)
(* and partition and quicksort of quicksort/quicksort.c.                   *)
(*                                                                         *)
(* The drivers differ in the order in which they take the segments that    *)
(* are left: recursion takes the left part first, the list and the two     *)
(* arrays the oldest.  Key is what the comparison sees of an element.      *)
(***************************************************************************)
EXTENDS Integers, Sequences

CONSTANTS
  N,        \* number of elements; the callers sort 0 .. N - 1
  Elem,     \* the elements
  Key,      \* their keys, in the order of the comparison
  Styles    \* the drivers: "recursive", "queue", and "pivot" for quicksort.c

Index == 0 .. N - 1

ASSUME SortAssumption ==
  /\ N \in Nat
  /\ Key \in [Elem -> Int]
  /\ Styles \subseteq {"recursive", "queue", "pivot"}

VARIABLES
  style,       \* the driver that was called
  data,        \* the array
  todo,        \* segments [low, hi] still to be partitioned
  low, hi,     \* the segment in hand
  i, j,        \* the indices of partition
  pc,
  orig,        \* ghost: the array as it was given
  taken        \* ghost: the number of segments ever queued

vars == <<style, data, todo, low, hi, i, j, pc, orig, taken>>

PCs == {"take", "down", "up", "swap", "finish", "done"}
Segment == [low: Index, hi: Index]

\* Only lcs_quick_sort and quick_sort partition an array of one element.
Init ==
  /\ style \in Styles
  /\ data \in [Index -> Elem] /\ orig = data
  /\ todo = IF N > 1 \/ style = "recursive"
              THEN <<[low |-> 0, hi |-> N - 1]>> ELSE <<>>
  /\ taken = Len(todo)
  /\ low = 0 /\ hi = 0 /\ i = 0 /\ j = 0
  /\ pc = "take"

\* The quicksort programs exchange through an int; what they sort fits in one.
Swapped(a, b) == [data EXCEPT ![a] = data[b], ![b] = data[a]]
Pivot == Key[data[low]]

\* The loop of partition is entered with i below j only.
Scan(x, y) == IF x < y THEN "down" ELSE "finish"

\* A caller that has found nothing sorts up to -1, and partition compares with
\* data[-1]: what is there may do no harm, or the program dies.
Take ==
  /\ pc = "take" /\ todo # <<>>
  /\ low' = Head(todo).low /\ hi' = Head(todo).hi
  /\ todo' = Tail(todo)
  /\ i' = low' + 1 /\ j' = hi'
  /\ pc' \in IF hi' < low' THEN {"take", "dead"} ELSE {Scan(i', j')}
  /\ UNCHANGED <<style, data, orig, taken>>

Down ==
  /\ pc = "down"
  /\ IF Pivot <= Key[data[j]] /\ i < j
       THEN j' = j - 1 /\ pc' = pc
       ELSE j' = j /\ pc' = "up"
  /\ UNCHANGED <<style, data, todo, low, hi, i, orig, taken>>

Up ==
  /\ pc = "up"
  /\ IF Pivot >= Key[data[i]] /\ i < j
       THEN i' = i + 1 /\ pc' = pc
       ELSE i' = i /\ pc' = "swap"
  /\ UNCHANGED <<style, data, todo, low, hi, j, orig, taken>>

Swap ==
  /\ pc = "swap"
  /\ IF i < j
       THEN data' = Swapped(i, j) /\ i' = i + 1 /\ j' = j - 1
       ELSE UNCHANGED <<data, i, j>>
  /\ pc' = Scan(i', j')
  /\ UNCHANGED <<style, todo, low, hi, orig, taken>>

\* The end of partition: where the pivot or the boundary goes, and the index
\* that is returned.  quicksort.c steps back once more when the scans met at an
\* element above the pivot.
Back == style = "pivot" /\ i = j /\ Key[data[j]] > Pivot
split == IF Back THEN j - 1 ELSE j

PivotMoves ==
  IF style = "pivot" /\ i > j THEN TRUE ELSE Key[data[split]] < Pivot

\* The parts that are left, without those of one element.
Mutant_Parts(s) == <<[low |-> low, hi |-> s - 1], [low |-> s + 1, hi |-> hi]>>
Parts(s) ==
  IF style = "pivot"
    THEN <<[low |-> low, hi |-> s - 1], [low |-> s + 1, hi |-> hi]>>
    ELSE <<[low |-> low, hi |-> s - 1], [low |-> s, hi |-> hi]>>

Mutant_Worth(p) == p.low <= p.hi
Worth(p) == p.low < p.hi
Kept(s) ==
  (IF Worth(Parts(s)[1]) THEN <<Parts(s)[1]>> ELSE <<>>) \o
  (IF Worth(Parts(s)[2]) THEN <<Parts(s)[2]>> ELSE <<>>)

Finish ==
  /\ pc = "finish"
  /\ data' = IF PivotMoves THEN Swapped(low, split) ELSE data
  /\ todo' = IF style = "queue" THEN todo \o Kept(split) ELSE Kept(split) \o todo
  /\ taken' = taken + Len(Kept(split))
  /\ pc' = "take"
  /\ UNCHANGED <<style, low, hi, i, j, orig>>

Stop ==
  /\ pc = "take" /\ todo = <<>>
  /\ pc' = "done"
  /\ UNCHANGED <<style, data, todo, low, hi, i, j, orig, taken>>

Next == Take \/ Down \/ Up \/ Swap \/ Finish \/ Stop

Spec == Init /\ [][Next]_vars
\* A function that is called runs on.
FairSpec == Spec /\ WF_vars(Next)

-----------------------------------------------------------------------------
(* Properties.                                                             *)

Types ==
  /\ style \in Styles
  /\ data \in [Index -> Elem] /\ orig \in [Index -> Elem]
  /\ todo \in Seq(Segment) /\ taken \in Nat
  /\ low \in Index /\ hi \in Index
  /\ i \in 0 .. N /\ j \in Index
  /\ pc \in PCs

\* The state of the sort has its types; the indices may stop one outside the
\* array, the elements that are read may not.  Only lcs_quick_sort called for no
\* element reads outside, and then there is nothing else to do.
TypeOK ==
  /\ N # 0 => Types
  /\ N = 0 => /\ style \in Styles /\ pc \in {"take", "done", "dead"}
              /\ todo # <<>> \/ pc = "dead" => style = "recursive"

\* partition: what i has passed is not above the pivot, what j has passed not
\* below it, and neither leaves the segment.
Partitioned ==
  pc \in {"down", "up", "swap", "finish"} =>
    /\ low <= j /\ j <= hi /\ low < i /\ i <= j + 1
    /\ low < hi => low < j
    /\ pc # "finish" => i <= j
    /\ \A p \in low + 1 .. i - 1 : Key[data[p]] <= Pivot
    /\ \A p \in j + 1 .. hi : Key[data[p]] >= Pivot
    /\ pc \in {"up", "swap"} => (i < j => Key[data[j]] < Pivot)
    /\ pc = "swap" => (i < j => Key[data[i]] > Pivot)

Busy == pc \notin {"take", "done", "dead"}
Segments == {todo[k] : k \in 1 .. Len(todo)} \cup
            (IF Busy THEN {[low |-> low, hi |-> hi]} ELSE {})
Together(p, q) == \E s \in Segments : s.low <= p /\ q <= s.hi

\* Two elements that are in no common segment any more are in order, and will
\* not be compared again: the segments left to sort cover all disorder.
Settled ==
  \A p, q \in Index : p < q => Together(p, q) \/ Key[data[p]] <= Key[data[q]]

\* The segments do not overlap, so that none disturbs what another has settled.
Disjoint ==
  /\ \A k, l \in 1 .. Len(todo) :
       k # l => todo[k].hi < todo[l].low \/ todo[l].hi < todo[k].low
  /\ Busy => \A k \in 1 .. Len(todo) : todo[k].hi < low \/ hi < todo[k].low

\* The array holds the elements it was given, each as often.
Perms == {f \in [Index -> Index] : \A a, b \in Index : f[a] = f[b] => a = b}
Permuted == \E f \in Perms : \A k \in Index : data[k] = orig[f[k]]

\* unit_test: the sorted array has no element above its successor.
unit_test == pc = "done" => \A k \in 0 .. N - 2 : Key[data[k]] <= Key[data[k + 1]]

\* quick_sort_non_recursive_improve has room for N segments in its arrays and
\* stops at the first entry that is still 0: one must be left.
QueueFits == taken < N \/ N <= 1

\* The sort ends on every array.
Ends == <>(pc \in {"done", "dead"})
=============================================================================
