------------------------------ MODULE Merge005 ------------------------------
(***************************************************************************)
(* lcs_hcollect005_sum and lcs_merge005_list (cluster/common/lcs_common.c):*)
(* the rows of the five-minute or hour files are sorted by date and hour   *)
(* with lcs_quick_sort_ext, and rows of the same hour are added up into    *)
(* one row of the file.                                                    *)
(*                                                                         *)
(* The sort is module SegmentSort; Elem are the rows, Key their date and   *)
(* hour, Amount one of the eight counters, which are treated alike.  The   *)
(* other drivers have callers that only sort.                              *)
(***************************************************************************)
EXTENDS SegmentSort, Functions

CONSTANT Amount    \* the counter of a row

ASSUME MergeAssumption == Amount \in [Elem -> Nat]

VARIABLES
  m, at, l,    \* first and last row of the group, and the row being added
  acc,         \* arr[m]'s counter
  written,     \* whether the file has been opened for writing
  file,        \* the rows written to it
  stage

mergeVars == <<m, at, l, acc, written, file, stage>>
allVars == <<vars, mergeVars>>

Row == [key: {Key[e] : e \in Elem}, total: Nat]

MInit ==
  /\ Init
  /\ m = 0 /\ at = 0 /\ l = 0 /\ acc = 0
  /\ written = FALSE /\ file = <<>> /\ stage = "sort"

\* lcs_quick_sort_ext is the recursive driver; it is called with rows only.
Sort ==
  /\ stage = "sort" /\ Next
  /\ stage' = IF pc' # "done" THEN "sort" ELSE IF style = "recursive" /\ N # 0 THEN "open" ELSE "end"
  /\ UNCHANGED <<m, at, l, acc, written, file>>

\* fopen with "w+" empties the file; when it fails nothing is written.
Open ==
  /\ stage = "open"
  /\ \/ written' = TRUE /\ stage' = "group"
     \/ written' = FALSE /\ stage' = "end"
  /\ UNCHANGED <<m, at, l, acc, file, vars>>

SameKey(a) == a # N - 1 /\ Key[data[a]] = Key[data[a + 1]]

Mutant_Group ==
  /\ stage = "group"
  /\ IF SameKey(at)
       THEN at' = at + 1 /\ UNCHANGED <<l, acc, stage>>
       ELSE /\ l' = m /\ acc' = Amount[data[m]]
            /\ stage' = "sum" /\ UNCHANGED at
  /\ UNCHANGED <<m, written, file, vars>>

Mutant_Group_still ==
  /\ stage = "group"
  /\ IF SameKey(at)
       THEN UNCHANGED <<at, l, acc, stage>>
       ELSE /\ l' = m + 1 /\ acc' = Amount[data[m]]
            /\ stage' = "sum" /\ UNCHANGED at
  /\ UNCHANGED <<m, written, file, vars>>

\* The inner loop runs on while the next row is of the same date and hour.
Group ==
  /\ stage = "group"
  /\ IF SameKey(at)
       THEN at' = at + 1 /\ UNCHANGED <<l, acc, stage>>
       ELSE /\ l' = m + 1 /\ acc' = Amount[data[m]]
            /\ stage' = "sum" /\ UNCHANGED at
  /\ UNCHANGED <<m, written, file, vars>>

Add ==
  /\ stage = "sum" /\ l <= at
  /\ acc' = acc + Amount[data[l]] /\ l' = l + 1
  /\ UNCHANGED <<m, at, written, file, stage, vars>>

Write ==
  /\ stage = "sum" /\ l > at
  /\ file' = Append(file, [key |-> Key[data[m]], total |-> acc])
  /\ at' = at + 1 /\ m' = at'
  /\ stage' = IF at' < N THEN "group" ELSE "end"
  /\ UNCHANGED <<l, acc, written, vars>>

MNext == Sort \/ Open \/ Group \/ Add \/ Write

MSpec == MInit /\ [][MNext]_allVars
\* A function that is called runs on.
MFairSpec == MSpec /\ WF_allVars(MNext)

-----------------------------------------------------------------------------
(* Properties.                                                             *)

\* The rows as the caller gave them, and what they add up to.
OrigKeys == {Key[orig[k]] : k \in Index}
OrigSum(key) ==
  SumFunctionOnSet([k \in Index |-> Amount[orig[k]]], {k \in Index : Key[orig[k]] = key})

\* The result, whatever the order of the rows and however many share an hour:
\* the file has one row for each hour, with all its calls, and is ordered by
\* date and hour at every moment.
Merged ==
  /\ \A k \in 1 .. Len(file) - 1 : file[k].key < file[k + 1].key
  /\ stage = "end" /\ written =>
    /\ {file[k].key : k \in 1 .. Len(file)} = OrigKeys
    /\ \A k \in 1 .. Len(file) : file[k].total = OrigSum(file[k].key)

\* Every sort ends, on every array, and so does the merge of its rows; the sort
\* of nothing may die.
MergeEnds == <>(stage = "end" \/ (pc = "dead" /\ N = 0))
=============================================================================
