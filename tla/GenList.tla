------------------------------ MODULE GenList ------------------------------
(***************************************************************************)
(* The growing list of notify.system/gen_list.c.  The list and its header  *)
(* are one block, which realloc may move.  add_item_gen_list gets the      *)
(* address of the variable that points to it, get_data_gen_list the        *)
(* pointer, which its caller has read before the mutex is locked.          *)
(*                                                                         *)
(* The bodies run under one mutex and are one step each; the call of a get *)
(* is a step before it.  No program calls the functions yet: the callers   *)
(* here are any that pass what the prototypes ask for.  The header counts  *)
(* in 64 bits, but get_data_gen_list keeps the count in an int.            *)
(***************************************************************************)
EXTENDS Integers, Sequences

CONSTANTS
  Step,     \* GEN_LIST_STEP
  Header,   \* sizeof(GEN_LIST)
  Sizes,    \* the sizes items are added with, positive or not
  IntMax,   \* INT_MAX
  Takers,   \* the threads that call get_data_gen_list
  MaxAdds,  \* bound: calls of add_item_gen_list
  MaxGets   \* bound: calls of get_data_gen_list

ASSUME GenListAssumption ==
  /\ Step \in Nat \ {0} /\ Header \in Nat /\ Header < Step
  /\ IntMax \in Nat /\ Sizes \subseteq -(IntMax + 1) .. IntMax
  /\ MaxAdds \in Nat /\ MaxGets \in Nat

VARIABLES
  list,      \* the block the variable points to, 0 for none
  total, used_data, data,    \* its header and its items: <<number, size>>
  sig,       \* an add has raised its flag since data was last taken
  p,         \* the pointer each taker has called get with, 0 for no call
  dead,      \* the process has ended in get_data_gen_list
  freed,     \* ghost: a block that was moved away has been used
  wrapped,   \* ghost: a get has taken less than the list held
  adds, gets,     \* bound counters
  added, taken    \* ghosts: the items in the order they were added and taken

block == <<list, total, used_data, data>>
ghosts == <<freed, wrapped>>
listVars == <<block, sig, p, dead, ghosts, adds, gets, added, taken>>

ListInit ==
  /\ list = 0 /\ total = 0 /\ used_data = 0 /\ data = <<>>
  /\ sig = FALSE /\ p = [t \in Takers |-> 0]
  /\ dead = FALSE /\ freed = FALSE /\ wrapped = FALSE
  /\ adds = 0 /\ gets = 0 /\ added = <<>> /\ taken = <<>>

-----------------------------------------------------------------------------
Mutant_Grown(size, end) == IF end + 1 > size THEN size + Step ELSE size

\* The total of a block of size bytes after the loop that makes end + 1 fit.
Grown(size, end) ==
  IF end + 1 > size THEN size + Step * (((end - size) \div Step) + 1) ELSE size

\* *sig is set for the first item of a list that is new or was emptied.
Signals == list = 0 \/ used_data = 0

\* An item without a byte is refused; add_item_gen_list returns 0 all the same.
Refuse(sz) ==
  /\ sz < 1 /\ adds < MaxAdds /\ adds' = adds + 1
  /\ UNCHANGED <<block, sig, p, dead, ghosts, gets, added, taken>>

\* The block is made first.  One that has to grow stays where it is or moves.
add_item_traffic(sz) ==
  /\ sz >= 1 /\ adds < MaxAdds /\ adds' = adds + 1
  /\ LET at == IF list = 0 THEN 1 ELSE list
         size == IF list = 0 THEN Step ELSE total
         end == used_data + Header + sz
     IN  /\ total' = Grown(size, end)
         /\ list' \in IF end + 1 > size THEN {at, at + 1} ELSE {at}
  /\ sig' = (sig \/ Signals)
  /\ used_data' = used_data + sz
  /\ data' = Append(data, <<adds', sz>>)
  /\ added' = Append(added, <<adds', sz>>)
  /\ UNCHANGED <<p, dead, ghosts, gets, taken>>

\* The call of get_data_gen_list: a null pointer returns at once.
Call(t) ==
  /\ p[t] = 0 /\ list # 0 /\ gets < MaxGets
  /\ gets' = gets + 1 /\ p' = [p EXCEPT ![t] = list]
  /\ UNCHANGED <<block, sig, dead, ghosts, adds, added, taken>>

\* The conversion of n = p->used_data.
AsInt(u) ==
  LET w == u % (2 * (IntMax + 1)) IN IF w > IntMax THEN w - 2 * (IntMax + 1) ELSE w

n_int == AsInt(used_data)

Bytes(s) == LET sum[k \in 0 .. Len(s)] == IF k = 0 THEN 0 ELSE sum[k - 1] + s[k][2]
            IN  sum[Len(s)]

\* The items that are whole in the first n bytes behind the header.
Copied ==
  IF n_int = used_data THEN data
  ELSE SubSeq(data, 1, CHOOSE k \in 0 .. Len(data) :
         /\ Bytes(SubSeq(data, 1, k)) <= n_int
         /\ k < Len(data) => Bytes(SubSeq(data, 1, k + 1)) > n_int)

\* Under the mutex, with the block the list is in.  What n does not count is
\* lost: used_data is cleared all the same.
Mutant_Take(t) ==
  /\ p[t] = list /\ p[t] # 0 /\ n_int > 0
  /\ p' = [p EXCEPT ![t] = 0]
  /\ taken' = taken \o Copied
  /\ wrapped' = (wrapped \/ n_int # used_data)
  /\ UNCHANGED <<block, sig, dead, freed, adds, gets, added>>

Take(t) ==
  /\ p[t] = list /\ p[t] # 0 /\ n_int > 0
  /\ p' = [p EXCEPT ![t] = 0]
  /\ taken' = taken \o Copied
  /\ wrapped' = (wrapped \/ n_int # used_data)
  /\ data' = <<>> /\ used_data' = 0 /\ sig' = FALSE
  /\ UNCHANGED <<list, total, dead, freed, adds, gets, added>>

\* An empty list, and one whose size is 0 as an int.
TakeNothing(t) ==
  /\ p[t] = list /\ p[t] # 0 /\ n_int = 0
  /\ p' = [p EXCEPT ![t] = 0]
  /\ UNCHANGED <<block, sig, dead, ghosts, adds, gets, added, taken>>

\* A negative size is a huge one to malloc and memcpy.  n + 1 may overflow, too,
\* which is undefined: the list is taken or the process ends.
TakeDies(t) ==
  /\ p[t] = list /\ p[t] # 0
  /\ n_int < 0 \/ n_int = IntMax
  /\ dead' = TRUE
  /\ UNCHANGED <<block, sig, p, ghosts, adds, gets, added, taken>>

\* With a block that has been moved: what is read and cleared is freed memory.
TakeFreed(t) ==
  /\ p[t] # list /\ p[t] # 0
  /\ p' = [p EXCEPT ![t] = 0] /\ freed' = TRUE
  /\ UNCHANGED <<block, sig, dead, wrapped, adds, gets, added, taken>>

ListNext ==
  /\ ~dead
  /\ \/ \E sz \in Sizes : Refuse(sz) \/ add_item_traffic(sz)
     \/ \E t \in Takers : Call(t) \/ Take(t) \/ TakeNothing(t) \/ TakeDies(t) \/ TakeFreed(t)

ListSpec == ListInit /\ [][ListNext]_listVars

-----------------------------------------------------------------------------
(* Properties.                                                             *)

\* The header counts the items behind it, with the byte the growth reserves for
\* an end, whatever was added, taken and added again: the memcpy of an item
\* stays inside of its block.
Fits ==
  /\ used_data = Bytes(data)
  /\ list # 0 => used_data + Header + 1 <= total
  /\ total % Step = 0

\* Items are taken once, in the order in which they were added, and none is lost
\* between an add and a get, in a block that moves while nobody has read its
\* pointer, up to a list that an int cannot count.  A get uses freed memory only
\* when the list has grown, as long as all items fit into the first block none
\* does; it loses items only of a list of more bytes than an unsigned int counts,
\* and it ends the process only over one of INT_MAX bytes or more.
Complete ==
  /\ ~freed /\ ~wrapped => taken \o data = added
  /\ freed => total > Step
  /\ wrapped => total > 2 * (IntMax + 1)
  /\ dead => used_data >= IntMax
=============================================================================
