--------------------------- MODULE RegionCreation ---------------------------
(***************************************************************************)
(* The creation of the region of common/shared_data.c, next to processes   *)
(* that already use it.  The process whose shm_open with O_EXCL succeeds   *)
(* clears and initialises the region; the others open it as soon as it has *)
(* a name, and do not wait.  Memory that is zero is an unlocked mutex, so  *)
(* that they are let in before there is a mutex, and the initialisation    *)
(* unlocks whatever is locked by then.                                     *)
(*                                                                         *)
(* SharedData takes the region as initialised; this module says from when  *)
(* on it may.  Critical sections are split into their accesses.  ftruncate *)
(* gives the size the region has for everyone, and ntt_unlink_shm never    *)
(* removes the name (it asks for a path that is null).                     *)
(***************************************************************************)
EXTENDS Integers, FiniteSets

CONSTANTS
  Procs,    \* main.read, main.write and main.stop processes
  Total,    \* LIST_SHARED_DATA_SZ
  Header,   \* sizeof(LIST_SHARED_DATA)
  ItemSz,   \* bytes of an item
  MaxOps    \* bound: reads and writes of all processes

ASSUME RegionAssumption ==
  /\ Total \in Nat /\ Header \in Nat /\ ItemSz \in Nat \ {0} /\ MaxOps \in Nat
  /\ ItemSz + Header < Total

VARIABLES
  exists,      \* the name exists
  total,       \* p->total
  used_data,   \* p->used_data
  locked,      \* the word of p->frame_mtx
  ready,       \* both mutexes have been initialised
  pc,
  ops          \* bound counter

region == <<exists, total, used_data, locked, ready>>
vars == <<region, pc, ops>>

Init ==
  /\ exists = FALSE /\ total = 0 /\ used_data = 0 /\ locked = FALSE /\ ready = FALSE
  /\ pc = [p \in Procs |-> "off"] /\ ops = 0

Goto(p, a, b) == pc[p] = a /\ pc' = [pc EXCEPT ![p] = b]

-----------------------------------------------------------------------------
(* init_service.                                                           *)

Mutant_Open(p) ==
  /\ Goto(p, "off", "memset")
  /\ exists' = TRUE
  /\ UNCHANGED <<total, used_data, locked, ready, ops>>

\* shm_open, ftruncate and mmap.
Open(p) ==
  /\ Goto(p, "off", IF exists THEN "use" ELSE "memset")
  /\ exists' = TRUE
  /\ UNCHANGED <<total, used_data, locked, ready, ops>>

Memset(p) ==
  /\ Goto(p, "memset", "total")
  /\ total' = 0 /\ used_data' = 0 /\ locked' = FALSE
  /\ UNCHANGED <<exists, ready, ops>>

SetTotal(p) ==
  /\ Goto(p, "total", "frame")
  /\ total' = Total
  /\ UNCHANGED <<exists, used_data, locked, ready, ops>>

\* init_shm_mtx of frame_mtx.
InitFrame(p) ==
  /\ Goto(p, "frame", "exit")
  /\ locked' = FALSE
  /\ UNCHANGED <<exists, total, used_data, ready, ops>>

\* init_shm_mtx of exit_mtx, after which the creator is like the others.
InitExit(p) ==
  /\ Goto(p, "exit", "use")
  /\ ready' = TRUE
  /\ UNCHANGED <<exists, total, used_data, locked, ops>>

\* A mutex that cannot be initialised: the processes go on without a look at
\* what ntt_open_shm returned.
InitFails(p) ==
  /\ pc[p] \in {"frame", "exit"} /\ pc' = [pc EXCEPT ![p] = "use"]
  /\ UNCHANGED <<region, ops>>

-----------------------------------------------------------------------------
(* ntt_write_shm and ntt_read_shm.                                         *)

Lock(p) ==
  /\ pc[p] = "use" /\ ~locked /\ ops < MaxOps
  /\ pc' \in {[pc EXCEPT ![p] = a] : a \in {"test", "read"}}
  /\ locked' = TRUE /\ ops' = ops + 1
  /\ UNCHANGED <<exists, total, used_data, ready>>

Mutant_Room == ItemSz + used_data + Header >= total + ItemSz
Room == ItemSz + used_data + Header >= total

Test(p) ==
  /\ Goto(p, "test", "copy")
  /\ used_data' = IF Room THEN 0 ELSE used_data
  /\ UNCHANGED <<exists, total, locked, ready, ops>>

\* The memcpy to data + used_data, and then its addition.
Copy(p) ==
  /\ Goto(p, "copy", "add")
  /\ UNCHANGED <<region, ops>>

Add(p) ==
  /\ Goto(p, "add", "unlock")
  /\ used_data' = used_data + ItemSz
  /\ UNCHANGED <<exists, total, locked, ready, ops>>

Mutant_Read(p) ==
  /\ Goto(p, "read", "unlock")
  /\ used_data' = 0 /\ locked' = FALSE
  /\ UNCHANGED <<exists, total, ready, ops>>

Read(p) ==
  /\ Goto(p, "read", "unlock")
  /\ used_data' = 0
  /\ UNCHANGED <<exists, total, locked, ready, ops>>

Unlock(p) ==
  /\ Goto(p, "unlock", "use")
  /\ locked' = FALSE
  /\ UNCHANGED <<exists, total, used_data, ready, ops>>

Inside == {p \in Procs : pc[p] \in {"test", "copy", "add", "read", "unlock", "deadinside"}}

\* A process ends; the region stays as it is.
Die(p) ==
  /\ pc[p] \notin {"off", "dead", "deadinside"}
  /\ pc' = [pc EXCEPT ![p] = IF p \in Inside THEN "deadinside" ELSE "dead"]
  /\ UNCHANGED <<region, ops>>

Create(p) ==
  Open(p) \/ Memset(p) \/ SetTotal(p) \/ InitFrame(p) \/ InitExit(p) \/ InitFails(p)
Use(p) == Lock(p) \/ Test(p) \/ Copy(p) \/ Add(p) \/ Read(p) \/ Unlock(p)

Next == \E p \in Procs : Create(p) \/ Use(p) \/ Die(p)

Spec == Init /\ [][Next]_vars

-----------------------------------------------------------------------------
(* Properties.                                                             *)

\* The fields and the processes have their types; the region has no length but
\* none and the one it was made with.
TypeOK ==
  /\ exists \in BOOLEAN /\ locked \in BOOLEAN /\ ready \in BOOLEAN
  /\ total \in {0, Total} /\ used_data \in Nat
  /\ pc \in [Procs -> {"off", "memset", "total", "frame", "exit", "use", "test", "copy",
                       "add", "read", "unlock", "dead", "deadinside"}]
  /\ ops \in 0 .. MaxOps

\* The creator is done, and the mutex is what it is for: locked exactly while
\* one process is inside.
Settled == /\ ready
           /\ locked <=> Inside # {}
           /\ \A p, q \in Inside : p = q

\* Only one process creates, none after the region is ready, and nothing happens
\* before it exists.
Creators == {p \in Procs : pc[p] \in {"memset", "total", "frame", "exit"}}
OneCreator ==
  /\ \A p, q \in Creators : p = q
  /\ ready => Creators = {}
  /\ ~exists => \A p \in Procs : pc[p] = "off"
  /\ ready => exists

\* Inside alone, and with the mutex locked, a process that has tested for room
\* has it: who was let in by mistake unlocks before it leaves.
TestedRoom ==
  \A p \in Procs : locked /\ Inside = {p} /\ pc[p] = "copy" =>
                     used_data + ItemSz + Header < Total

IInv == TypeOK /\ OneCreator /\ TestedRoom

\* From a moment on at which the region is settled it stays so: no process that
\* comes later initialises it again, and no early one unlocks it under another.
\* (That it settles is not certain: a process let in before the initialisation
\* unlocks the mutex of one let in after it, and so on.)
StaysSettled == [][Settled => Settled']_vars

\* The region is initialised once, and never again after that, whatever
\* processes end: what was written into it is not cleared.
InitialisedOnce == [][ready => ready' /\ total' = total]_vars

\* In a settled region an item is copied inside of it.
SafeCopy ==
  \A p \in Procs : Settled /\ pc[p] = "copy" => used_data + ItemSz + Header < Total
=============================================================================
