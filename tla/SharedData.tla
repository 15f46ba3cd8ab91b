----------------------------- MODULE SharedData -----------------------------
(***************************************************************************)
(* The shared-memory queue of common/shared_data.c and the three programs  *)
(* of shared_data/ that use it: main.write puts items into the region in   *)
(* batches, the thread of main.read copies the whole region out and sleeps *)
(* when there is nothing in it, main.stop sets or clears should_exit.      *)
(*                                                                         *)
(* Each program is a process with steps of its own.  SIGALRM is the only   *)
(* call they make to each other: a writer sends it when the last item of   *)
(* its batch found the reader sleeping, main.stop after every change of    *)
(* should_exit, and the read thread to its own process when it ends.       *)
(*                                                                         *)
(* The region exists and is initialised.  frame_mtx guards the queue and   *)
(* read_pid, exit_mtx guards should_exit, and neither is robust.  A thread *)
(* of main.read can die inside a critical section, because main returns or *)
(* a signal ends the process, so each of its sections is two steps, one    *)
(* that takes the lock and one that gives it back.  main.write and         *)
(* main.stop are not killed inside theirs, which are one step.             *)
(***************************************************************************)
EXTENDS Integers, Sequences

CONSTANTS
  Readers,     \* pids of the main.read processes
  Writers,     \* the main.write processes
  NoPid,       \* pid 0
  Total,       \* p->total, in bytes
  Header,      \* sizeof(LIST_SHARED_DATA)
  ItemSz,      \* sizeof(SHARED_ITEM)
  Batch,       \* writes per round of main.write (1000 in the code)
  MaxBatches,  \* bound: rounds of all writers together
  MaxStops     \* bound: invocations of main.stop

ASSUME SharedDataAssumption ==
  /\ NoPid \notin Readers
  /\ Total \in Nat /\ Header \in Nat /\ ItemSz \in Nat \ {0}
  /\ ItemSz + Header < Total
  /\ Batch \in Nat \ {0}
  /\ MaxBatches \in Nat /\ MaxStops \in Nat

VARIABLES
  data,         \* the items in p->data; used_data = ItemSz * Len(data)
  frame_mtx,    \* the reader that holds frame_mtx between two steps, or NoPid
  exit_mtx,     \* the reader that holds exit_mtx between two steps, or NoPid
  read_pid,     \* p->read_pid
  should_exit,  \* p->should_exit
  sleeping,     \* p->sleeping
  mpc,          \* main thread of each main.read
  tpc,          \* read thread of each main.read
  pidd,         \* ntt_read_shm's static pidd is set
  tmp,          \* ntt_read_shm's copy of the region
  sig,          \* the SIGALRM pending for each main.read, and who sent it
  wpc,          \* each main.write
  i,            \* its index in the batch
  sendto,       \* its read_pid when sendsig is set, else NoPid
  spc,          \* the main.stop that is running, if one is
  spid,         \* its read_pid
  batches,      \* bound counter: rounds begun
  stops,        \* bound counter: invocations of main.stop
  wrote,        \* ghost: items written so far; item k is the k-th
  out,          \* ghost: the items ntt_read_shm returned, in order
  dropped       \* ghost: the items overwritten unread

shm  == <<data, frame_mtx, exit_mtx, read_pid, should_exit, sleeping>>
rvars == <<mpc, tpc, pidd, tmp, sig>>
wvars == <<wpc, i, sendto, batches, wrote, dropped>>
svars == <<spc, spid, stops>>
vars == <<shm, rvars, wvars, svars, out>>

MainPCs   == {"off", "reg", "loop", "pause", "check", "checking", "linger", "clear",
              "clearing", "exit", "gone"}
ThreadPCs == {"off", "check", "checking", "read", "copied", "empty", "nap", "asleep",
              "finish", "done", "gone"}
WriterPCs == {"off", "write", "sigqueue", "check", "usleep", "gone"}

used_data == ItemSz * Len(data)

Init ==
  /\ data = <<>> /\ frame_mtx = NoPid /\ exit_mtx = NoPid /\ read_pid = NoPid
  /\ should_exit = FALSE /\ sleeping = FALSE
  /\ mpc = [r \in Readers |-> "off"]
  /\ tpc = [r \in Readers |-> "off"]
  /\ pidd = [r \in Readers |-> FALSE]
  /\ tmp = [r \in Readers |-> <<>>]
  /\ sig = [r \in Readers |-> "none"]
  /\ wpc = [w \in Writers |-> "off"]
  /\ i = [w \in Writers |-> 0]
  /\ sendto = [w \in Writers |-> NoPid]
  /\ spc = "idle" /\ spid = NoPid
  /\ batches = 0 /\ stops = 0
  /\ wrote = 0 /\ out = <<>> /\ dropped = {}

-----------------------------------------------------------------------------
(* Signals.                                                                *)

Running(r) == mpc[r] \notin {"off", "gone"}

\* kill or sigqueue of SIGALRM: a signal that is already pending is not queued
\* a second time, and a pid without a process is ESRCH.
Sigqueue(p, from) ==
  sig' = [r \in Readers |-> IF r = p /\ Running(r) /\ sig[r] = "none"
                            THEN from ELSE sig[r]]

\* The end of a process: its threads are gone wherever they are, and a lock one
\* of them holds stays locked.
Die(r) ==
  /\ mpc' = [mpc EXCEPT ![r] = "gone"]
  /\ tpc' = [tpc EXCEPT ![r] = "gone"]
  /\ sig' = [sig EXCEPT ![r] = "none"]
  /\ tmp' = [tmp EXCEPT ![r] = <<>>]
  /\ pidd' = [pidd EXCEPT ![r] = FALSE]

\* What the handler of main.read does to its main thread: it interrupts pause
\* and the sleep before the exit, and is lost anywhere else.
MainAfter(r) ==
  CASE mpc[r] = "pause"  -> "check"
    [] mpc[r] = "linger" -> "clear"
    [] OTHER             -> mpc[r]

\* A signal of another process is passed on to the read thread, where it
\* interrupts sleep.
ThreadAfter(r) ==
  IF sig[r] = "other" /\ tpc[r] = "asleep" THEN "check" ELSE tpc[r]

\* The delivery of SIGALRM.  Before reg_user_sig its default action ends the
\* process; after the end of the detached read thread pthread_kill is undefined,
\* which leaves the process alone or ends it.
Deliver(r) ==
  /\ sig[r] # "none"
  /\ \/ /\ mpc[r] = "reg" \/ (sig[r] = "other" /\ tpc[r] = "done")
        /\ Die(r)
     \/ /\ mpc[r] # "reg"
        /\ mpc' = [mpc EXCEPT ![r] = MainAfter(r)]
        /\ tpc' = [tpc EXCEPT ![r] = ThreadAfter(r)]
        /\ sig' = [sig EXCEPT ![r] = "none"]
        /\ UNCHANGED <<tmp, pidd>>
  /\ UNCHANGED <<shm, wvars, svars, out>>

-----------------------------------------------------------------------------
(* main.read, its main thread.                                             *)

mainGoto(r, a, b) == mpc[r] = a /\ mpc' = [mpc EXCEPT ![r] = b]

RStart(r) ==
  /\ mainGoto(r, "off", "reg")
  /\ tpc' = [tpc EXCEPT ![r] = "check"]
  /\ UNCHANGED <<shm, pidd, tmp, sig, wvars, svars, out>>

RReg(r) ==
  /\ mainGoto(r, "reg", "loop")
  /\ UNCHANGED <<shm, tpc, pidd, tmp, sig, wvars, svars, out>>

RPause(r) ==
  /\ mainGoto(r, "loop", "pause")
  /\ UNCHANGED <<shm, tpc, pidd, tmp, sig, wvars, svars, out>>

\* check_exiit up to the lock: exit_mtx stays taken until it returns.
LockExit(r) ==
  /\ exit_mtx = NoPid
  /\ exit_mtx' = r
  /\ UNCHANGED <<data, frame_mtx, read_pid, should_exit, sleeping>>

UnlockExit ==
  /\ exit_mtx' = NoPid
  /\ UNCHANGED <<data, frame_mtx, read_pid, should_exit, sleeping>>

\* What check_exiit returns: a count that is positive exactly while should_exit
\* is set, whatever the process counted before.
check_exiit == should_exit

RLock(r) ==
  /\ mainGoto(r, "check", "checking")
  /\ LockExit(r)
  /\ UNCHANGED <<tpc, pidd, tmp, sig, wvars, svars, out>>

RCheck(r) ==
  /\ mainGoto(r, "checking", IF check_exiit THEN "linger" ELSE "loop")
  /\ UnlockExit
  /\ UNCHANGED <<tpc, pidd, tmp, sig, wvars, svars, out>>

RLinger(r) ==
  /\ mainGoto(r, "linger", "clear")
  /\ UNCHANGED <<shm, tpc, pidd, tmp, sig, wvars, svars, out>>

\* set_read_pid(0), whichever reader read_pid names by now.
RClear(r) ==
  /\ frame_mtx = NoPid
  /\ mainGoto(r, "clear", "clearing")
  /\ frame_mtx' = r
  /\ read_pid' = NoPid
  /\ UNCHANGED <<data, exit_mtx, should_exit, sleeping, tpc, pidd, tmp, sig,
                 wvars, svars, out>>

RCleared(r) ==
  /\ mainGoto(r, "clearing", "exit")
  /\ frame_mtx' = NoPid
  /\ UNCHANGED <<data, exit_mtx, read_pid, should_exit, sleeping, tpc, pidd, tmp, sig,
                 wvars, svars, out>>

RExit(r) ==
  /\ mpc[r] = "exit"
  /\ Die(r)
  /\ UNCHANGED <<shm, wvars, svars, out>>

-----------------------------------------------------------------------------
(* main.read, read_body_thread.                                            *)

threadGoto(r, a, b) == tpc[r] = a /\ tpc' = [tpc EXCEPT ![r] = b]

TLock(r) ==
  /\ threadGoto(r, "check", "checking")
  /\ LockExit(r)
  /\ UNCHANGED <<mpc, pidd, tmp, sig, wvars, svars, out>>

TCheck(r) ==
  /\ threadGoto(r, "checking", IF check_exiit THEN "finish" ELSE "read")
  /\ UnlockExit
  /\ UNCHANGED <<mpc, pidd, tmp, sig, wvars, svars, out>>

\* ntt_read_shm up to the memcpy: sleeping is set when the region is empty, a
\* filled region is copied; frame_mtx stays taken.
TRead(r) ==
  /\ frame_mtx = NoPid
  /\ threadGoto(r, "read", IF data = <<>> THEN "empty" ELSE "copied")
  /\ frame_mtx' = r
  /\ read_pid' = IF pidd[r] THEN read_pid ELSE r
  /\ pidd' = [pidd EXCEPT ![r] = TRUE]
  /\ sleeping' = (sleeping \/ data = <<>>)
  /\ tmp' = [tmp EXCEPT ![r] = data]
  /\ UNCHANGED <<data, exit_mtx, should_exit, mpc, sig, wvars, svars, out>>

\* ntt_read_shm of an empty region: the unlock.
TEmpty(r) ==
  /\ threadGoto(r, "empty", "nap")
  /\ frame_mtx' = NoPid
  /\ UNCHANGED <<data, exit_mtx, read_pid, should_exit, sleeping, mpc, pidd, tmp, sig,
                 wvars, svars, out>>

\* ntt_read_shm from the memcpy to the unlock; the thread then frees the copy.
TReset(r) ==
  /\ threadGoto(r, "copied", "check")
  /\ data' = <<>>
  /\ sleeping' = FALSE
  /\ frame_mtx' = NoPid
  /\ out' = out \o tmp[r]
  /\ tmp' = [tmp EXCEPT ![r] = <<>>]
  /\ UNCHANGED <<exit_mtx, read_pid, should_exit, mpc, pidd, sig, wvars, svars>>

TSleep(r) ==
  /\ threadGoto(r, "nap", "asleep")
  /\ UNCHANGED <<shm, mpc, pidd, tmp, sig, wvars, svars, out>>

\* sleep(1) returns on its own, too.
Mutant_TWake(r) ==
  /\ sig[r] # "none"
  /\ threadGoto(r, "asleep", "check")
  /\ UNCHANGED <<shm, mpc, pidd, tmp, sig, wvars, svars, out>>

TWake(r) ==
  /\ threadGoto(r, "asleep", "check")
  /\ UNCHANGED <<shm, mpc, pidd, tmp, sig, wvars, svars, out>>

TFinish(r) ==
  /\ threadGoto(r, "finish", "done")
  /\ Sigqueue(r, "self")
  /\ UNCHANGED <<shm, mpc, pidd, tmp, wvars, svars, out>>

-----------------------------------------------------------------------------
(* main.write.                                                             *)

writerGoto(w, a, b) == wpc[w] = a /\ wpc' = [wpc EXCEPT ![w] = b]

\* The start of the process, and the end of its usleep: a new round.
WRound(w) ==
  /\ batches < MaxBatches
  /\ wpc[w] \in {"off", "usleep"}
  /\ wpc' = [wpc EXCEPT ![w] = "write"]
  /\ i' = [i EXCEPT ![w] = 0]
  /\ batches' = batches + 1
  /\ UNCHANGED <<shm, rvars, sendto, wrote, dropped, svars, out>>

\* The test of ntt_write_shm: no room for another item.
Full == ItemSz + used_data + Header >= Total

\* ntt_write_shm: a full region is emptied, read or not, before the item is
\* written.  sendsig and read_pid are reset before every call, so that those of
\* the last item of the batch count.
Mutant_WWrite(w) ==
  /\ wpc' = [wpc EXCEPT ![w] = IF i[w] + 1 < Batch THEN "write" ELSE "sigqueue"]
  /\ wpc[w] = "write"
  /\ i' = [i EXCEPT ![w] = @ + 1]
  /\ sendto' = [sendto EXCEPT ![w] = IF sleeping THEN read_pid ELSE NoPid]
  /\ wrote' = wrote + 1
  /\ data' = IF Full THEN <<wrote + 1>> ELSE Append(data, wrote + 1)
  /\ dropped' = IF Full THEN dropped \cup {data[k] : k \in DOMAIN data} ELSE dropped
  /\ UNCHANGED <<frame_mtx, exit_mtx, read_pid, should_exit, sleeping, rvars, batches,
                 svars, out>>

WWrite(w) ==
  /\ frame_mtx = NoPid
  /\ wpc[w] = "write"
  /\ wpc' = [wpc EXCEPT ![w] = IF i[w] + 1 < Batch THEN "write" ELSE "sigqueue"]
  /\ i' = [i EXCEPT ![w] = @ + 1]
  /\ sendto' = [sendto EXCEPT ![w] = IF sleeping THEN read_pid ELSE NoPid]
  /\ wrote' = wrote + 1
  /\ data' = IF Full THEN <<wrote + 1>> ELSE Append(data, wrote + 1)
  /\ dropped' = IF Full THEN dropped \cup {data[k] : k \in DOMAIN data} ELSE dropped
  /\ UNCHANGED <<frame_mtx, exit_mtx, read_pid, should_exit, sleeping, rvars, batches,
                 svars, out>>

WSig(w) ==
  /\ writerGoto(w, "sigqueue", "check")
  /\ Sigqueue(sendto[w], "other")
  /\ sendto' = [sendto EXCEPT ![w] = NoPid]
  /\ UNCHANGED <<shm, mpc, tpc, pidd, tmp, i, batches, wrote, dropped, svars, out>>

WCheck(w) ==
  /\ exit_mtx = NoPid
  /\ writerGoto(w, "check", IF check_exiit THEN "gone" ELSE "usleep")
  /\ UNCHANGED <<shm, rvars, i, sendto, batches, wrote, dropped, svars, out>>

-----------------------------------------------------------------------------
(* main.stop; z.start.sh and z.stop.sh run one after the other.            *)

StopSet(val) ==
  /\ spc = "idle" /\ stops < MaxStops
  /\ exit_mtx = NoPid
  /\ should_exit' = val
  /\ spc' = "get"
  /\ stops' = stops + 1
  /\ UNCHANGED <<data, frame_mtx, exit_mtx, read_pid, sleeping, rvars, wvars, spid, out>>

StopGet ==
  /\ spc = "get" /\ frame_mtx = NoPid
  /\ spid' = read_pid
  /\ spc' = IF read_pid = NoPid THEN "idle" ELSE "kill"
  /\ UNCHANGED <<shm, rvars, wvars, stops, out>>

StopKill ==
  /\ spc = "kill"
  /\ Sigqueue(spid, "other")
  /\ spc' = "idle"
  /\ spid' = NoPid
  /\ UNCHANGED <<shm, mpc, tpc, pidd, tmp, wvars, stops, out>>

-----------------------------------------------------------------------------

MainStep(r) ==
  \/ RReg(r) \/ RPause(r) \/ RLock(r) \/ RCheck(r)
  \/ RLinger(r) \/ RClear(r) \/ RCleared(r) \/ RExit(r)
ThreadStep(r) ==
  \/ TLock(r) \/ TCheck(r) \/ TRead(r) \/ TEmpty(r) \/ TReset(r)
  \/ TSleep(r) \/ TWake(r) \/ TFinish(r)
WriterStep(w) == WRound(w) \/ WWrite(w) \/ WSig(w) \/ WCheck(w)
StopStep == StopGet \/ StopKill

Next ==
  \/ \E r \in Readers : RStart(r) \/ Deliver(r) \/ MainStep(r) \/ ThreadStep(r)
  \/ \E w \in Writers : WriterStep(w)
  \/ \E val \in BOOLEAN : StopSet(val)
  \/ StopStep

Spec == Init /\ [][Next]_vars

\* Threads that can run do run, pending signals are delivered, sleep returns.
\* Starting a process and running main.stop is up to the user.
Fairness ==
  /\ \A r \in Readers : WF_vars(MainStep(r)) /\ WF_vars(ThreadStep(r)) /\ WF_vars(Deliver(r))
  /\ \A w \in Writers : WF_vars(wpc[w] # "off" /\ WriterStep(w))
  /\ WF_vars(StopStep)

FairSpec == Spec /\ Fairness

-----------------------------------------------------------------------------
(* Properties.                                                             *)

\* The state of the region and of the processes has its types.
TypeOK ==
  /\ data \in Seq(Nat) /\ out \in Seq(Nat) /\ dropped \subseteq Nat /\ wrote \in Nat
  /\ frame_mtx \in Readers \cup {NoPid} /\ exit_mtx \in Readers \cup {NoPid}
  /\ read_pid \in Readers \cup {NoPid}
  /\ should_exit \in BOOLEAN /\ sleeping \in BOOLEAN
  /\ mpc \in [Readers -> MainPCs] /\ tpc \in [Readers -> ThreadPCs]
  /\ pidd \in [Readers -> BOOLEAN] /\ tmp \in [Readers -> Seq(Nat)]
  /\ sig \in [Readers -> {"none", "self", "other"}]
  /\ wpc \in [Writers -> WriterPCs] /\ i \in [Writers -> Nat]
  /\ sendto \in [Writers -> Readers \cup {NoPid}]
  /\ spc \in {"idle", "get", "kill"} /\ spid \in Readers \cup {NoPid}
  /\ batches \in Nat /\ stops \in Nat

\* used_data stays inside the region: the memcpy of ntt_write_shm never writes
\* behind p->total, although the test before it allows the reset only.
InBounds == used_data + Header <= Total

\* The items before the ones in the region.
Before == 1 .. wrote - Len(data)

\* Every item is in the region, was read, or was overwritten, and in no two of
\* these: no reader, even next to another one that is on its way out, reads an
\* item twice, misses one that was not overwritten, or swaps two.
Ledger ==
  /\ Len(data) <= wrote
  /\ \A k \in 1 .. Len(data) : data[k] = wrote - Len(data) + k
  /\ \A k \in 1 .. Len(out) : out[k] \in Before
  /\ \A k, l \in 1 .. Len(out) : k < l => out[k] < out[l]
  /\ \A n \in Before : n \in dropped <=> \A k \in 1 .. Len(out) : out[k] # n
  /\ dropped \subseteq Before

\* One thread at a time is between the lock and the unlock of frame_mtx, and of
\* exit_mtx, unless its process ended there; the region is still what the read
\* thread copied when it is about to reset it.
LockOwner ==
  \A r \in Readers :
    /\ tpc[r] = "copied" => tmp[r] = data /\ data # <<>>
    /\ tpc[r] \in {"copied", "empty"} => frame_mtx = r /\ mpc[r] # "clearing"
    /\ mpc[r] = "clearing" => frame_mtx = r
    /\ frame_mtx = r => tpc[r] \in {"copied", "empty", "gone"} \/ mpc[r] = "clearing"
    /\ tpc[r] = "checking" => exit_mtx = r /\ mpc[r] # "checking"
    /\ mpc[r] = "checking" => exit_mtx = r
    /\ exit_mtx = r => tpc[r] \in {"checking", "gone"} \/ mpc[r] = "checking"

\* The threads of a process end with it, and start with it.
Lifetimes ==
  \A r \in Readers : /\ mpc[r] = "off" <=> tpc[r] = "off"
                     /\ mpc[r] = "gone" <=> tpc[r] = "gone"

IInv == TypeOK /\ InBounds /\ Ledger /\ LockOwner /\ Lifetimes

\* A process ended while one of its threads held frame_mtx or exit_mtx.
Orphaned == \E r \in Readers : tpc[r] = "gone" /\ r \in {frame_mtx, exit_mtx}

Reading ==
  \E r \in Readers : tpc[r] \in {"check", "checking", "read", "copied", "empty", "nap", "asleep"}

\* What is written while a read thread is at work does not stay in the region:
\* it is read or overwritten, whatever happens to the signal of the writer,
\* unless the last read thread stops, or a process dies with a lock.
ItemsMove ==
  \A n \in 1 .. Batch * MaxBatches :
    (wrote >= n /\ Reading) ~> (n \in Before \/ ~Reading \/ Orphaned)

\* main.stop 1 reaches every process: once should_exit stays set the read
\* threads and the writers end, even where the signal was lost, unless a process
\* died with frame_mtx or exit_mtx, on which the others then wait for ever.  A
\* main thread that has lost both signals, that of main.stop and that of its read
\* thread, between its test and pause stays in pause, but no other thread of
\* main.read does anything any more.  (A writer that used up MaxBatches stays in
\* its usleep.)
StopReaches ==
  <>[]should_exit =>
    <>[](\/ Orphaned
         \/ /\ \A r \in Readers : /\ tpc[r] \in {"off", "done", "gone"}
                                  /\ mpc[r] \in {"off", "pause", "gone"}
            /\ \A w \in Writers : \/ wpc[w] \in {"off", "gone"}
                                  \/ wpc[w] = "usleep" /\ batches = MaxBatches)
=============================================================================
