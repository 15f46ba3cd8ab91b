# Verification of the notification system, the shared-memory queue and the call-data cluster

TLA+ models of the concurrent programs of this repository, TLC configurations that
check them on small instances, and proofs checked by TLAPS. `PROJECT.json` ties
every definition to the lines it models.

## 1. The system

The repository collects several programs. Those with processes, threads or files that
several programs share are the subject of this project.

**Notification system** (`notify.system/`). A device (`client.c`) and a notifier
(`notifier.c`) talk UDP to a server (`server.c`, `msg_notify.c`). Both tell the
server where they are (tracking message, port 7771) and ask for the AES key (port
7770); the notifier then sends notifications, which the server forwards to the
device, and the device's confirmations go back the same way.

| part | state | operations | hard behaviour |
|---|---|---|---|
| server, receiving thread S1 | forward list `imd_fwd_lt` | decode, queue an item, signal S2 | shares the list with S2 |
| server, sending thread S2 | `g_runnow`, table `list_reg_dev` with addresses | track, sleep, take the list, send item by item | signal before `usleep`; a break abandons the rest of a batch; stale pointer `t` |
| device | `got_aes`, key | track, ask for the key, confirm | zeroed datagrams, lost and repeated messages |
| notifier | `got_aes`, `count` | the same, notify, give up | key after the last round |

Correct means: every accepted item is sent once, to the destination it names, or
dropped for a reason; the key leaves only under the receiver's public key; a
confirmation means the device has read a notification; lost messages and a
restarted server delay but do not stop a device.

**Shared-memory queue** (`common/shared_data.c`, `shared_data/main.read.c`,
`main.write.c`, `main.stop.c`). Writers append items to a region, a reader thread
copies all of it out and sleeps while it is empty, `main.stop` ends the group.
State: `used_data`, `read_pid`, `should_exit`, `sleeping`, two process-shared mutexes.
Hard: SIGALRM is the only wake-up and can be lost, a full region is overwritten,
readers overlap, `main` can leave while its thread holds either mutex.
Correct means: no write outside the region, every item read once and in order or
overwritten, a stop reaches everyone.

**Cluster manager** (`cluster/manager/manager.c`). For one day after another, main
starts a thread per server with data of that day; a thread downloads the day,
creates shared-memory regions, runs the analysis and removes the regions. State:
the dates, `currentdate` in each server's info (read by threads, overwritten by
main), `lcs_count_thread`, the command file. Hard: the counter is the only barrier,
it is raised after the thread was created, and `pthread_create` is not tested.
Correct means: a thread never sees its date change, days do not overlap, each
server gets each of its days once, no region is left behind, the loop ends.

**The programs the manager runs** (`cluster/`), and what they leave for each other:

| part | state | operations | hard behaviour |
|---|---|---|---|
| downloader `cluster/main.c` | window, temporary tables, files, one connection slot | copy a day window by window from MySQL into files and SQLite | a pointer to a dead local as connection, error codes that are overwritten, tables of a killed run |
| analysis `A_00000x_day`, `_hour`, `_05m` | result files, thread counters | a program per level starts those below, waits by counter, combines | a file is taken as complete because it exists; crashes, reruns, threads that are not created |
| sorting and merging `lcs_common.c`, `quicksort/` | array, segments | partition, sort, add up rows of one hour | equal keys, full queues of segments |
| agent table `shmcreate`, `A_000007_05m` | two shared-memory regions, hash buckets | make, fill, look up, remove | readers that create, or outlive their analysis, regions of a killed run, a listing with room for 61 names, full buckets, numbers that do not fit |
| warehouse server `whserver`, client `odbc` | a child per connection, counters of the client | key, READY, request, size, segments, end | one `recv` taken for one packet, no end after a full segment, either side gone while the other receives |

Correct means: the windows of a day have no gap and no overlap, and what is saved is in
the right directory; a result counts each cell once and is read only when it is
finished; a sort loses nothing and sorts; a lookup finds who was entered; a transfer
that is reported as a success has the file.

**Growing list** (`notify.system/gen_list.c`): a block that `realloc` moves, under a mutex,
with a pointer that is read before the mutex is held and a size that a get keeps in an int.
No program calls it yet.

The other parts are listed in `PROJECT.json` and in section 8.

## 2. Modules

| module | models | role |
|---|---|---|
| `Forwarder` | what the server promises | abstract specification |
| `NotifyServer` | `server.c`, forwarding half of `msg_notify.c` | implements `Forwarder` |
| `NotifySystem` | `client.c`, `notifier.c`, server from outside, UDP | composition |
| `SharedData` | `common/shared_data.c` and its three programs | component |
| `RegionCreation` | `init_service` of `common/shared_data.c` next to early users | says when `SharedData` applies |
| `Manager` | `cluster/manager/manager.c` | component |
| `Downloader` | `cluster/cluster/main.c` | component |
| `DayAnalysis` | the day, hour and five-minute programs of one analysis | composition of three levels |
| `SegmentSort` | `lcs_quick_sort(_ext)`, `cluster/quicksort/main.c`, `quicksort/quicksort.c` | algorithm |
| `Merge005` | `lcs_hcollect005_sum`, `lcs_merge005_list` | extends `SegmentSort` |
| `AgentTable` | `cluster/shmcreate`, lookup in `A_000007_05m`, removal in the manager | component |
| `Transfer` | `cluster/whserver`, `cluster/odbc`, `lcs_3des_send`, `lcs_3des_recv` | composition of server and client |
| `GenList` | `notify.system/gen_list.c` | component |
| `*_proofs` | | theorems |
| `MC*` with `.cfg` | | instances for TLC |

`NotifyServer`: one action per step of each thread between two points where the
other can act (`S1Recv`, `S1Kill`; `S2RecvNone`, `S2Sleep`, `S2Wake`, `S2Bump`,
`S2Recv`, `S2Take`, `S2Send`, `S2Break`, `S2Done`) and `Restart`. `t` and `sn` are
the variables of `send_to_dst` that survive from one item to the next; lengths are
real (1184 + 17 = 1201 bytes), as one limit is hit exactly. `uid`, `batch`, `sent`
and `lost` record history. A datagram whose RSA decryption fails is
handled as the bytes it has, as in the code. A request for the key may have any length: the
server appends the key without a look at the room that is left (`server.c:378-380`,
`396-398`), and a long request overruns its buffer. The item goes on with its length, or
the process ends and starts again (`Restart`); other harm of the overrun is left out.

`NotifySystem`: the network is a set from which a datagram can vanish, be delivered
out of turn, or be delivered and stay. A datagram is its receiver, its kind and what
it is encrypted with. `Install` puts a public key file where the server reads it:
before that, the server sends a zeroed buffer. The server's list is a set that is
sent in any order, which includes every order `NotifyServer` allows. The programs are the
ones of this repository: the only message on a key route is `MSG_GET_AES`, although the
server would append the key to any other and send that in plain.

`SharedData`: there are two mutexes, `frame_mtx` over the items and `exit_mtx` over the flag.
A critical section of the read thread is several steps (lock, test, unlock; in
`ntt_read_shm` the copy and the reset, too), so that the process can end in
between and leave the mutex locked; a critical section that nothing can end in the middle is
one step, taken when the mutex is free.
Delivery of SIGALRM is an action; it does nothing to a thread that is not in `pause`
or `sleep`. `data`, `out`, `dropped` and `wrote` number the items.

`Manager`: dates are integers in the order `strcmp` gives the strings; `Empty` is the
date of a server that was not reached, `Null` the text `(null)` of an empty table.
Threads are records that take the steps of `lcs_thread_spec_date` one at a time.

`RegionCreation`: every access of a critical section is a step, so that the creator's
`memset` and `pthread_mutex_init` come between them. Zeroed memory is an unlocked mutex.

`Downloader`: rows are records with the time that selects them; a table is its rows, or
absent. `lcs_init_param` keeps the address of a local variable: the `slot` is what all
four tables then use as connection, and other frames may overwrite it (`Garbage`).
`hidden` marks a failure whose code the program drops.

`DayAnalysis`: the ten analyses are shapes of two programs (how a level starts the one
below, how it combines), chosen from `Progs` at the start; one model stands for all. Of a file the
model keeps which cells it counts, and how often. A five-minute program that is killed
leaves a partial file, which the next run takes for complete. `Crash` ends all programs.

`SegmentSort`: each comparison and exchange of `partition` is a step; the drivers differ
in the order in which they take segments. `Merge005` sorts with it and then adds up. The
recursive driver called for no element, as for an empty directory (`lcs_common.c:330`, the
`A_*` programs), compares with `data[-1]`: it returns, or the program dies (`"dead"`).

`AgentTable`: the two regions are made in the five steps of the program, any of which may
be its last. Buckets, the index of the writer and that of the reader are those of the
code; a text that is no number leaves the writer's index 0 and the reader's -1, and a number
that is negative or too large may have a negative index. `lcs_man_shm_unlink` lists the
directory once (`lcs_comm_list_files`) and removes the names in the list one after the
other. The list has room for 62 pointers, `Names`, one of which ends it; with more files in
`/dev/shm`, which four regions for each of sixteen servers are, it is written behind its end
(`ListOverrun`). When the program of the day or of an hour is killed, `lcs_bash_cmd` returns and
the five-minute programs run on: `LateLoad` is one that opens the regions, and makes them,
at whatever moment. The table of dials (`shmcreate_audd`) takes the same steps; its ids are
unsigned and have no negative index.

`Transfer`: the connection is a sequence of bytes, each the offset in a packet; sizes are
powers of two as in `lcs_3des_send`. `recv` returns all there is up to its buffer, or any
part of it; `cut` records that it has once ended inside a packet. Both sides may fail or
leave at every step, the client after the key and before its request, too. Blocks that are
not complete decrypt to garbage; garbage at
the beginning may be any mode, but is assumed not to be a data packet whose random length, or
a size whose digits, make the counters agree.

`GenList`: growth is the loop's result; `realloc` moves the block or not; the pointer of a
get is read in a step before it. A get converts `used_data` to an int (`AsInt`): the list is
copied, or its first part is while all is cleared, or nothing is, or the size is negative
and the process ends.

## 3. Runs

| run | instance | shows |
|---|---|---|
| `server` | 4 ids (two registered in one bucket, one unregistered in that bucket, one in an empty bucket), 3 items of 4 kinds, one a request for the key that leaves no room for it | `ExactlyOnce`, `LossExplained`, refinement of `Forwarder`, `EventuallySettled` |
| `system_together` | device and notifier, keys installed at any time | `KeyPath`, `NoFalseConfirm` |
| `system_alone` | the device, or a notifier whose device is not registered; one restart of the server | `GetsKey`, `Retracked`, `NotifierEnds` |
| `shared` | 1 reader, 2 writers with 2 batches of 2, room for 3 items, 1 call of `main.stop` | `Ledger`, `ItemsMove`, `StopReaches` |
| `region_creation` | 3 processes, room for 2 items, 5 accesses | `SafeCopy`, `StaysSettled`, `InitialisedOnce` |
| `manager` | 5 servers: three with overlapping days, one with an empty table, one not reached; one failing `pthread_create`, a command at any time | `DayStable`, `ShmOwned`, `AllDays`, `Finishes`, `Obeyed` |
| `download` | a day of one window and a day of two, each fresh or after a killed run, 2 faults | `Coverage`, `RightDir`, `SuccessComplete`, `Terminates` |
| `day` | 2 hours of 2 cells, 3 runs, one crash, all failures, the nine analyses | `Barrier`, `NoOvercount`, `Complete`, `Ends` |
| `sort_merge` | every array of 4 rows of 3 hours with 1 or 2 calls, sorted by each driver; after the recursive one the rows are merged | `Settled`, `QueueFits`, `Merged`, `MergeEnds` |
| `agent_table` | tables of up to 3 of 6 agents, one number too large, one negative, one text no number; 2 slots, 2 runs, one death, with or without room for the listing | `LookupRight`, `DeadOnlyIf`, `Healed` |
| `transfer` | 7 sizes around the segment and the counter, any failure of either side, any cut of packets | `Verdict`, `ClientEnds`, `Reaped` |
| `gen_list` | 4 adds of refused, small and large items, 2 takers, an int that counts to 7 | `Fits`, `Complete` |

The runs check what the proofs do not reach, and of what is proved the properties that say
most. Types and the invariants that the others rest on (`IInv`, `CountsRight`, `Barrier` of
the manager, `Partitioned`, `Disjoint`, ...) are theorems, section 5.

Why the bounds are enough. Three items give a batch with something before and after
the item that breaks it, and two batches in a row; the four ids give every outcome of
the table lookup, with and without a hit earlier in the batch. A region of three items is
empty, partly filled by a batch of two and overwritten by the next. Two readers that overlap are
not in an instance, but in the theorems on `Ledger` and `InBounds`, which hold for any set
of readers. Three servers with shifted days contain a day on which a server has nothing, a
first and a last day.
Three processes are a creator, one let in too early and one let in after it. Two windows are
the first and the one that repeats it; the last call lies on a window's first second. Two
hours of two cells, one without a database, have a complete, a partial and a missing file in
one directory, and three runs a crash, a rerun over what it left and a rerun over a result.
Four elements with
equal keys give parts that are empty, single and nested. Three agents overfill a bucket of
two slots; one file of another program takes the room of the listing. The sizes of a file are 0, short, a full segment, one and a half, two full, and one
that the counter cannot hold. Four adds make a block grow twice, hold again after a get, and reach a list that an int does
not count and one that an unsigned int does not. The sort of nothing has 8 states and no run of
its own; it is in the theorems.
`MaxNet` stops the timers of `system_together` while more than two datagrams are under
way (each round adds two or more); in `system_alone` it is never reached. What holds in
these instances for safety is proved for all others where section 5 says so.

Where programs come in variants, the variant is a variable chosen at the start and never
changed, so that one run has them all: `scene` (who is started and registered), `day` of
`Downloader` (rows and what a killed run left), `style` (the driver of a sort), `dayProg`
and `hourProg` (the shapes of an analysis).

Deadlock is checked where the program never stops by itself (server, device). Readers,
writers, notifier and manager end, so their configurations switch it off.

## 4. Fairness

- `NotifyServer`: weak fairness of `S1Kill` and of the sending thread's loop: both are
  straight-line code of running threads, and `usleep` ends. Nothing is assumed about
  datagrams.
- `NotifySystem`: weak fairness of both timers, of the server sending queued keys,
  and of the installation of keys; strong fairness of the delivery of
  each kind of message that is sent again and again. The last is an
  assumption about the network: without it no UDP program gets anything.
- `SharedData`: weak fairness of each thread of a started process, of signal delivery
  and of a call of `main.stop` under way. Starting processes is not fair: nobody
  has to start a reader.
- `Manager`: weak fairness of main and of each thread. The programs a thread runs are
  taken to end. `SignalledSpec` adds an operator who signals again as long as main waits;
  one signal can be lost between `lcs_get_status` and `pause`.
- `Downloader`, `SegmentSort`, `Merge005`: weak fairness of the only thread.
- `DayAnalysis`: weak fairness of the day program, of each hour and of each five-minute
  program, which are processes of their own. Runs and crashes are not fair. `Ends` leaves out
  the runs in which a thread could not be created.
- `Transfer`: weak fairness of the child, of the client and of the waiting thread. Failures
  and departures are not fair. `ClientEnds` leaves out the client whose server is gone before
  READY (`Starved`), `Reaped` the child whose client is gone before its request
  (`Abandoned`): each receives nothing for ever.

## 5. Theorems

All are proved for every value of the constants that satisfies the assumption of the
module: sets are subsets and sizes are naturals (all of them); an item fits in the region
(`SharedDataAssumption`, `RegionAssumption`); a server's first day is not after its last
(`ManagerAssumption`); the rows of a day lie in it (`DownloaderAssumption`); a number is an
integer (`TableAssumption`); the header of the list is smaller than a
step of its growth and the size of an item an int (`GenListAssumption`); a disk block is a power of two and fits with the
header in the smallest segment (`TransferAssumption`); counters are naturals
(`MergeAssumption`). Every invariant and every safety action property of every run is the
statement of a theorem. A module of proofs may serve two components, whose `Init`, `Next` and
`Spec` then have names of their own (`TableSpec`, `ListSpec`, `TransferSpec`).

- `NotifyServer_proofs`. The properties are not inductive: that an item is sent once
  says nothing of where the others are. `IInv` numbers the items: the shared list holds
  the newest without a gap, `hi` holds `batch + 1 .. batch + Len(hi)`, and everything
  else is settled, on its side of these two ranges; and `t` is null between items. From
  it follow `TypeCorrect`, `ExactlyOnceHolds`, `NoMisdeliveryHolds`, `SendOrderHolds`,
  `LossExplainedHolds`. `NoIdleSleepHolds` rests on `WakeInv`: a list that was signalled
  for keeps `g_runnow` from being 0 until it is taken. `Refinement` maps the two lists to
  `waiting`; a send must remove one item and no other, for which items are distinct by
  number.
- `NotifySystem_proofs`. `NoFalseConfirmHolds` and `KeyPathHolds`: both properties range
  over network, queue and programs, and are inductive as they stand. For the growing list,
  `ItemsFit` and `ItemsComplete` from `GInv`: the used bytes of the block are the sum of the
  sizes of its items and leave room for the header, a taker's pointer is never newer than the
  block, and, until a block that was moved away has been used or a list was cut by the
  conversion to int, what was taken followed by what lies in the block is what was added.
  `AsIntKeeps` says which sizes the conversion keeps: a get that loses items had a block larger
  than an unsigned int counts.
- `SharedData_proofs`. `LedgerHolds` and `InBoundsHolds` from `IInv`, which adds
  `LockOwner` (between copy and reset the region is still what was copied, as only the
  owner of the lock is there) and `Lifetimes`.
- `Manager_proofs`. `DayStableHolds` and `BarrierHolds` from `IInv`, whose core is
  `Counted`: the counter is the number of threads and failures, less the thread started
  and not counted yet, so it can be 0 while a thread runs but not where main tests it.
  `ShmOwnedHolds` and `EachDayOnceHolds` build on it. `AllDaysHolds` also needs that the
  latest of the last days exists (`LastDay`): the least upper bound of a set of naturals,
  whose existence follows from the well-foundedness of the naturals.
- `RegionCreation_proofs`. `IInv` says that one process creates and none once the region is
  ready (`OneCreator`), and that a process alone behind a locked mutex still has the room it
  tested for (`TestedRoom`): others come in by locking and leave by unlocking, so nobody
  else has written. From it `SafeCopyHolds`, `InitialisedOnceHolds`, `StaysSettledHolds`.
  For the agent table, `LookupRightHolds`, `DeadOnlyIfHolds` and `HealedHolds`: while the
  regions are being filled (`MakingInv`) the rows entered so far are the first `i` of the
  query's result, each in its bucket as long as that has slots; in regions of this run filled
  to the end, a lookup finds exactly the agents that got a slot (`FoundInv`). Once the
  directory is listed, a region is in the rest of the list, or a late program has made it since
  and it has no byte (`SweepInv`): with the list used up this is `Healed`.
- `Downloader_proofs`. `CoverageHolds`: the windows are aligned, and all from the first to the
  current one have been backed up, so that at the end every call has one. `RightDirHolds` and
  `SuccessCompleteHolds` come from `DInv`: as long as no error was overwritten the tables are
  whole and the ids those of the window of the directory; the first round copies the calls
  of that window, and the insert of a second round meets them again and closes the
  connection, so that a day that ends well lies in one window. For the transfer,
  `VerdictHolds` from `TInv`: the stream holds bytes of the packets in order up to the end of the last one,
  the size comes before the segments, what is written reaches at most up to the place of each
  segment still to come and has no gap if it reaches it, and the client's count is the length
  of its file modulo the range of an unsigned int.
- `SegmentSort_proofs`. The length may be 0, for which the reachable states are few (`EInv`);
  for the others, `Partitioned` is the loop invariant of `partition`. `Settled` (two
  elements in no common segment are in order) with `Disjoint` is what a sort keeps; with no
  segment left it is `Sorted`. `PermutationHolds` composes the exchanges. `QueueFitsHolds`
  counts neighbours that a segment still holds together: `partition` separates at least one
  pair each time, and every waiting segment has one of its own. `MergedHolds`, for the merging
  of sorted rows, has as its invariant that the rows written are the groups before `m` with
  their sums, and `acc` the sum of the current group before `l`; lemmas say that a sum grows
  with its interval and is the same for a permutation.
- `DayAnalysis_proofs`. The counter of a level is exact (`CountsRightHolds`) only together
  with where each program can be (`Places`) and that none is alive outside of its parent's
  wait; `BarrierHolds` is its consequence. `NoOvercountHolds` adds that a sum being made
  counts no cell twice (`Sums`), `KeptHolds` that a cell in work has no full file (`Fresh`),
  and `CompleteHolds` that, as long as nothing has failed, a five-minute program that was asked
  for has its file or is at work on it, a finished hour has the cells of its databases and
  the day what it has collected (`UnitsDone`, `HoursDone`, `DayDone`).

Where a statement needs induction over data, it is made by the smallest counterexample: a
set of naturals that is not empty has a least element (`WFMin`, `NatLessThanWellFounded`),
and the step before it holds.

Only model-checked: the liveness properties (`EventuallySettled`, `GetsKey`, `Retracked`,
`NotifierEnds`, `ItemsMove`, `StopReaches`, `Finishes`, `Obeyed`, `Terminates`, `Ends`,
`MergeEnds`, `ClientEnds`, `Reaped`). They need fairness and `ENABLED`, which the prover does
not handle.

## 6. What the properties say about the code

Where the code does less than one might expect, the properties say how far it goes. Each
exception in them is a behaviour of the code, reached in the run.

- A stop can be missed by one thread. `main.read` tests `should_exit` only after `pause`
  returns; if both SIGALRMs of a stop, from `main.stop` and from its own ending read thread,
  come before main calls `pause`, nothing wakes it again, and the process stays without a
  read thread. `StopReaches` says that nothing else is left: the threads that read and
  write end, unless a `main.read` has ended while its read thread held `frame_mtx` or, in
  `check_exiit`, `exit_mtx`. Neither mutex is robust, and all others, `main.stop` too, then wait
  for ever (`Orphaned`).
- The region has a name before it has a mutex. A process that opens it in between is let in
  by the zeros and unlocked by the initialisation, and is then inside together with a
  later one. `z.start.sh` runs `main.stop` to its end first and so avoids it. `StaysSettled` says
  that once the region is as it should be it stays so, `SafeCopy` that items are then
  copied inside of it.
- A day of several windows is never downloaded with success: `lcs_init_circle` is called once
  and not per window, so that the second window inserts the ids of the first again and the
  shared connection is lost (`SuccessComplete`).
- `lcs_create_subdir` overwrites the error code of the steps before it, and `EXIT_SUCCESS`
  can be printed with nothing saved: this is the exception `hidden` in `SuccessComplete`.
- The client of a transfer counts the length a packet announces, not what `recv` returned: a
  cut last packet is written with garbage and reported as a success, which `Verdict` leaves out
  with `~cut`. A missing file is transferred with success, as an empty one.
- `lcs_3des_recv` tries again after a `recv` of 0. A client that is gone between READY and its
  request leaves its child there for ever, and one that waits for READY of a server that is
  gone stays there, too. `Reaped` and `ClientEnds` say that these are the only places.
- The manager removes the regions that its one listing has. A five-minute program that outlived
  its analysis can make a region again after that, without a byte, which the next run takes
  for the table: `Healed` says that nothing else is left, and no table ever.
- A list of `gen_list.c` of 2^31 bytes or more ends the process in a get, one of more than 2^32
  bytes loses what is above (`Complete`).

An item for an unregistered destination drops the items queued
before it in the same batch (`LossExplained`). Items of one batch leave in reverse
order (`SendOrder`). A full region drops what is unread (`Ledger`). A failed
`pthread_create` blocks the manager, and a day program, for ever (`Finishes` and `Ends`
exclude it). A file left by a
five-minute program that failed or was killed is taken for complete by every later run
(`Complete` excludes it), and a rerun of an appending analysis with nothing new appends the
hours of the day again (`NoOvercount` counts the rounds). Agents beyond the slots of their
bucket are stored and never found, numbers that are negative or too large for an int are
written outside of the table, and the regions of a killed run are used by the next:
`LookupRight` and `DeadOnlyIf` are about the tables that were filled undisturbed, and say how
far these dangers reach, not that they do not occur.

## 7. Mutants

Each property of each run has a mutated definition, `Mutant_...` next to the
original, that makes the run fail: a push at the wrong end, a pointer that is not reset, a
test with `=` instead of `>`, a dropped guard. They are no part of the specifications.

## 8. Not modelled

- The lock variants of the shared region that the Makefile does not choose, and the wake-ups
  that a private mutex may lose between processes before it is initialised.
- Ciphers (OpenSSL), formatting, logging. Which key was used, whether a tag verifies and how
  long a message is are modelled.
- Registration (`load_reg_list`) ends before the second thread starts: a constant.
- Configuration files and database access of the manager: the dates are constants.
- The queries of the five-minute programs, and the database utilities (`getagent`,
  `gethistory`, `insert_sqlite` but for its lists, `moving`, `gentemplate`): straight-line
  copies whose content is SQL.
- `quick_sort_non_recursive` of `quicksort/quicksort.c`, which nobody calls.
- `arr_2_uint*` and `uint*_2_arr`: loops over bytes without a state; lengths and tags, which
  they carry, are modelled where they decide something.
- What memory behind the end of a buffer does when it is overwritten (a long request for the
  key, a full listing): the program goes on or ends.
- The `int` through which the quicksort programs exchange `long int`s: what they sort fits.
- `lcs_clear_history` keeps rows of another day than that of the window, of which there are none
  before midnight; an hour file that `A_000005_hour` does not make because its five-minute files
  are complete without a row counts as one without cells.
- Clock adjustments, and failures of `malloc` or of sockets, on which the programs
  exit or log.
- Third-party and sample code. Four fifths of the C in the repository are the sources of
  *UNIX Network Programming* (`W.R.Stevens`), the log module of Open vSwitch, OpenCV and driver
  samples, and notes on the language. They are not this program, and no definition models
  them; the programs of the repository itself are about a fifth of its lines.

## 9. Plan

Done, in the order of importance: server and its refinement, shared-memory queue and its
creation, manager, protocol, downloader, sorting and merging, day analysis, agent table,
warehouse transfer, growing list. What could follow:

1. `AgentTable` and `DayAnalysis` composed with `Manager`: the thread of a day as the caller
   of the programs it runs, with regions and result files as shared state.
2. `NotifySystem` shown to implement a specification of notification and confirmation;
   the set-valued queue as a consequence of `Forwarder`.
3. The list functions of `lcs_common.c` with the memory they free, should they get a second
   caller.
