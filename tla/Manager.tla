------------------------------ MODULE Manager ------------------------------
(***************************************************************************)
(* The day loop of cluster/manager/manager.c.  For one day after the other *)
(* main starts a thread per server that has data of that day and waits     *)
(* until the thread counter is back at 0.  A thread works with the date in *)
(* its server's info, which main overwrites for the next day: the counter  *)
(* is the only barrier between the two.                                    *)
(*                                                                         *)
(* Dates are integers in the order strcmp gives their strings: Empty is    *)
(* the empty string of a server that could not be asked, Null the text     *)
(* "(null)" sprintf makes of the dates of an empty cdr table, and the days *)
(* from 1 on are real.  The day after Null is 1: strptime fails on it and  *)
(* leaves a zeroed tm, the end of 1899.                                    *)
(*                                                                         *)
(* The programs a thread runs have no effect here but that of the shared   *)
(* memory regions two of them create.  Their exit codes are not looked at  *)
(* (lcs_bash_cmd never sets err), so a thread takes all its steps always.  *)
(***************************************************************************)
EXTENDS Integers, Sequences, FiniteSets

CONSTANTS
  N,         \* list->n, the number of servers
  Start,     \* MIN(calldate) of each server
  Last,      \* MAX(calldate) of each server
  MaxFails   \* bound: calls of pthread_create that fail

Empty == -1
Null  == 0
Servers == 1 .. N
HasDates == {s \in Servers : Start[s] # Empty}

ASSUME ManagerAssumption ==
  /\ N \in Nat /\ MaxFails \in Nat
  /\ Start \in [Servers -> Int] /\ Last \in [Servers -> Int]
  /\ \A s \in Servers : \/ Start[s] = Empty /\ Last[s] = Empty
                        \/ Start[s] = Null /\ Last[s] = Null
                        \/ 1 <= Start[s] /\ Start[s] <= Last[s]

VARIABLES
  startdate,    \* list->startdate
  lastdate,     \* list->lastdate
  currentdate,  \* list->currentdate
  pc,           \* main thread
  i,            \* its index in the list of servers
  lcs_count_thread,
  info,         \* currentdate of each server's info
  threads,      \* the running threads: [srv, day they were started for, step]
  shm,          \* the shared memory regions: <<server, date of their key>>
  exited,       \* LCS_APP_EXITED
  cmd,          \* the command file: "none" or "LCS_EXIT"
  fails,        \* pthread_create calls that failed
  ran           \* ghost: the days each server's info was set to, in order

mainvars == <<startdate, lastdate, currentdate, i>>
vars == <<mainvars, pc, lcs_count_thread, info, threads, shm, exited, cmd, fails, ran>>

PCs   == {"next", "spawn", "inc", "wait", "status", "pause", "hdl_cmd", "exit"}
Steps == {"history", "mysql", "shmcreate", "analysis", "unlink", "dec"}
Thread == [srv: Servers, day: Int, step: Steps]

\* lcs_init_server_info: the first and the last date of all servers, both empty
\* when no server has dates.
Lowest(S)  == CHOOSE d \in S : \A e \in S : d <= e
Highest(S) == CHOOSE d \in S : \A e \in S : d >= e
initStart == IF HasDates = {} THEN Empty ELSE Lowest({Start[s] : s \in HasDates})
initLast  == IF HasDates = {} THEN Empty ELSE Highest({Last[s] : s \in HasDates})

Init ==
  /\ startdate = initStart
  /\ lastdate = initLast
  /\ currentdate = Empty
  /\ pc = "next"
  /\ i = 1
  /\ lcs_count_thread = 0
  /\ info = [s \in Servers |-> Empty]
  /\ threads = {}
  /\ shm = {}
  /\ exited = FALSE
  /\ cmd = "none"
  /\ fails = 0
  /\ ran = [s \in Servers |-> <<>>]

-----------------------------------------------------------------------------
(* The day loop, lcs_start_bdata.                                          *)

\* lcs_next_day: the tests that set iscomplete, and the date of the next day.
Mutant_iscomplete == currentdate + 1 >= lastdate
iscomplete == \/ startdate = Empty
              \/ lastdate = Empty
              \/ currentdate # Empty /\ currentdate >= lastdate

lcs_next_day ==
  /\ pc = "next"
  /\ IF iscomplete
       THEN pc' = "status" /\ UNCHANGED mainvars
       ELSE /\ pc' = "spawn"
            /\ currentdate' = IF currentdate = Empty THEN startdate ELSE currentdate + 1
            /\ i' = 1
            /\ UNCHANGED <<startdate, lastdate>>
  /\ UNCHANGED <<lcs_count_thread, info, threads, shm, exited, cmd, fails, ran>>

InRange(s) == Start[s] <= currentdate /\ currentdate <= Last[s]

Skip ==
  /\ pc = "spawn"
  /\ IF i > N THEN pc' = "wait" /\ i' = i
              ELSE ~InRange(i) /\ i' = i + 1 /\ pc' = pc
  /\ UNCHANGED <<startdate, lastdate, currentdate, lcs_count_thread, info, threads, shm,
                 exited, cmd, fails, ran>>

\* pthread_create, whose result is not tested: the counter goes up even when
\* there is no thread.
Spawn ==
  /\ pc = "spawn" /\ i <= N /\ InRange(i)
  /\ info' = [info EXCEPT ![i] = currentdate]
  /\ ran' = [ran EXCEPT ![i] = Append(@, currentdate)]
  /\ \/ /\ threads' = threads \cup {[srv |-> i, day |-> currentdate, step |-> "history"]}
        /\ fails' = fails
     \/ /\ fails < MaxFails
        /\ fails' = fails + 1
        /\ threads' = threads
  /\ pc' = "inc"
  /\ UNCHANGED <<mainvars, lcs_count_thread, shm, exited, cmd>>

\* The thread may be done, and the counter -1, before main counts it.
lcs_increase_count ==
  /\ pc = "inc"
  /\ lcs_count_thread' = lcs_count_thread + 1
  /\ i' = i + 1
  /\ pc' = "spawn"
  /\ UNCHANGED <<startdate, lastdate, currentdate, info, threads, shm, exited, cmd, fails, ran>>

\* The end of the wait; with another count main sleeps and looks again.
Mutant_Wait ==
  /\ pc = "wait" /\ lcs_count_thread <= 1
  /\ pc' = "next"
  /\ UNCHANGED <<mainvars, lcs_count_thread, info, threads, shm, exited, cmd, fails, ran>>

Wait ==
  /\ pc = "wait" /\ lcs_count_thread = 0
  /\ pc' = "next"
  /\ UNCHANGED <<mainvars, lcs_count_thread, info, threads, shm, exited, cmd, fails, ran>>

-----------------------------------------------------------------------------
(* lcs_thread_spec_date.                                                   *)

Then == [history |-> "mysql", mysql |-> "shmcreate", shmcreate |-> "analysis",
         analysis |-> "unlink", unlink |-> "dec"]

Step(t) == threads' = (threads \ {t}) \cup {[t EXCEPT !.step = Then[t.step]]}

\* The downloads and the analysis.
Work(t) ==
  /\ t.step \in {"history", "mysql", "analysis"}
  /\ Step(t)
  /\ UNCHANGED <<mainvars, pc, lcs_count_thread, info, shm, exited, cmd, fails, ran>>

\* lcs_manager_shm: the key holds the date the info has now.
lcs_manager_shm(t) ==
  /\ t.step = "shmcreate"
  /\ Step(t)
  /\ shm' = shm \cup {<<t.srv, info[t.srv]>>}
  /\ UNCHANGED <<mainvars, pc, lcs_count_thread, info, exited, cmd, fails, ran>>

Mutant_unlink(t) ==
  /\ t.step = "unlink"
  /\ Step(t)
  /\ shm' = shm \ {<<t.srv, currentdate + 1>>}
  /\ UNCHANGED <<mainvars, pc, lcs_count_thread, info, exited, cmd, fails, ran>>

lcs_man_shm_unlink(t) ==
  /\ t.step = "unlink"
  /\ Step(t)
  /\ shm' = shm \ {<<t.srv, info[t.srv]>>}
  /\ UNCHANGED <<mainvars, pc, lcs_count_thread, info, exited, cmd, fails, ran>>

\* The count goes down however the thread came here.
Mutant_decrease(t) ==
  /\ t.step \in {"dec", "mysql"}
  /\ lcs_count_thread' = IF t.step = "dec" THEN lcs_count_thread - 1 ELSE lcs_count_thread
  /\ threads' = threads \ {t}
  /\ UNCHANGED <<mainvars, pc, info, shm, exited, cmd, fails, ran>>

lcs_decrease_count(t) ==
  /\ t.step = "dec"
  /\ lcs_count_thread' = lcs_count_thread - 1
  /\ threads' = threads \ {t}
  /\ UNCHANGED <<mainvars, pc, info, shm, exited, cmd, fails, ran>>

lcs_thread_spec_date(t) ==
  Work(t) \/ lcs_manager_shm(t) \/ lcs_man_shm_unlink(t) \/ lcs_decrease_count(t)

-----------------------------------------------------------------------------
(* main after the last day, and its operator.                              *)

CheckStatus ==
  /\ pc = "status"
  /\ pc' = IF exited THEN "exit" ELSE "pause"
  /\ UNCHANGED <<mainvars, lcs_count_thread, info, threads, shm, exited, cmd, fails, ran>>

Mutant_lcs_hdl_cmd ==
  /\ pc = "hdl_cmd"
  /\ pc' = "pause"
  /\ exited' = (exited \/ cmd = "LCS_EXIT")
  /\ UNCHANGED <<mainvars, lcs_count_thread, info, threads, shm, cmd, fails, ran>>

lcs_hdl_cmd ==
  /\ pc = "hdl_cmd"
  /\ exited' = (exited \/ cmd = "LCS_EXIT")
  /\ pc' = "status"
  /\ UNCHANGED <<mainvars, lcs_count_thread, info, threads, shm, cmd, fails, ran>>

\* The operator writes the command file, and sends SIGALRM, which only a pause
\* notices: its handler is empty.
WriteCmd ==
  /\ cmd = "none" /\ cmd' = "LCS_EXIT"
  /\ UNCHANGED <<mainvars, pc, lcs_count_thread, info, threads, shm, exited, fails, ran>>

lcs_hdl_signal ==
  /\ pc = "pause" /\ pc' = "hdl_cmd"
  /\ UNCHANGED <<mainvars, lcs_count_thread, info, threads, shm, exited, cmd, fails, ran>>

MainStep == lcs_next_day \/ Skip \/ Spawn \/ lcs_increase_count \/ Wait
            \/ CheckStatus \/ lcs_hdl_cmd

Next ==
  \/ MainStep
  \/ \E t \in threads : lcs_thread_spec_date(t)
  \/ WriteCmd
  \/ lcs_hdl_signal

Spec == Init /\ [][Next]_vars

\* Main and the threads keep running; the programs a thread starts end.
ThreadOf(s) == \E t \in threads : t.srv = s /\ lcs_thread_spec_date(t)
FairSpec == Spec /\ WF_vars(MainStep) /\ \A s \in Servers : WF_vars(ThreadOf(s))

\* An operator who signals again as long as main waits.
SignalledSpec == FairSpec /\ WF_vars(lcs_hdl_signal)

-----------------------------------------------------------------------------
(* Properties.                                                             *)

\* The state of the manager has its types; the counter is an int that may be
\* negative for a moment.
TypeOK ==
  /\ startdate = initStart /\ lastdate = initLast /\ currentdate \in Int
  /\ pc \in PCs /\ i \in 1 .. N + 1 /\ (pc = "inc" => i <= N)
  /\ lcs_count_thread \in Int /\ fails \in Nat
  /\ info \in [Servers -> Int]
  /\ threads \subseteq Thread /\ IsFiniteSet(threads)
  /\ shm \subseteq Servers \X Int
  /\ exited \in BOOLEAN /\ cmd \in {"none", "LCS_EXIT"}
  /\ ran \in [Servers -> Seq(Int)]

\* A thread never sees its date change: the info it reads at every one of its
\* steps holds the day it was started for, until it has taken its last one.
DayStable ==
  \A t \in threads : info[t.srv] = t.day /\ t.day = currentdate

\* When main turns to the next day no thread of the day before runs, even one
\* that was started and ended before it was counted.
Barrier == pc \in {"next", "status", "pause", "hdl_cmd", "exit"} => threads = {}

\* The counter counts the threads that run and the failures, less the thread
\* that main has started and not counted yet.
Counted ==
  lcs_count_thread + (IF pc = "inc" THEN 1 ELSE 0) = Cardinality(threads) + fails

\* No server has two threads, and only servers main came by today have one.
OnePerServer ==
  /\ \A t, u \in threads : t.srv = u.srv => t = u
  /\ \A t \in threads : t.srv < i \/ (pc = "inc" /\ t.srv = i)

IInv == TypeOK /\ DayStable /\ Barrier /\ Counted /\ OnePerServer

\* The regions of a day are gone when the day is over.
Beyond(t) == t.step \in {"analysis", "unlink"}
ShmOwned ==
  \A x \in shm : \E t \in threads : Beyond(t) /\ x = <<t.srv, t.day>>

\* The days of server s up to u, and the day up to which main has come by s.
Given(s, u) ==
  LET last == IF u < Last[s] THEN u ELSE Last[s]
  IN IF s \notin HasDates \/ last < Start[s] THEN 0 ELSE last - Start[s] + 1

Upto(s) == IF pc \in {"spawn", "inc"} /\ (s > i \/ (s = i /\ pc = "spawn"))
           THEN currentdate - 1 ELSE currentdate

\* Every server is given each of its days once and in order, from its own first
\* to its own last, although all servers share one current date that starts at
\* the earliest of their days, or at Null.
EachDayOnce ==
  \A s \in Servers :
    /\ Len(ran[s]) = IF currentdate = Empty THEN 0 ELSE Given(s, Upto(s))
    /\ \A k \in 1 .. Len(ran[s]) : ran[s][k] = Start[s] + k - 1

\* The last day is as complete as the others.
AllDays ==
  pc \in {"status", "pause", "hdl_cmd", "exit"} =>
    \A s \in HasDates : Len(ran[s]) = Last[s] - Start[s] + 1

\* The loop ends, with all its days done, unless a thread could not be created.
Finishes == <>(pc = "pause" \/ fails > 0)

\* A command that was written, at whatever moment, ends the manager when the
\* operator signals until it does: a signal that comes before pause, or between
\* lcs_get_status and pause, is lost, but the command is not.
Obeyed == cmd = "LCS_EXIT" ~> (pc = "exit" \/ fails > 0)
=============================================================================
