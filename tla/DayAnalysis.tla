---------------------------- MODULE DayAnalysis ----------------------------
(***************************************************************************)
(* One analysis of one day: the day program (cluster/A_00000x_day) starts  *)
(* an hour program for every hour directory without a result file, waits   *)
(* for all of them and combines the hours; the hour program does the same  *)
(* with the five-minute programs, which query a database.  lcs_analysis    *)
(* runs the day program, again for every job that includes the day.        *)
(*                                                                         *)
(* What a level knows of the one below is only whether its file exists.    *)
(* Of a file the model keeps which cells, five-minute directories, it      *)
(* counts completely, and how often.                                       *)
(***************************************************************************)
EXTENDS Integers, FiniteSets

CONSTANTS
  NHours, NUnits,   \* directories of a day and of an hour
  Db,               \* the cells that have a database
  Progs,            \* the pairs of a day and an hour program considered
  CreateFails,      \* whether pthread_create may fail
  Faults,           \* whether opening a file or a query may fail
  MaxRuns,          \* bound on the runs of the day program
  MaxCrashes        \* bound on the crashes of the machine

Hours == 1 .. NHours
Units == 1 .. NUnits
Cells == Hours \X Units

\* The shape of a program: how it starts those of the level below, and how it
\* combines their files.
Shape == [start: {"threads", "inline"}, combine: {"sum", "append", "merge"}]

ASSUME DayAssumption ==
  /\ NHours \in Nat /\ NUnits \in Nat /\ MaxRuns \in Nat /\ MaxCrashes \in Nat
  /\ Db \subseteq Cells
  /\ Progs \subseteq Shape \X Shape
  /\ CreateFails \in BOOLEAN /\ Faults \in BOOLEAN

-----------------------------------------------------------------------------
(* The programs.  "sum" adds up counters and rewrites the file, "append"   *)
(* copies the files of the level below behind each other, "merge" appends  *)
(* them and replaces the file by its merged rows.                          *)

A_000001_day == [start |-> "threads", combine |-> "sum"]
A_000002_day == [start |-> "threads", combine |-> "sum"]
A_000003_day == [start |-> "threads", combine |-> "sum"]
A_000004_day == [start |-> "threads", combine |-> "sum"]
A_000005_day == [start |-> "threads", combine |-> "merge"]
A_000006_day == [start |-> "inline", combine |-> "append"]
A_000007_day == [start |-> "threads", combine |-> "append"]
A_000008_day == [start |-> "threads", combine |-> "append"]
A_000009_day == [start |-> "threads", combine |-> "append"]

A_000001_hour == [start |-> "inline", combine |-> "sum"]
A_000002_hour == [start |-> "inline", combine |-> "sum"]
A_000003_hour == [start |-> "inline", combine |-> "sum"]
A_000004_hour == [start |-> "inline", combine |-> "sum"]
A_000005_hour == [start |-> "inline", combine |-> "merge"]
A_000006_hour == [start |-> "threads", combine |-> "append"]
A_000007_hour == [start |-> "inline", combine |-> "append"]
A_000008_hour == [start |-> "inline", combine |-> "append"]
A_000009_hour == [start |-> "inline", combine |-> "append"]

VARIABLES
  dayProg, hourProg,            \* which programs: their shapes
  unit, hour, day,              \* the files
  dpc, di, started, acc, derr,  \* main of the day program
  count,                        \* its lcs_count
  hpc, hi,                      \* the hour programs and the threads that run them
  hcount,                       \* their lcs_count_thread
  upc,                          \* the five-minute programs, likewise
  runs, crashes,
  \* ghosts: creations that failed in this run, whether anything has failed
  \* yet, and how often the day file has been filled since it was removed
  lost, hlost, faulty, rounds

progs == <<dayProg, hourProg>>
files == <<unit, hour, day>>
dayVars == <<dpc, di, started, acc, derr>>
hourVars == <<hpc, hi, hcount, hlost>>
vars == <<progs, files, dayVars, count, hourVars, upc, runs, crashes, lost,
          faulty, rounds>>

Zero == [c \in Cells |-> 0]
NoHour == [exists |-> FALSE, has |-> {}]

Init ==
  /\ \E p \in Progs : dayProg = p[1] /\ hourProg = p[2]
  /\ unit = [c \in Cells |-> "none"]
  /\ hour = [h \in Hours |-> NoHour]
  /\ day = Zero
  /\ dpc = "idle" /\ di = 1 /\ started = FALSE /\ acc = Zero /\ derr = FALSE
  /\ count = 0 /\ lost = 0
  /\ hpc = [h \in Hours |-> "off"] /\ hi = [h \in Hours |-> 1]
  /\ hcount = [h \in Hours |-> 0] /\ hlost = [h \in Hours |-> 0]
  /\ upc = [c \in Cells |-> "off"]
  /\ runs = 0 /\ crashes = 0 /\ faulty = FALSE /\ rounds = 0

-----------------------------------------------------------------------------
(* The day program.                                                        *)

\* lcs_ana_date of lcs_analysis: a new process with its own counters.
Run ==
  /\ dpc = "idle" /\ runs < MaxRuns
  /\ dpc' = "scan" /\ di' = 1 /\ started' = FALSE /\ acc' = Zero /\ derr' = FALSE
  /\ count' = 0 /\ lost' = 0 /\ runs' = runs + 1
  /\ UNCHANGED <<progs, files, hourVars, upc, crashes, faulty, rounds>>

Skip ==
  /\ dpc = "scan" /\ di \in Hours /\ hour[di].exists
  /\ di' = di + 1
  /\ UNCHANGED <<progs, files, dpc, started, acc, derr, count, hourVars, upc,
                 runs, crashes, lost, faulty, rounds>>

\* The thread is counted before it is created; the result is not tested.  A
\* thread whose lcs_dgen_config fails goes on to count itself out.
Counted == count + 1

StartThread ==
  /\ dpc = "scan" /\ di \in Hours /\ ~hour[di].exists /\ dayProg.start = "threads"
  /\ started' = TRUE /\ di' = di + 1 /\ count' = Counted
  /\ \/ /\ hpc' = [hpc EXCEPT ![di] = "scan"]
        /\ UNCHANGED <<lost, faulty>>
     \/ /\ Faults
        /\ hpc' = [hpc EXCEPT ![di] = "exit"]
        /\ lost' = lost /\ faulty' = TRUE
     \/ /\ CreateFails
        /\ lost' = lost + 1 /\ faulty' = TRUE
        /\ UNCHANGED hpc
  /\ hi' = [hi EXCEPT ![di] = 1]
  /\ hcount' = [hcount EXCEPT ![di] = 0] /\ hlost' = [hlost EXCEPT ![di] = 0]
  /\ UNCHANGED <<progs, files, dpc, acc, derr, upc, runs, crashes, rounds>>

\* Without threads err is one variable for all hours: once lcs_dgen_config has
\* failed, the hours after it are not started either.
StartInline ==
  /\ dpc = "scan" /\ di \in Hours /\ ~hour[di].exists /\ dayProg.start = "inline"
  /\ started' = TRUE
  /\ \/ /\ ~derr
        /\ hpc' = [hpc EXCEPT ![di] = "scan"] /\ dpc' = "run"
        /\ UNCHANGED <<di, derr, faulty>>
     \/ /\ Faults \/ derr
        /\ derr' = TRUE /\ faulty' = TRUE /\ di' = di + 1
        /\ UNCHANGED <<hpc, dpc>>
  /\ hi' = [hi EXCEPT ![di] = 1]
  /\ hcount' = [hcount EXCEPT ![di] = 0] /\ hlost' = [hlost EXCEPT ![di] = 0]
  /\ UNCHANGED <<progs, files, acc, count, upc, runs, crashes, lost, rounds>>

Inline ==
  /\ dpc = "run" /\ hpc[di] = "off"
  /\ dpc' = "scan" /\ di' = di + 1
  /\ UNCHANGED <<progs, files, started, acc, derr, count, hourVars, upc, runs,
                 crashes, lost, faulty, rounds>>

\* Only a run that started an hour removes the file of the day.
Mutant_Remove ==
  /\ dpc = "scan" /\ di \notin Hours
  /\ dpc' = "wait"
  /\ UNCHANGED <<progs, files, di, started, acc, derr, count, hourVars, upc,
                 runs, crashes, lost, faulty>>
  /\ rounds' = IF started THEN 0 ELSE rounds

Remove ==
  /\ dpc = "scan" /\ di \notin Hours
  /\ day' = IF started THEN Zero ELSE day
  /\ rounds' = IF started THEN 0 ELSE rounds
  /\ dpc' = "wait"
  /\ UNCHANGED <<progs, unit, hour, di, started, acc, derr, count, hourVars,
                 upc, runs, crashes, lost, faulty>>

Wait ==
  /\ dpc = "wait" /\ count = 0
  /\ dpc' = "collect" /\ di' = 1
  /\ rounds' = IF dayProg.combine = "sum" THEN 1 ELSE rounds + 1
  /\ UNCHANGED <<progs, files, started, acc, derr, count, hourVars, upc, runs,
                 crashes, lost, faulty>>

\* lcs_hcollect_sum: into the counters, or with cat behind the day's file.
Plus(f) ==
  [c \in Cells |-> f[c] + IF c[1] = di /\ c[2] \in hour[di].has THEN 1 ELSE 0]

Collect ==
  /\ dpc = "collect" /\ di \in Hours
  /\ IF dayProg.combine = "sum"
       THEN acc' = Plus(acc) /\ day' = day
       ELSE day' = Plus(day) /\ acc' = acc
  /\ di' = di + 1
  /\ UNCHANGED <<progs, unit, hour, dpc, started, derr, count, hourVars, upc,
                 runs, crashes, lost, faulty, rounds>>

\* fopen with "w+" empties the file before the sums or the merged rows are
\* written; a file without rows is not merged.
Reopen ==
  /\ dpc = "collect" /\ di \notin Hours
  /\ \/ /\ dayProg.combine = "append" \/ (dayProg.combine = "merge" /\ day = Zero)
        /\ dpc' = "idle" /\ UNCHANGED <<day, acc, faulty>>
     \/ /\ dayProg.combine = "sum" \/ (dayProg.combine = "merge" /\ day # Zero)
        /\ dpc' = "write" /\ day' = Zero /\ faulty' = faulty
        /\ acc' = IF dayProg.combine = "sum" THEN acc ELSE day
     \/ /\ dayProg.combine # "append" /\ Faults
        /\ dpc' = "idle" /\ faulty' = TRUE /\ UNCHANGED <<day, acc>>
  /\ UNCHANGED <<progs, unit, hour, di, started, derr, count, hourVars, upc,
                 runs, crashes, lost, rounds>>

Write ==
  /\ dpc = "write"
  /\ day' = acc /\ dpc' = "idle"
  /\ UNCHANGED <<progs, unit, hour, di, started, acc, derr, count, hourVars,
                 upc, runs, crashes, lost, faulty, rounds>>

-----------------------------------------------------------------------------
(* The hour program of h, in its thread.                                   *)

\* A thread counts itself out at the end; a program that main waits for ends.
HourEnd == IF dayProg.start = "threads" THEN "exit" ELSE "off"
UnitEnd == IF hourProg.start = "threads" THEN "exit" ELSE "off"

Mutant_Done(h) == {u \in 1 .. NUnits - 1 : unit[<<h, u>>] = "full"}
Done(h) == {u \in Units : unit[<<h, u>>] = "full"}

HourSkip(h) ==
  /\ hpc[h] = "scan" /\ hi[h] \in Units /\ unit[<<h, hi[h]>>] # "none"
  /\ hi' = [hi EXCEPT ![h] = @ + 1]
  /\ UNCHANGED <<progs, files, dayVars, count, hpc, hcount, hlost, upc, runs,
                 crashes, lost, faulty, rounds>>

\* When the configuration cannot be written the five-minute program is run all
\* the same, and finds no database.
HourStart(h) ==
  LET c == <<h, hi[h]>> IN
  /\ hpc[h] = "scan" /\ hi[h] \in Units /\ unit[c] = "none"
  /\ \/ upc' = [upc EXCEPT ![c] = "open"] /\ UNCHANGED <<hlost, faulty>>
     \/ /\ Faults
        /\ upc' = [upc EXCEPT ![c] = UnitEnd] /\ hlost' = hlost /\ faulty' = TRUE
     \/ /\ CreateFails /\ hourProg.start = "threads"
        /\ hlost' = [hlost EXCEPT ![h] = @ + 1] /\ faulty' = TRUE
        /\ UNCHANGED upc
  /\ IF hourProg.start = "threads"
       THEN /\ hcount' = [hcount EXCEPT ![h] = @ + 1]
            /\ hi' = [hi EXCEPT ![h] = @ + 1] /\ UNCHANGED hpc
       ELSE hpc' = [hpc EXCEPT ![h] = "run"] /\ UNCHANGED <<hcount, hi>>
  /\ UNCHANGED <<progs, files, dayVars, count, runs, crashes, lost, rounds>>

HourInline(h) ==
  /\ hpc[h] = "run" /\ upc[<<h, hi[h]>>] = "off"
  /\ hpc' = [hpc EXCEPT ![h] = "scan"] /\ hi' = [hi EXCEPT ![h] = @ + 1]
  /\ UNCHANGED <<progs, files, dayVars, count, hcount, hlost, upc, runs,
                 crashes, lost, faulty, rounds>>

Mutant_HourOpen(h) ==
  /\ hpc[h] = "scan" /\ hi[h] \notin Units
  /\ \/ /\ hour' = [hour EXCEPT ![h] = [exists |-> TRUE, has |-> {}]]
        /\ hpc' = [hpc EXCEPT ![h] = "copy"] /\ faulty' = faulty
     \/ /\ Faults
        /\ hpc' = [hpc EXCEPT ![h] = HourEnd] /\ faulty' = TRUE
        /\ UNCHANGED hour
  /\ hi' = [hi EXCEPT ![h] = 1]
  /\ UNCHANGED <<progs, unit, day, dayVars, count, hcount, hlost, upc, runs,
                 crashes, lost, rounds>>

\* The hour's file is made only when every five-minute program has ended.
HourOpen(h) ==
  /\ hpc[h] = "scan" /\ hi[h] \notin Units /\ hcount[h] = 0
  /\ \/ /\ hour' = [hour EXCEPT ![h] = [exists |-> TRUE, has |-> {}]]
        /\ hpc' = [hpc EXCEPT ![h] = "copy"] /\ faulty' = faulty
     \/ /\ Faults
        /\ hpc' = [hpc EXCEPT ![h] = HourEnd] /\ faulty' = TRUE
        /\ UNCHANGED hour
  /\ hi' = [hi EXCEPT ![h] = 1]
  /\ UNCHANGED <<progs, unit, day, dayVars, count, hcount, hlost, upc, runs,
                 crashes, lost, rounds>>

\* Sums are written at once, texts one after another; merged rows replace the
\* texts, and without rows no file is left.  Some rows of an incomplete file
\* may be among them.
HourCopy(h) ==
  /\ hpc[h] = "copy" /\ hi[h] \in Units
  /\ IF hourProg.combine = "sum"
       THEN /\ hour' = [hour EXCEPT ![h].has = Done(h)]
            /\ hi' = [hi EXCEPT ![h] = NUnits + 1]
       ELSE /\ hour' = [hour EXCEPT ![h].has = @ \cup ({hi[h]} \cap Done(h))]
            /\ hi' = [hi EXCEPT ![h] = @ + 1]
  /\ UNCHANGED <<progs, unit, day, dayVars, count, hpc, hcount, hlost, upc,
                 runs, crashes, lost, faulty, rounds>>

\* A file of five minutes may be complete without a row; an hour of such files
\* only is merged into nothing, and A_000005_hour leaves it out.
HourClose(h) ==
  /\ hpc[h] = "copy" /\ hi[h] \notin Units
  /\ \/ /\ hourProg.combine # "merge"
        /\ hpc' = [hpc EXCEPT ![h] = HourEnd] /\ UNCHANGED hour
     \/ /\ hourProg.combine = "merge"
        /\ hour' = [hour EXCEPT ![h] = NoHour]
        /\ \/ /\ \A u \in Units : unit[<<h, u>>] # "full"
              /\ hpc' = [hpc EXCEPT ![h] = HourEnd]
           \/ /\ \E u \in Units : unit[<<h, u>>] # "none"
              /\ hpc' = [hpc EXCEPT ![h] = "merge"]
  /\ UNCHANGED <<progs, unit, day, dayVars, count, hi, hcount, hlost, upc,
                 runs, crashes, lost, faulty, rounds>>

HourMerge(h) ==
  /\ \/ /\ hpc[h] = "merge"
        /\ hour' = [hour EXCEPT ![h] = [exists |-> TRUE, has |-> {}]]
        /\ hpc' = [hpc EXCEPT ![h] = "rows"]
     \/ /\ hpc[h] = "rows"
        /\ hour' = [hour EXCEPT ![h].has = Done(h)]
        /\ hpc' = [hpc EXCEPT ![h] = HourEnd]
  /\ UNCHANGED <<progs, unit, day, dayVars, count, hi, hcount, hlost, upc,
                 runs, crashes, lost, faulty, rounds>>

\* A thread that returns before lcs_decrease_count when its program failed.
Mutant_HourExit(h) ==
  /\ hpc[h] = "exit"
  /\ hpc' = [hpc EXCEPT ![h] = "off"]
  /\ count' = IF hour[h].exists THEN count - 1 ELSE count
  /\ UNCHANGED <<progs, files, dayVars, hi, hcount, hlost, upc, runs, crashes,
                 lost, faulty, rounds>>

\* lcs_decrease_count at the end of the thread.
HourExit(h) ==
  /\ hpc[h] = "exit"
  /\ hpc' = [hpc EXCEPT ![h] = "off"] /\ count' = count - 1
  /\ UNCHANGED <<progs, files, dayVars, hi, hcount, hlost, upc, runs, crashes,
                 lost, faulty, rounds>>

-----------------------------------------------------------------------------
(* The five-minute program of a cell.                                      *)

\* The file is opened, and so exists, before the query is read or run.
UnitOpen(c) ==
  /\ upc[c] = "open"
  /\ \/ /\ c \in Db
        /\ unit' = [unit EXCEPT ![c] = "part"]
        /\ upc' = [upc EXCEPT ![c] = "sql"] /\ faulty' = faulty
     \/ /\ c \notin Db
        /\ upc' = [upc EXCEPT ![c] = UnitEnd] /\ UNCHANGED <<unit, faulty>>
     \/ /\ c \in Db /\ Faults
        /\ upc' = [upc EXCEPT ![c] = UnitEnd] /\ faulty' = TRUE /\ UNCHANGED unit
  /\ UNCHANGED <<progs, hour, day, dayVars, count, hourVars, runs, crashes,
                 lost, rounds>>

UnitQuery(c) ==
  /\ upc[c] = "sql"
  /\ upc' = [upc EXCEPT ![c] = UnitEnd]
  /\ \/ unit' = [unit EXCEPT ![c] = "full"] /\ faulty' = faulty
     \/ Faults /\ faulty' = TRUE /\ UNCHANGED unit
  /\ UNCHANGED <<progs, hour, day, dayVars, count, hourVars, runs, crashes,
                 lost, rounds>>

UnitExit(c) ==
  /\ upc[c] = "exit"
  /\ upc' = [upc EXCEPT ![c] = "off"]
  /\ hcount' = [hcount EXCEPT ![c[1]] = @ - 1]
  /\ UNCHANGED <<progs, files, dayVars, count, hpc, hi, hlost, runs, crashes,
                 lost, faulty, rounds>>

-----------------------------------------------------------------------------
\* The machine goes down: all programs are gone, the files stay.
Crash ==
  /\ dpc # "idle" /\ crashes < MaxCrashes
  /\ crashes' = crashes + 1 /\ faulty' = TRUE
  /\ dpc' = "idle" /\ count' = 0 /\ lost' = 0
  /\ hpc' = [h \in Hours |-> "off"] /\ upc' = [c \in Cells |-> "off"]
  /\ UNCHANGED <<progs, files, di, started, acc, derr, hi, hcount, hlost, runs,
                 rounds>>

DayStep ==
  \/ Skip \/ StartThread \/ StartInline \/ Inline \/ Remove \/ Wait
  \/ Collect \/ Reopen \/ Write
HourStep(h) ==
  \/ HourSkip(h) \/ HourStart(h) \/ HourInline(h) \/ HourOpen(h) \/ HourCopy(h)
  \/ HourClose(h) \/ HourMerge(h) \/ HourExit(h)
UnitStep(c) == UnitOpen(c) \/ UnitQuery(c) \/ UnitExit(c)

Next ==
  \/ Run \/ DayStep \/ Crash
  \/ \E h \in Hours : HourStep(h)
  \/ \E c \in Cells : UnitStep(c)

Spec == Init /\ [][Next]_vars

\* Programs and threads that run are scheduled, sleep returns.
FairSpec ==
  /\ Spec
  /\ WF_vars(DayStep)
  /\ \A h \in Hours : WF_vars(HourStep(h))
  /\ \A c \in Cells : WF_vars(UnitStep(c))

-----------------------------------------------------------------------------
(* Properties.                                                             *)

\* The files, the counters and the positions have their types.
TypeOK ==
  /\ dayProg \in Shape /\ hourProg \in Shape
  /\ unit \in [Cells -> {"none", "part", "full"}]
  /\ hour \in [Hours -> [exists: BOOLEAN, has: SUBSET Units]]
  /\ day \in [Cells -> Nat] /\ acc \in [Cells -> Nat]
  /\ dpc \in {"idle", "scan", "run", "wait", "collect", "write"}
  /\ di \in 1 .. NHours + 1
  /\ started \in BOOLEAN /\ derr \in BOOLEAN
  /\ count \in Nat /\ lost \in Nat
  /\ hpc \in [Hours -> {"off", "scan", "run", "copy", "merge", "rows", "exit"}]
  /\ hi \in [Hours -> 1 .. NUnits + 1]
  /\ hcount \in [Hours -> Nat] /\ hlost \in [Hours -> Nat]
  /\ upc \in [Cells -> {"off", "open", "sql", "exit"}]
  /\ runs \in 0 .. MaxRuns /\ crashes \in 0 .. MaxCrashes
  /\ faulty \in BOOLEAN /\ rounds \in Nat

Live == {h \in Hours : hpc[h] # "off"}
LiveUnits(h) == {u \in Units : upc[<<h, u>>] # "off"}

\* The counters say how many threads there are, and those that failed to start
\* are never taken off them.
CountsRight ==
  /\ dayProg.start = "threads" => count = Cardinality(Live) + lost
  /\ hourProg.start = "threads" =>
       \A h \in Hours : hpc[h] # "off" =>
         hcount[h] = Cardinality(LiveUnits(h)) + hlost[h]

\* What is read is finished: the day combines the hours only when no program of
\* the day is running, an hour its five minutes likewise.
Barrier ==
  /\ dpc \in {"collect", "write", "idle"} => Live = {}
  /\ \A h \in Hours : hpc[h] \notin {"scan", "run"} => LiveUnits(h) = {}

\* Whatever fails or crashes and however often the day is run, a cell is in the
\* day's file at most once for each time the file was filled since a run removed
\* it.  A rerun of an appending analysis fills it again.
NoOvercount == \A c \in Cells : day[c] <= rounds

\* As long as nothing has failed, a finished run has counted every cell that
\* has a database once, or once more than the run before when the day's file
\* was kept.
Complete ==
  dpc = "idle" /\ runs > 0 /\ ~faulty =>
    \A c \in Cells : day[c] = IF c \in Db THEN rounds ELSE 0

\* A result that is complete is kept by every later run, and the file of an
\* hour is changed by no other program than the one that made it.
Kept ==
  [][ /\ \A c \in Cells : unit[c] = "full" => unit'[c] = "full"
      /\ \A h \in Hours :
           hour[h].exists /\ hpc[h] \in {"off", "scan", "run"} => hour'[h] = hour[h] ]_vars

\* A run of the day ends, unless a thread could not be created: its count is
\* then never taken off, and main waits for ever.
Ends ==
  dpc = "scan" ~> \/ dpc = "idle" \/ lost > 0
                  \/ \E h \in Hours : hpc[h] # "off" /\ hlost[h] > 0
=============================================================================
