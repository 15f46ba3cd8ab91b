----------------------------- MODULE Downloader -----------------------------
(***************************************************************************)
(* cluster/cluster/main.c (lcs_getfrommysql): one run of the program that  *)
(* copies a day of calls from MySQL into files, window by window.          *)
(*                                                                         *)
(* Times are integers, in the unit of Step.  A row is [id, linkedid,       *)
(* time]; the rows of a day's wrap-up history have no call and are         *)
(* selected by their time alone.  A table of the database is <<rows>>, or  *)
(* <<>> when it does not exist.                                            *)
(*                                                                         *)
(* lcs_init_param keeps the address of its own local variable as the       *)
(* connection.  Its four calls leave four dead variables in one place of   *)
(* the stack, the slot: all tables use the last connection, and any frame  *)
(* in between may have left Garbage there.                                 *)
(***************************************************************************)
EXTENDS Integers, Sequences

CONSTANTS
  Step,       \* step of the configuration
  Lag,        \* the 4800 seconds of lcs_try_query
  Midnight,   \* the last second of the day
  Days,       \* the days: the rows of each table, the tables an interrupted run left
  Garbage,    \* what the slot may turn into: a subset of {"null", "wild"}
  MaxFaults   \* bound: statements, connections and files that fail

Calls  == <<"cdr", "queue_log", "monitor_recording">>
Tables == Append(Calls, "wrapup")
Temps  == <<"linkedid_tmp", "cdr_tmp", "queue_tmp", "monitor_tmp">>
TempOf == [cdr |-> "cdr_tmp", queue_log |-> "queue_tmp", monitor_recording |-> "monitor_tmp"]
Copies == {Tables[k] : k \in 1 .. 4}
Names  == Copies \cup {Temps[k] : k \in 1 .. 4}
Absent == <<>>

ASSUME DownloaderAssumption ==
  /\ Step \in Nat \ {0} /\ Lag \in Nat /\ MaxFaults \in Nat
  /\ Garbage \subseteq {"null", "wild"}
  /\ Midnight \in Nat
  /\ \A d \in Days :
       /\ DOMAIN d.rows = Copies /\ DOMAIN d.left = Names
       /\ \A t \in Copies : {r.time : r \in d.rows[t]} \subseteq 0 .. Midnight

VARIABLES
  day,          \* the day to download
  pc, i,        \* main thread, and its place in the list of tables
  low, hi,      \* the window
  known,        \* inittime and endtime were read
  db,           \* the tables made for this day
  slot,         \* what every p->con points to: "conn", "null" or "wild"
  current_dir,  \* the time in the name of the directory
  files,        \* the .data files in it
  saved,        \* the rows of lcs.db in it, with their table
  err,          \* err of main is not 0
  exited,       \* LCS_APP_EXITED
  result,       \* how the process ended
  faults,
  hidden,       \* ghost: a failure whose error code was dropped
  windows       \* ghost: the windows that were backed up

data == <<day, low, hi, known, current_dir, windows>>
vars == <<day, pc, i, low, hi, known, db, slot, current_dir, files, saved, err, exited,
          result, faults, hidden, windows>>

Rows == day.rows
Times(t) == {r.time : r \in Rows[t]}

PCs == {"init", "structure", "init_tmp", "data_tables", "param", "circle", "history",
        "outtime", "backup", "end", "close", "status", "pause", "clear", "return", "exit"}

Init ==
  /\ day \in Days
  /\ pc = "init" /\ i = 1
  /\ low = 0 /\ hi = 0 /\ known = FALSE
  /\ db \in {[n \in Names |-> Absent], [n \in Names |-> <<day.left[n]>>]}
  /\ slot = "null"
  /\ current_dir = -1 /\ files = [t \in Copies |-> Absent] /\ saved = {}
  /\ err = FALSE /\ exited = FALSE /\ result = "none"
  /\ faults = 0 /\ hidden = FALSE /\ windows = {}

Fault == faults < MaxFaults /\ faults' = faults + 1
Sound == faults' = faults
Killed == result' = "killed" /\ pc' = "exit"

-----------------------------------------------------------------------------
(* The start.                                                              *)

inittime == CHOOSE x \in Times("cdr") : \A y \in Times("cdr") : x <= y
endtime  == CHOOSE x \in Times("cdr") : \A y \in Times("cdr") : x >= y

\* The window of inittime; errors stay in a local variable.
lcs_get_range(t) == [low |-> t - (t % Step), hi |-> t + Step - (t % Step)]

lcs_init_app ==
  /\ pc = "init"
  /\ \/ /\ Sound /\ hidden' = hidden
        /\ known' = (Rows["cdr"] # {})
     \/ /\ Fault /\ hidden' = TRUE
        /\ known' = FALSE
  /\ IF known'
       THEN /\ low' = lcs_get_range(inittime).low
            /\ hi' = lcs_get_range(inittime).hi
            /\ pc' = "structure"
       ELSE UNCHANGED <<low, hi>> /\ pc' = "clear"
  /\ UNCHANGED <<day, i, db, slot, current_dir, files, saved, err, exited, result, windows>>

\* A list of n statements on a connection of its own: skipped when there is an
\* error already, stopped by the first statement that fails.  A refused
\* connection is no error for lcs_try_connect, and mysql_query on it the end.
Batch(here, next, n, after) ==
  /\ pc = here
  /\ \/ err /\ pc' = next /\ Sound /\ UNCHANGED <<db, err, result, hidden>>
     \/ ~err /\ Fault /\ Killed /\ UNCHANGED <<db, err, hidden>>
     \/ \E k \in 0 .. n :
          /\ ~err
          /\ IF k = n THEN Sound /\ hidden' = hidden ELSE Fault /\ hidden' = TRUE
          /\ err' = (k < n)
          /\ db' = after[k]
          /\ pc' = next /\ result' = result
  /\ UNCHANGED <<i, data, slot, files, saved, exited>>

\* The tables of a list after k statements, `per` for each table: drop it,
\* create it, copy the day's rows into it.
Scripted(list, per, k) ==
  [t \in Names |->
     IF \A p \in 1 .. Len(list) : list[p] # t THEN db[t]
     ELSE LET p == CHOOSE q \in 1 .. Len(list) : list[q] = t
              s == k - per * (p - 1)
              done == IF s < per THEN s ELSE per
          IN CASE done <= 0 -> db[t]
               [] done = 1 -> Absent
               [] done = 2 -> <<{}>>
               [] done = 3 -> <<Rows[t]>>]

lcs_gen_structure   == Batch("structure", "init_tmp", 3, [k \in 0 .. 3 |-> db])
lcs_init_tmp        == Batch("init_tmp", "data_tables", 8, [k \in 0 .. 8 |-> Scripted(Temps, 2, k)])
lcs_gen_data_tables == Batch("data_tables", "param", 12, [k \in 0 .. 12 |-> Scripted(Tables, 3, k)])

lcs_init_param ==
  /\ pc = "param" /\ pc' = "circle"
  /\ \/ Sound /\ slot' = "conn"
     \/ Fault /\ slot' = "null"
  /\ UNCHANGED <<i, data, db, files, saved, err, exited, result, hidden>>

\* Reading p->con: what is there, or what a frame has left since.  A value that
\* is no connection may be overwritten too; it kills the program either way.
Read == {slot} \cup (IF slot = "conn" THEN Garbage ELSE {})

-----------------------------------------------------------------------------
(* lcs_init_circle, once, before the windows.                              *)

\* lcs_clear_tmp_table and the insert of lcs_gen_linkedid: eight statements,
\* each with the tables it needs.
Needs(k) == CASE k \in 1 .. 3 -> {Calls[k], Temps[k + 1]}
              [] k \in 4 .. 7 -> {Temps[k - 3]}
              [] OTHER -> {"cdr", "linkedid_tmp"}

Minus(t, k) == IF k = 0 THEN db[t] ELSE <<db[t][1] \ db[TempOf[t]][1]>>

Mutant_Linked(cdr) == {r.linkedid : r \in {x \in cdr : low <= x.time /\ x.time <= hi}}
Linked(cdr) == {r.linkedid : r \in {x \in cdr : low <= x.time /\ x.time < hi}}

Cleared(k) ==
  [t \in Names |->
     IF t \in {Calls[p] : p \in 1 .. 3}
       THEN LET p == CHOOSE q \in 1 .. 3 : Calls[q] = t
            IN Minus(t, IF k >= p THEN 1 ELSE 0)
     ELSE IF t = "linkedid_tmp" /\ k = 8 THEN <<Linked(Minus("cdr", 1)[1])>>
     ELSE IF t # "wrapup" /\ k >= 3 + (CHOOSE q \in 1 .. 4 : Temps[q] = t) THEN <<{}>>
     ELSE db[t]]

\* The error of lcs_gen_linkedid is overwritten by that of lcs_create_subdir,
\* and with it the errors of all steps before.
lcs_init_circle ==
  /\ pc = "circle"
  /\ \E con \in Read :
       /\ slot' = con
       /\ IF con = "wild"
            THEN Killed /\ Sound /\ UNCHANGED <<db, err, hidden, current_dir, windows>>
            ELSE /\ \/ con = "null" /\ Sound /\ hidden' = TRUE /\ db' = db
                    \/ /\ con = "conn"
                       /\ \E k \in 0 .. 8 :
                            /\ \A q \in 1 .. k : \A t \in Needs(q) : db[t] # Absent
                            /\ IF k = 8 THEN Sound /\ hidden' = hidden
                               ELSE /\ hidden' = TRUE
                                    /\ \/ Sound /\ \E t \in Needs(k + 1) : db[t] = Absent
                                       \/ Fault
                            /\ db' = Cleared(k)
                 /\ current_dir' = low
                 /\ err' = FALSE
                 /\ pc' = "history" /\ UNCHANGED <<result, windows>>
  /\ UNCHANGED <<day, i, low, hi, known, files, saved, exited>>

-----------------------------------------------------------------------------
(* One round of the loop of lcs_start_bdata.                               *)

\* The statement also wants rows of the day of start_time, which all are until
\* midnight.
lcs_clear_history ==
  /\ pc = "history"
  /\ \E con \in Read :
       /\ slot' = con
       /\ \/ con # "conn" /\ Killed /\ Sound /\ UNCHANGED <<db, err>>
          \/ /\ con = "conn" /\ pc' = "outtime" /\ result' = result
             /\ \/ Sound /\ db["wrapup"] # Absent /\ err' = FALSE
                   /\ db' = [db EXCEPT !["wrapup"][1] = {r \in @ : r.time >= low}]
                \/ Sound /\ db["wrapup"] = Absent /\ err' = TRUE /\ db' = db
                \/ Fault /\ err' = TRUE /\ db' = db
  /\ UNCHANGED <<i, data, files, saved, exited, hidden>>

Mutant_outtime == low >= endtime
outtime == low > endtime

Mutant_get_outtime ==
  /\ pc = "outtime"
  /\ pc' = IF outtime THEN "close" ELSE "backup"
  /\ i' = 1
  /\ windows' = IF outtime THEN windows ELSE windows \cup {low}
  /\ UNCHANGED <<day, low, hi, known, db, slot, current_dir, files, saved, err, exited, result,
                 faults, hidden>>

lcs_get_outtime ==
  /\ pc = "outtime"
  /\ exited' = (exited \/ outtime)
  /\ pc' = IF outtime THEN "close" ELSE "backup"
  /\ i' = 1
  /\ windows' = IF outtime THEN windows ELSE windows \cup {low}
  /\ UNCHANGED <<day, low, hi, known, db, slot, current_dir, files, saved, err, result, faults, hidden>>

\* The ids the insert into a table's temporary table takes, and whether that
\* table, whose key they are, has one of them already.
Moved(t) == {r \in db[t][1] : r.time < hi + Lag /\ r.linkedid \in db["linkedid_tmp"][1]}
Mutant_Duplicate(t) == FALSE
Duplicate(t) == Moved(t) \cap db[TempOf[t]][1] # {}

Insertable(t) ==
  /\ db[t] # Absent /\ db[TempOf[t]] # Absent /\ db["linkedid_tmp"] # Absent
  /\ ~Duplicate(t)

Selected(t) ==
  IF t = "wrapup" THEN {r \in db[t][1] : low <= r.time /\ r.time < hi}
  ELSE {r \in db[t][1] : r.linkedid \in db["linkedid_tmp"][1]}

\* lcs_try_query and lcs_try_fetch for the table in turn.  Every error closes
\* the connection and is dropped by lcs_get_tab_pthread; a result that cannot
\* be stored is not even an error.
Inserted(t) == IF t = "wrapup" THEN db ELSE [db EXCEPT ![TempOf[t]][1] = @ \cup Moved(t)]
Query(t) ==
  \/ /\ IF t = "wrapup" THEN db[t] # Absent ELSE Insertable(t)
     /\ db' = Inserted(t)
     /\ \/ Sound /\ hidden' = hidden /\ slot' = "conn"
           /\ files' = [files EXCEPT ![t] = <<Selected(t)>>]
        \/ Fault /\ hidden' = TRUE /\ slot' = "conn" /\ files' = files
        \/ Fault /\ hidden' = hidden /\ slot' = "null" /\ files' = files
  \/ /\ IF t = "wrapup" THEN db[t] = Absent ELSE ~Insertable(t)
     /\ Sound /\ slot' = "null" /\ UNCHANGED <<db, files, hidden>>
  \/ Fault /\ slot' = "null" /\ UNCHANGED <<db, files, hidden>>

lcs_get_tab ==
  /\ pc = "backup" /\ i <= 4
  /\ \E con \in Read :
       IF con = "wild"
         THEN Killed /\ Sound /\ slot' = con /\ UNCHANGED <<i, db, files, hidden>>
         ELSE /\ i' = i + 1 /\ UNCHANGED <<pc, result>>
              /\ \/ con = "null" /\ Sound /\ slot' = con /\ UNCHANGED <<db, files, hidden>>
                 \/ con = "conn" /\ Query(Tables[i])
  /\ UNCHANGED <<data, saved, err, exited>>

\* lcs_insert_sqlite starts from the empty template and loads every file.
Loaded == UNION {{<<t, r>> : r \in files[t][1]} : t \in {u \in Copies : files[u] # Absent}}

lcs_moving_param ==
  /\ pc = "backup" /\ i = 5 /\ pc' = "end"
  /\ \/ Sound /\ saved' = Loaded /\ hidden' = hidden
     \/ Fault /\ saved' = {} /\ hidden' = TRUE
  /\ UNCHANGED <<i, data, db, slot, files, err, exited, result>>

\* lcs_end_circle, and the test of the status after it.
lcs_update_time == [low |-> hi, hi |-> hi + Step]

lcs_end_circle ==
  /\ pc = "end"
  /\ low' = lcs_update_time.low
  /\ hi' = lcs_update_time.hi
  /\ pc' = IF exited THEN "close" ELSE "history"
  /\ UNCHANGED <<day, i, known, db, slot, current_dir, files, saved, err, exited, result, faults,
                 hidden, windows>>

-----------------------------------------------------------------------------
(* The end.                                                                *)

lcs_try_close ==
  /\ pc = "close"
  /\ \E con \in Read :
       IF con = "wild" THEN Killed /\ slot' = con
                       ELSE pc' = "status" /\ slot' = "null" /\ result' = result
  /\ UNCHANGED <<i, data, db, files, saved, err, exited, faults, hidden>>

\* main: with an error it does not look at the status.  Nobody would end a pause.
MainStatus ==
  /\ pc = "status"
  /\ pc' = IF err \/ exited THEN "clear" ELSE "pause"
  /\ UNCHANGED <<i, data, db, slot, files, saved, err, exited, result, faults, hidden>>

lcs_clear_tmp == Batch("clear", "return", 8, [k \in 0 .. 8 |-> Scripted(Temps \o Tables, 1, k)])

Return ==
  /\ pc = "return" /\ pc' = "exit"
  /\ result' = IF err THEN "EXIT_FAILURE" ELSE "EXIT_SUCCESS"
  /\ UNCHANGED <<i, data, db, slot, files, saved, err, exited, faults, hidden>>

Next ==
  \/ lcs_init_app \/ lcs_gen_structure \/ lcs_init_tmp \/ lcs_gen_data_tables
  \/ lcs_init_param \/ lcs_init_circle
  \/ lcs_clear_history \/ lcs_get_outtime \/ lcs_get_tab \/ lcs_moving_param \/ lcs_end_circle
  \/ lcs_try_close \/ MainStatus \/ lcs_clear_tmp \/ Return

Spec == Init /\ [][Next]_vars
\* The process runs until it ends, and the programs and queries it waits for end.
FairSpec == Spec /\ WF_vars(Next)

-----------------------------------------------------------------------------
(* Properties.                                                             *)

In(x, w) == w <= x /\ x < w + Step
Aligned(x) == \E k \in 0 .. x : x = k * Step

\* The windows: aligned, each begins where the one before ended, and when the
\* loop has found that it is out of time every call of the day lies in one,
\* the calls at the very second of endtime included.
Coverage ==
  /\ pc # "init" /\ known => Aligned(low) /\ hi = low + Step
  /\ \A v, w \in windows : \A x \in Times("cdr") : In(x, v) /\ In(x, w) => v = w
  /\ exited => \A x \in Times("cdr") : \E w \in windows : In(x, w)

\* What is saved in a directory belongs to calls that began in its window, as
\* long as no failure was hidden, although the window moves on and the
\* directory does not.
RightDir ==
  ~hidden => \A p \in saved : p[1] # "wrapup" =>
    \E x \in Rows["cdr"] : x.linkedid = p[2].linkedid /\ In(x.time, current_dir)

AllSaved == \A r \in Rows["cdr"] : <<"cdr", r>> \in saved

\* The process reports success only when every call of the day is saved, unless
\* one of the failures whose codes are dropped has happened; and then all calls
\* began in the window of the one directory there is.  A day of several windows
\* is never a success: its second window inserts the ids of the first one again,
\* which closes the connection all windows share.  And no table is left behind,
\* also where those of an interrupted run were found.
SuccessComplete ==
  result = "EXIT_SUCCESS" =>
    /\ ~hidden => AllSaved /\ \A x \in Times("cdr") : In(x, current_dir)
    /\ \A n \in Names : db[n] = Absent

\* The process ends: whoever leaves the loop has set the status main looks at,
\* before main pauses; nobody sends the signal after which it would look again.
Terminates == <>(result # "none")
=============================================================================
