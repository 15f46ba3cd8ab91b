------------------------ MODULE Downloader_proofs ------------------------
(***************************************************************************)
(* The two programs that bring a day's files: the downloader, for every    *)
(* day, step and choice of failures, and the transfer of a file from the   *)
(* warehouse server, for every size and every division of its bytes.       *)
(*                                                                         *)
(* WInv carries the windows (CoverageHolds), DInv what the database, the   *)
(* files and the directory hold (RightDirHolds, SuccessCompleteHolds),     *)
(* TInv what is on the connection and in the client's file (VerdictHolds). *)
(***************************************************************************)
EXTENDS Downloader, Transfer, NaturalsInduction, WellFoundedInduction, SequenceTheorems, TLAPS

HIDE TransferAssumption

-----------------------------------------------------------------------------
(* Arithmetic of lcs_get_range.                                            *)

\* Rounding down gives a multiple of the step, at most one step below.
LEMMA RoundDown ==
  ASSUME NEW x \in Nat
  PROVE /\ x - (x % Step) \in Nat /\ x - (x % Step) <= x
        /\ Aligned(x - (x % Step))
        /\ x + Step - (x % Step) = (x - (x % Step)) + Step
<1>1. Step \in Nat /\ Step > 0
  BY DownloaderAssumption
<1>2. /\ x % Step \in 0 .. Step - 1
      /\ x \div Step \in Nat
      /\ x = Step * (x \div Step) + (x % Step)
  BY <1>1
<1>3. x - (x % Step) = (x \div Step) * Step
  BY <1>1, <1>2
<1>4. x \div Step <= (x \div Step) * Step
  BY <1>1, <1>2
<1> QED
  BY <1>1, <1>2, <1>3, <1>4 DEF Aligned

\* The next window is aligned when this one is.
LEMMA NextAligned ==
  ASSUME NEW x \in Nat, Aligned(x)
  PROVE Aligned(x + Step)
<1>1. PICK k \in 0 .. x : x = k * Step
  BY DEF Aligned
<1>2. Step \in Nat \ {0}
  BY DownloaderAssumption
<1>3. x + Step = (k + 1) * Step /\ k + 1 \in 0 .. x + Step
  BY <1>1, <1>2
<1> QED
  BY <1>3 DEF Aligned

-----------------------------------------------------------------------------
(* The first and the last call of the day.                                 *)

LEMMA Least ==
  ASSUME NEW T, T \subseteq Nat, T # {}
  PROVE  \E x \in T : \A y \in T : x <= y
<1>1. PICK x \in T : \A y \in T : ~(<<y, x>> \in OpToRel(<, Nat))
  BY WFMin, NatLessThanWellFounded
<1>2. ASSUME NEW y \in T PROVE x <= y
  <2>1. ~(<<y, x>> \in {p \in Nat \X Nat : p[1] < p[2]})
    BY <1>1 DEF OpToRel
  <2>2. x \in Nat /\ y \in Nat
    OBVIOUS
  <2> QED
    BY <2>1, <2>2
<1> QED
  BY <1>2

LEMMA DayTimes ==
  ASSUME day \in Days
  PROVE  Times("cdr") \subseteq Nat /\ \A x \in Times("cdr") : x <= Midnight
<1>1. "cdr" \in Copies
  BY DEF Copies, Tables, Calls
<1>2. Times("cdr") \subseteq 0 .. Midnight /\ Midnight \in Nat
  BY <1>1, DownloaderAssumption DEF Times, Rows
<1> QED
  BY <1>2

LEMMA DayStays == [Next]_vars => day' = day /\ Times("cdr")' = Times("cdr")
<1> SUFFICES ASSUME [Next]_vars PROVE day' = day
  BY DEF Times, Rows
<1>1. CASE Next
  BY <1>1 DEF Next, lcs_init_app, lcs_gen_structure, lcs_init_tmp, lcs_gen_data_tables,
              lcs_init_param, lcs_init_circle, lcs_clear_history, lcs_get_outtime,
              lcs_get_tab, lcs_moving_param, lcs_end_circle, lcs_try_close, MainStatus,
              lcs_clear_tmp, Return, Batch, data
<1>2. CASE UNCHANGED vars
  BY <1>2 DEF vars
<1> QED
  BY <1>1, <1>2

LEMMA FirstCall ==
  ASSUME day \in Days, Rows["cdr"] # {}
  PROVE inittime \in Nat /\ inittime \in Times("cdr") /\ \A x \in Times("cdr") : inittime <= x
<1>1. Times("cdr") # {}
  BY DEF Times
<1>2. \E x \in Times("cdr") : \A y \in Times("cdr") : x <= y
  BY <1>1, DayTimes, Least
<1>3. inittime \in Times("cdr") /\ \A x \in Times("cdr") : inittime <= x
  BY <1>2 DEF inittime
<1> QED
  BY <1>3, DayTimes

\* The last call exists because the day has an end: it is the one nearest to
\* Midnight.
LEMMA LastCall ==
  ASSUME day \in Days, NEW x \in Times("cdr")
  PROVE endtime \in Nat /\ x <= endtime
<1> DEFINE Rest == {Midnight - y : y \in Times("cdr")}
<1>1. Rest \subseteq Nat /\ Rest # {}
  BY DayTimes, DownloaderAssumption
<1>2. PICK r \in Rest : \A q \in Rest : r <= q
  <2> HIDE DEF Rest
  <2> QED BY <1>1, Least
<1>3. PICK z \in Times("cdr") : r = Midnight - z
  BY <1>2
<1>4. ASSUME NEW y \in Times("cdr") PROVE z >= y
  <2>1. Midnight - z <= Midnight - y
    BY <1>2, <1>3
  <2> QED
    BY <2>1, <1>3, DayTimes, DownloaderAssumption
<1>5. endtime \in Times("cdr") /\ endtime >= x
  BY <1>4 DEF endtime
<1> QED
  BY <1>5, DayTimes

-----------------------------------------------------------------------------
(* The windows.  Chain says how far they reach, which the property does    *)
(* not: at the test for the end of the day they reach up to low, and while *)
(* one is backed up to hi.                                                 *)

Before == {"structure", "init_tmp", "data_tables", "param", "circle", "history", "outtime"}
During == {"backup", "end"}

Chain(T, W, b) ==
  /\ \A w \in W : w + Step <= b
  /\ \A x \in T : x < b => \E w \in W : In(x, w)
Apart(W) == \A v, w \in W : v = w \/ v + Step <= w \/ w + Step <= v
Covered(T, W) == \A x \in T : \E w \in W : In(x, w)

WInv ==
  /\ day \in Days /\ pc \in PCs
  /\ low \in Nat /\ hi \in Nat /\ windows \subseteq Nat
  /\ exited \in BOOLEAN
  /\ Apart(windows)
  /\ pc = "init" => windows = {} /\ ~exited /\ ~known
  /\ pc \in Before \cup During => known
  /\ known => Aligned(low) /\ hi = low + Step
  /\ pc \in Before => Chain(Times("cdr"), windows, low)
  /\ pc \in During => Chain(Times("cdr"), windows, hi)
  /\ exited => Covered(Times("cdr"), windows)

LEMMA WInvCoverage == WInv => Coverage
<1> SUFFICES ASSUME WInv PROVE Coverage
  OBVIOUS
<1> day \in Days
  BY DEF WInv
<1>1. ASSUME NEW v \in windows, NEW w \in windows, NEW x \in Times("cdr"), In(x, v), In(x, w)
      PROVE v = w
  <2>1. v \in Nat /\ w \in Nat /\ x \in Nat /\ Step \in Nat
    BY DayTimes, DownloaderAssumption DEF WInv
  <2>2. v = w \/ v + Step <= w \/ w + Step <= v
    BY DEF WInv, Apart
  <2> QED
    BY <1>1, <2>1, <2>2 DEF In
<1>2. exited => \A x \in Times("cdr") : \E w \in windows : In(x, w)
  BY DEF WInv, Covered
<1>3. pc # "init" /\ known => Aligned(low) /\ hi = low + Step
  BY DEF WInv
<1> QED
  BY <1>1, <1>2, <1>3 DEF Coverage

LEMMA InitWInv == Init => WInv
<1> SUFFICES ASSUME Init PROVE WInv
  OBVIOUS
<1>1. Apart(windows)
  BY DEF Init, Apart
<1> QED
  BY <1>1 DEF Init, WInv, PCs, Before, During

\* A step that leaves the windows alone keeps the invariant when it stays on
\* its side of the backup or goes to the end.
LEMMA Quiet ==
  ASSUME WInv, UNCHANGED <<day, low, hi, known, windows>>, exited' = exited, pc # "init",
         pc' \in PCs \ {"init"},
         \/ pc \in Before /\ pc' \in Before
         \/ pc \in During /\ pc' \in During
         \/ pc' \notin Before \cup During
  PROVE WInv'
<1>1. Times("cdr")' = Times("cdr")
  BY DEF Times, Rows
<1> QED
  BY <1>1 DEF WInv, Before, During

LEMMA QuietSteps ==
  ASSUME WInv, lcs_gen_structure \/ lcs_init_tmp \/ lcs_gen_data_tables \/ lcs_init_param
               \/ lcs_init_circle \/ lcs_clear_history \/ lcs_get_tab \/ lcs_moving_param
               \/ lcs_try_close \/ MainStatus \/ lcs_clear_tmp \/ Return
  PROVE WInv'
<1>0. pc \in PCs
  BY DEF WInv
<1>1. CASE lcs_gen_structure
  <2>1. UNCHANGED <<day, low, hi, known, windows>> /\ exited' = exited /\ pc = "structure"
        /\ pc' \in {"init_tmp", "exit"}
    BY <1>1 DEF lcs_gen_structure, Batch, Killed, data
  <2> QED BY <2>1, Quiet DEF Before, During, PCs
<1>2. CASE lcs_init_tmp
  <2>1. UNCHANGED <<day, low, hi, known, windows>> /\ exited' = exited /\ pc = "init_tmp"
        /\ pc' \in {"data_tables", "exit"}
    BY <1>2 DEF lcs_init_tmp, Batch, Killed, data
  <2> QED BY <2>1, Quiet DEF Before, During, PCs
<1>3. CASE lcs_gen_data_tables
  <2>1. UNCHANGED <<day, low, hi, known, windows>> /\ exited' = exited /\ pc = "data_tables"
        /\ pc' \in {"param", "exit"}
    BY <1>3 DEF lcs_gen_data_tables, Batch, Killed, data
  <2> QED BY <2>1, Quiet DEF Before, During, PCs
<1>4. CASE lcs_init_param
  <2>1. UNCHANGED <<day, low, hi, known, windows>> /\ exited' = exited /\ pc = "param"
        /\ pc' = "circle"
    BY <1>4 DEF lcs_init_param, data
  <2> QED BY <2>1, Quiet DEF Before, During, PCs
<1>5. CASE lcs_init_circle
  <2>1. UNCHANGED <<day, low, hi, known, windows>> /\ exited' = exited /\ pc = "circle"
        /\ pc' \in {"history", "exit"}
    BY <1>5 DEF lcs_init_circle, Killed
  <2> QED BY <2>1, Quiet DEF Before, During, PCs
<1>6. CASE lcs_clear_history
  <2>1. UNCHANGED <<day, low, hi, known, windows>> /\ exited' = exited /\ pc = "history"
        /\ pc' \in {"outtime", "exit"}
    BY <1>6 DEF lcs_clear_history, Killed, data
  <2> QED BY <2>1, Quiet DEF Before, During, PCs
<1>7. CASE lcs_get_tab
  <2>1. UNCHANGED <<day, low, hi, known, windows>> /\ exited' = exited /\ pc = "backup"
        /\ pc' \in {"backup", "exit"}
    BY <1>7 DEF lcs_get_tab, Killed, data
  <2> QED BY <2>1, Quiet DEF Before, During, PCs
<1>8. CASE lcs_moving_param
  <2>1. UNCHANGED <<day, low, hi, known, windows>> /\ exited' = exited /\ pc = "backup"
        /\ pc' = "end"
    BY <1>8 DEF lcs_moving_param, data
  <2> QED BY <2>1, Quiet DEF Before, During, PCs
<1>9. CASE lcs_try_close
  <2>1. UNCHANGED <<day, low, hi, known, windows>> /\ exited' = exited /\ pc = "close"
        /\ pc' \in {"status", "exit"}
    BY <1>9 DEF lcs_try_close, Killed, data
  <2> QED BY <2>1, Quiet DEF Before, During, PCs
<1>10. CASE MainStatus
  <2>1. UNCHANGED <<day, low, hi, known, windows>> /\ exited' = exited /\ pc = "status"
        /\ pc' \in {"clear", "pause"}
    BY <1>10 DEF MainStatus, data
  <2> QED BY <2>1, Quiet DEF Before, During, PCs
<1>11. CASE lcs_clear_tmp
  <2>1. UNCHANGED <<day, low, hi, known, windows>> /\ exited' = exited /\ pc = "clear"
        /\ pc' \in {"return", "exit"}
    BY <1>11 DEF lcs_clear_tmp, Batch, Killed, data
  <2> QED BY <2>1, Quiet DEF Before, During, PCs
<1>12. CASE Return
  <2>1. UNCHANGED <<day, low, hi, known, windows>> /\ exited' = exited /\ pc = "return"
        /\ pc' = "exit"
    BY <1>12 DEF Return, data
  <2> QED BY <2>1, Quiet DEF Before, During, PCs
<1> QED
  BY <1>1, <1>2, <1>3, <1>4, <1>5, <1>6, <1>7, <1>8, <1>9, <1>10, <1>11, <1>12

LEMMA NextWInv == WInv /\ [Next]_vars => WInv'
<1> SUFFICES ASSUME WInv, [Next]_vars PROVE WInv'
  OBVIOUS
<1> day \in Days /\ day' = day /\ Times("cdr")' = Times("cdr")
  BY DayStays DEF WInv
<1>0. Step \in Nat /\ Step > 0
  BY DownloaderAssumption
<1>1. CASE lcs_init_app
  <2>1. pc = "init" /\ windows' = {} /\ ~exited /\ exited' = exited /\ exited \in BOOLEAN
        /\ pc' \in {"structure", "clear"}
    BY <1>1 DEF lcs_init_app, WInv
  <2>2. Apart(windows')
    BY <2>1 DEF Apart
  <2>3. CASE ~known'
    <3>1. low' = low /\ hi' = hi /\ pc' = "clear"
      BY <1>1, <2>3 DEF lcs_init_app
    <3> QED
      BY <2>1, <2>2, <2>3, <3>1 DEF WInv, PCs, Before, During
  <2>4. CASE known'
    <3>1. Rows["cdr"] # {} /\ pc' = "structure"
          /\ low' = lcs_get_range(inittime).low /\ hi' = lcs_get_range(inittime).hi
      BY <1>1, <2>4 DEF lcs_init_app
    <3>2. low' = inittime - (inittime % Step) /\ hi' = inittime + Step - (inittime % Step)
      BY <3>1 DEF lcs_get_range
    <3>3. low' \in Nat /\ low' <= inittime /\ hi' = low' + Step /\ Aligned(low')
      BY <3>1, <3>2, FirstCall, RoundDown
    <3>4. Chain(Times("cdr"), windows', low')
      BY <2>1, <3>1, <3>3, FirstCall, DayTimes DEF Chain
    <3>5. hi' \in Nat
      <4>1. hi' = low' + Step
        BY <3>3
      <4>2. low' \in Nat
        BY <3>3
      <4>3. \A x \in Nat : x + Step \in Nat
        BY <1>0
      <4> QED BY <4>1, <4>2, <4>3
    <3> QED
      BY <2>1, <2>2, <2>4, <3>1, <3>3, <3>4, <3>5 DEF WInv, PCs, Before, During
  <2> QED
    BY <2>3, <2>4
<1>2. CASE lcs_get_outtime
  <2>1. /\ pc = "outtime" /\ known /\ low \in Nat /\ hi = low + Step /\ windows \subseteq Nat
        /\ Chain(Times("cdr"), windows, low) /\ Apart(windows) /\ Aligned(low)
        /\ UNCHANGED <<low, hi, known>>
    BY <1>2 DEF lcs_get_outtime, WInv, Before
  <2>2. CASE outtime
    <3>1. pc' = "close" /\ windows' = windows
      BY <1>2, <2>2 DEF lcs_get_outtime
    <3>2. ASSUME NEW x \in Times("cdr") PROVE \E w \in windows : In(x, w)
      <4>1. x < low
        BY <2>1, <2>2, LastCall, DayTimes DEF outtime
      <4> QED
        BY <2>1, <4>1 DEF Chain
    <3>3. Covered(Times("cdr"), windows')
      BY <3>1, <3>2 DEF Covered
    <3> QED
      <4>1. exited' \in BOOLEAN
        BY <1>2 DEF lcs_get_outtime
      <4> QED
        BY <2>1, <3>1, <3>3, <4>1 DEF WInv, PCs, Before, During
  <2>3. CASE ~outtime
    <3>1. pc' = "backup" /\ windows' = windows \cup {low} /\ exited' = exited
      <4>1. pc' = "backup" /\ windows' = windows \cup {low}
        BY <1>2, <2>3 DEF lcs_get_outtime
      <4>2. exited' = (exited \/ outtime)
        BY <1>2 DEF lcs_get_outtime
      <4>3. exited \in BOOLEAN
        BY DEF WInv
      <4>4. exited' = exited
        BY <4>2, <4>3, <2>3
      <4> QED
        BY <4>1, <4>4
    <3>2. Apart(windows')
      <4> SUFFICES ASSUME NEW v \in windows', NEW w \in windows'
                   PROVE v = w \/ v + Step <= w \/ w + Step <= v
        BY DEF Apart
      <4>1. \A u \in windows : u + Step <= low
        BY <2>1 DEF Chain
      <4>2. v \in windows /\ w \in windows => v = w \/ v + Step <= w \/ w + Step <= v
        BY <2>1 DEF Apart
      <4> QED
        BY <3>1, <4>1, <4>2
    <3>3. \A w \in windows' : w + Step <= hi'
      <4> SUFFICES ASSUME NEW w \in windows' PROVE w + Step <= hi'
        OBVIOUS
      <4>1. w \in windows => w + Step <= low
        BY <2>1 DEF Chain
      <4>2. w \in Nat
        BY <2>1, <3>1
      <4> QED
        BY <1>0, <2>1, <3>1, <4>1, <4>2
    <3>4. ASSUME NEW x \in Times("cdr"), x < hi' PROVE \E w \in windows' : In(x, w)
      <4>1. x \in Nat
        BY DayTimes
      <4>2. CASE x < low
        BY <2>1, <3>1, <4>2 DEF Chain
      <4>3. CASE low <= x
        BY <2>1, <3>1, <3>4, <4>3 DEF In
      <4> QED
        BY <2>1, <4>1, <4>2, <4>3
    <3>5. Chain(Times("cdr"), windows', hi')
      BY <3>3, <3>4 DEF Chain
    <3>6. exited' => Covered(Times("cdr"), windows')
      BY <3>1 DEF WInv, Covered
    <3>7. windows' \subseteq Nat /\ hi' \in Nat
      BY <1>0, <2>1, <3>1
    <3> QED
      BY <2>1, <3>1, <3>2, <3>5, <3>6, <3>7 DEF WInv, PCs, Before, During
  <2> QED
    BY <2>2, <2>3
<1>3. CASE lcs_end_circle
  <2>1. /\ pc = "end" /\ known /\ low \in Nat /\ hi \in Nat /\ hi = low + Step
        /\ Aligned(low) /\ Chain(Times("cdr"), windows, hi)
    BY <1>3 DEF lcs_end_circle, WInv, During
  <2>2. low' = hi /\ hi' = hi + Step /\ UNCHANGED <<known, windows, exited>>
        /\ pc' \in {"close", "history"}
    BY <1>3 DEF lcs_end_circle, lcs_update_time
  <2>3. Aligned(low')
    BY <2>1, <2>2, NextAligned
  <2>4. hi' \in Nat
    BY <1>0, <2>1, <2>2
  <2> QED
    BY <2>1, <2>2, <2>3, <2>4 DEF WInv, PCs, Before, During
<1>4. CASE UNCHANGED vars
  BY <1>4 DEF WInv, vars
<1> QED
  BY <1>1, <1>2, <1>3, <1>4, QuietSteps DEF Next

\* The windows of lcs_start_bdata are aligned and do not overlap, and the day is
\* covered when lcs_get_outtime ends the loop, for every step and every day.
THEOREM CoverageHolds == Spec => []Coverage
<1>1. Spec => []WInv
  BY InitWInv, NextWInv, PTL DEF Spec
<1> QED
  BY <1>1, WInvCoverage, PTL
-----------------------------------------------------------------------------
(* What the directory holds.  The invariant follows the tables of the      *)
(* database as long as no failure was hidden: the first window is copied   *)
(* while there is a connection, the second finds its ids taken.            *)

CallNames == {"cdr", "queue_log", "monitor_recording"}
TempNames == {"linkedid_tmp", "cdr_tmp", "queue_tmp", "monitor_tmp"}

Starting == {"init", "structure", "init_tmp", "data_tables", "param", "circle"}
Looping  == {"history", "outtime", "backup", "end"}

\* The calls that began in the window of the directory, and their rows.
Ids == {r.linkedid : r \in {x \in Rows["cdr"] : In(x.time, current_dir)}}
Parts(t) == {r \in Rows[t] : r.linkedid \in Ids}

CdrSaved == \A r \in Parts("cdr") : <<"cdr", r>> \in saved
Taken == \E r \in Parts("cdr") : r.time < current_dir + Step /\ r \in db["cdr_tmp"][1]
Done == AllSaved /\ \A x \in Times("cdr") : In(x, current_dir)

ShapeInv ==
  /\ db = [n \in Names |-> db[n]] /\ files = [t \in Copies |-> files[t]] /\ i \in 1 .. 5
  /\ pc \in Looping => current_dir \in Nat

\* Before the loop: every error was hidden, and the window is that of the first
\* call.
StartInv ==
  /\ pc \in Starting => saved = {} /\ files = [t \in Copies |-> Absent] /\ (err => hidden)
  /\ pc \in Starting \cup Looping => exited = FALSE
  /\ pc \in Starting \ {"init"} => Rows["cdr"] # {} /\ In(inittime, low)
  /\ ~hidden /\ pc \in {"data_tables", "param", "circle"} => \A n \in TempNames : db[n] = <<{}>>
  /\ ~hidden /\ pc \in {"param", "circle"} => \A t \in Copies : db[t] = <<Rows[t]>>

\* In the loop the tables of calls are whole, the ids those of the directory's
\* window, and the files hold these calls.
TablesInv ==
  ~hidden /\ pc \in Looping =>
    /\ Rows["cdr"] # {} /\ In(inittime, current_dir)
    /\ db["linkedid_tmp"] = <<Ids>>
    /\ \A t \in CallNames :
         /\ db[t] = <<Rows[t]>> /\ db[TempOf[t]] = <<db[TempOf[t]][1]>>
         /\ files[t] = Absent \/ files[t] = <<Parts(t)>>

\* While there is a connection the loop is in its first window, or has saved it
\* and finds its ids taken.
RoundInv ==
  ~hidden =>
    /\ pc = "outtime" => slot = "conn"
    /\ pc \in {"history", "outtime"} /\ slot = "conn" =>
         low = current_dir \/ (low = current_dir + Step /\ CdrSaved /\ Taken)
    /\ pc = "backup" /\ slot = "conn" =>
         \/ low = current_dir /\ (i > 1 => files["cdr"] = <<Parts("cdr")>> /\ Taken)
         \/ i = 1 /\ low = current_dir + Step /\ Taken
    /\ pc = "end" /\ slot = "conn" => low = current_dir /\ CdrSaved /\ Taken

EndInv ==
  /\ pc # "exit" => result = "none"
  /\ ~hidden /\ pc \in {"close", "status", "clear", "return"} => Done
  /\ ~hidden /\ result = "EXIT_SUCCESS" => Done
  /\ pc = "return" /\ ~err => \A n \in Names : db[n] = Absent
  /\ result = "EXIT_SUCCESS" => \A n \in Names : db[n] = Absent

DInv == ShapeInv /\ StartInv /\ TablesInv /\ RoundInv /\ EndInv /\ RightDir

LEMMA InitDInv == Init => DInv
<1> SUFFICES ASSUME Init PROVE DInv
  OBVIOUS
<1>1. ShapeInv
  BY DEF Init, ShapeInv, Looping
<1>2. StartInv
  BY DEF Init, StartInv, Starting, Looping
<1>3. TablesInv /\ RoundInv /\ EndInv
  BY DEF Init, TablesInv, RoundInv, EndInv, Looping
<1>4. RightDir
  BY DEF Init, RightDir
<1> QED
  BY <1>1, <1>2, <1>3, <1>4 DEF DInv

-----------------------------------------------------------------------------
(* What the lists of statements leave, evaluated table by table.           *)

LEMMA TablesAre ==
  /\ Tables \in Seq(CallNames \cup {"wrapup"}) /\ Len(Tables) = 4
  /\ Tables[1] = "cdr" /\ Tables[2] = "queue_log" /\ Tables[3] = "monitor_recording"
  /\ Tables[4] = "wrapup"
<1> DEFINE S == CallNames \cup {"wrapup"}
<1>1. Len(Calls) = 3
      /\ Calls[1] = "cdr" /\ Calls[2] = "queue_log" /\ Calls[3] = "monitor_recording"
  BY DEF Calls
<1>2. Calls \in Seq(S)
  <2>1. "cdr" \in S /\ "queue_log" \in S /\ "monitor_recording" \in S
    BY DEF CallNames
  <2> HIDE DEF S
  <2> QED
    BY <2>1 DEF Calls
<1>3. "wrapup" \in S
  OBVIOUS
<1> HIDE DEF S
<1>4. Tables \in Seq(S) /\ Len(Tables) = 4 /\ Tables[4] = "wrapup"
      /\ \A k \in 1 .. 3 : Tables[k] = Calls[k]
  BY <1>1, <1>2, <1>3 DEF Tables
<1> QED
  BY <1>1, <1>4 DEF S

LEMMA NamesAre ==
  /\ Copies = CallNames \cup {"wrapup"}
  /\ {Temps[k] : k \in 1 .. 4} = TempNames
  /\ Names = CallNames \cup {"wrapup"} \cup TempNames
  /\ \A t \in CallNames : TempOf[t] \in TempNames \ {"linkedid_tmp"}
  /\ TempOf["cdr"] = "cdr_tmp"
<1>2. Copies = CallNames \cup {"wrapup"}
  BY TablesAre DEF Copies, CallNames
<1>3. {Temps[k] : k \in 1 .. 4} = TempNames
  BY DEF Temps, TempNames
<1>4. \A t \in CallNames : TempOf[t] \in TempNames \ {"linkedid_tmp"}
  BY DEF CallNames, TempOf, TempNames
<1>5. TempOf["cdr"] = "cdr_tmp"
  BY DEF TempOf
<1> QED
  BY <1>2, <1>3, <1>4, <1>5 DEF Names

LEMMA ScriptedShape ==
  ASSUME NEW list, NEW per, NEW k
  PROVE  Scripted(list, per, k) = [n \in Names |-> Scripted(list, per, k)[n]]
<1> DEFINE E(t) ==
     IF \A p \in 1 .. Len(list) : list[p] # t THEN db[t]
     ELSE LET p == CHOOSE q \in 1 .. Len(list) : list[q] = t
              s == k - per * (p - 1)
              done == IF s < per THEN s ELSE per
          IN CASE done <= 0 -> db[t]
               [] done = 1 -> Absent
               [] done = 2 -> <<{}>>
               [] done = 3 -> <<Rows[t]>>
<1>1. Scripted(list, per, k) = [n \in Names |-> E(n)]
  BY Zenon DEF Scripted
<1> HIDE DEF E
<1> QED
  BY <1>1

LEMMA TempsMade ==
  LET D == Scripted(Temps, 2, 8) IN \A n \in TempNames : D[n] = <<{}>>
<1> SUFFICES ASSUME NEW n \in TempNames PROVE Scripted(Temps, 2, 8)[n] = <<{}>>
  OBVIOUS
<1>1. n \in Names
  BY NamesAre
<1>2. Len(Temps) = 4 /\ \E q \in 1 .. 4 : Temps[q] = n
  BY DEF Temps, TempNames
<1> DEFINE p == CHOOSE q \in 1 .. 4 : Temps[q] = n
<1>3. p \in 1 .. 4
  BY <1>2
<1> HIDE DEF p
<1> DEFINE done == IF 8 - 2 * (p - 1) < 2 THEN 8 - 2 * (p - 1) ELSE 2
<1>4. done = 2
  BY <1>3
<1>5. Scripted(Temps, 2, 8)[n] =
        CASE done <= 0 -> db[n]
          [] done = 1 -> Absent
          [] done = 2 -> <<{}>>
          [] done = 3 -> <<Rows[n]>>
  BY <1>1, <1>2 DEF Scripted, p
<1> HIDE DEF done
<1> QED
  BY <1>4, <1>5

LEMMA CopiesMade ==
  LET D == Scripted(Tables, 3, 12)
  IN  /\ \A t \in Copies : D[t] = <<Rows[t]>>
      /\ \A n \in TempNames : D[n] = db[n]
<1>1. Len(Tables) = 4
  BY TablesAre
<1>2. ASSUME NEW n \in TempNames PROVE Scripted(Tables, 3, 12)[n] = db[n]
  <2>1. n \in Names
    BY NamesAre
  <2>2. \A q \in 1 .. Len(Tables) : Tables[q] # n
    BY TablesAre DEF TempNames
  <2> QED
    BY <2>1, <2>2 DEF Scripted
<1>3. ASSUME NEW t \in Copies PROVE Scripted(Tables, 3, 12)[t] = <<Rows[t]>>
  <2>1. t \in Names
    BY NamesAre
  <2>2. \E q \in 1 .. 4 : Tables[q] = t
    BY DEF Copies
  <2> DEFINE p == CHOOSE q \in 1 .. 4 : Tables[q] = t
  <2>3. p \in 1 .. 4
    BY <2>2
  <2> HIDE DEF p
  <2> DEFINE done == IF 12 - 3 * (p - 1) < 3 THEN 12 - 3 * (p - 1) ELSE 3
  <2>4. done = 3
    BY <2>3
  <2>5. Scripted(Tables, 3, 12)[t] =
          CASE done <= 0 -> db[t]
            [] done = 1 -> Absent
            [] done = 2 -> <<{}>>
            [] done = 3 -> <<Rows[t]>>
    BY <2>1, <2>2, <1>1 DEF Scripted, p
  <2> HIDE DEF done
  <2> QED
    BY <2>4, <2>5
<1> QED
  BY <1>2, <1>3

LEMMA AllDropped ==
  \A n \in Names : Scripted(Temps \o Tables, 1, 8)[n] = Absent
<1> SUFFICES ASSUME NEW n \in Names PROVE Scripted(Temps \o Tables, 1, 8)[n] = Absent
  OBVIOUS
<1> DEFINE All == Temps \o Tables
<1>1. Temps \in Seq(TempNames) /\ Len(Temps) = 4
  <2>1. "linkedid_tmp" \in TempNames /\ "cdr_tmp" \in TempNames /\ "queue_tmp" \in TempNames
        /\ "monitor_tmp" \in TempNames
    BY DEF TempNames
  <2> QED
    BY <2>1 DEF Temps
<1>2. Len(All) = 8 /\ \E q \in 1 .. 8 : All[q] = n
  <2>0. Temps \in Seq(Names) /\ Tables \in Seq(Names)
    BY <1>1, TablesAre, NamesAre
  <2>1. Len(All) = 8 /\ \A q \in 1 .. 4 : All[q] = Temps[q] /\ All[q + 4] = Tables[q]
    <3>1. Len(Temps) = 4 /\ Len(Tables) = 4
      BY <1>1, TablesAre
    <3>2. /\ Len(All) = Len(Temps) + Len(Tables)
          /\ \A q \in 1 .. Len(Temps) + Len(Tables) :
               All[q] = IF q <= Len(Temps) THEN Temps[q] ELSE Tables[q - Len(Temps)]
      BY <2>0, ConcatProperties
    <3> HIDE DEF All
    <3>3. Len(All) = 8 /\ \A q \in 1 .. 8 : All[q] = IF q <= 4 THEN Temps[q] ELSE Tables[q - 4]
      BY <3>1, <3>2
    <3>4. ASSUME NEW q \in 1 .. 4 PROVE All[q] = Temps[q] /\ All[q + 4] = Tables[q]
      <4>1. q + 4 \in 1 .. 8 /\ ~(q + 4 <= 4) /\ (q + 4) - 4 = q /\ q \in 1 .. 8 /\ q <= 4
        OBVIOUS
      <4>2. All[q + 4] = Tables[(q + 4) - 4]
        BY <3>3, <4>1
      <4> QED
        BY <3>3, <4>1, <4>2
    <3> QED
      BY <3>3, <3>4
  <2>2. n \in Copies \/ \E q \in 1 .. 4 : Temps[q] = n
    BY DEF Names
  <2>3. \E q \in 1 .. 4 : Temps[q] = n \/ Tables[q] = n
    BY <2>2 DEF Copies
  <2> HIDE DEF All
  <2> QED
    BY <2>1, <2>3
<1> HIDE DEF All
<1> DEFINE p == CHOOSE q \in 1 .. 8 : All[q] = n
<1>3. p \in 1 .. 8
  BY <1>2
<1> HIDE DEF p
<1> DEFINE done == IF 8 - 1 * (p - 1) < 1 THEN 8 - 1 * (p - 1) ELSE 1
<1>4. done = 1
  BY <1>3
<1>5. Scripted(All, 1, 8)[n] =
        CASE done <= 0 -> db[n]
          [] done = 1 -> Absent
          [] done = 2 -> <<{}>>
          [] done = 3 -> <<Rows[n]>>
  BY <1>2 DEF Scripted, p
<1> HIDE DEF done
<1>6. Scripted(All, 1, 8)[n] = Absent
  BY <1>4, <1>5
<1> QED
  BY <1>6 DEF All

LEMMA AllCleared ==
  ASSUME \A n \in TempNames : db[n] = <<{}>>,
         \A t \in Copies : db[t] = <<Rows[t]>>
  PROVE  LET D == Cleared(8)
         IN  /\ \A t \in CallNames : D[t] = <<Rows[t]>>
             /\ D["linkedid_tmp"] = <<Linked(Rows["cdr"])>>
             /\ \A n \in TempNames \ {"linkedid_tmp"} : D[n] = <<{}>>
<1>0. {Calls[p] : p \in 1 .. 3} = CallNames
  BY DEF Calls, CallNames
<1>1. ASSUME NEW t \in CallNames PROVE Minus(t, 1) = <<Rows[t]>>
  <2>1. TempOf[t] \in TempNames /\ t \in Copies
    BY NamesAre
  <2>2. db[t][1] = Rows[t] /\ db[TempOf[t]][1] = {}
    BY <2>1
  <2>3. Minus(t, 1) = <<db[t][1] \ db[TempOf[t]][1]>>
    BY DEF Minus
  <2> QED
    BY <2>2, <2>3
<1>2. ASSUME NEW t \in CallNames PROVE Cleared(8)[t] = <<Rows[t]>>
  <2>1. \E q \in 1 .. 3 : Calls[q] = t
    BY <1>0
  <2> DEFINE p == CHOOSE q \in 1 .. 3 : Calls[q] = t
  <2>2. p \in 1 .. 3
    BY <2>1
  <2> HIDE DEF p
  <2>3. t \in Names /\ t \in {Calls[q] : q \in 1 .. 3}
    BY NamesAre, <1>0
  <2>4. Cleared(8)[t] = Minus(t, IF 8 >= p THEN 1 ELSE 0)
    BY <2>3 DEF Cleared, p
  <2>5. 8 >= p
    BY <2>2
  <2> QED
    BY <1>1, <2>4, <2>5
<1>3. Cleared(8)["linkedid_tmp"] = <<Linked(Rows["cdr"])>>
  <2>1. "linkedid_tmp" \in Names /\ "linkedid_tmp" \notin {Calls[q] : q \in 1 .. 3}
    BY NamesAre, <1>0 DEF TempNames, CallNames
  <2>2. Minus("cdr", 1)[1] = Rows["cdr"]
    BY <1>1 DEF CallNames
  <2>3. Cleared(8)["linkedid_tmp"] = <<Linked(Minus("cdr", 1)[1])>>
    BY <2>1 DEF Cleared
  <2> QED
    BY <2>2, <2>3
<1>4. ASSUME NEW n \in TempNames \ {"linkedid_tmp"} PROVE Cleared(8)[n] = <<{}>>
  <2>1. n \in Names /\ n \notin {Calls[q] : q \in 1 .. 3} /\ n # "wrapup"
    BY NamesAre, <1>0 DEF TempNames, CallNames
  <2>2. \E q \in 1 .. 4 : Temps[q] = n
    BY NamesAre
  <2> DEFINE p == CHOOSE q \in 1 .. 4 : Temps[q] = n
  <2>3. p \in 1 .. 4
    BY <2>2
  <2> HIDE DEF p
  <2>4. 8 >= 3 + p
    BY <2>3
  <2>5. Cleared(8)[n] = IF n # "wrapup" /\ 8 >= 3 + p THEN <<{}>> ELSE db[n]
    BY <2>1 DEF Cleared, p
  <2> QED
    BY <2>1, <2>4, <2>5
<1> QED
  BY <1>2, <1>3, <1>4

-----------------------------------------------------------------------------
(* The steps.                                                              *)

\* What does not depend on the step as long as the day and the directory stay.
LEMMA Stays ==
  ASSUME day' = day
  PROVE /\ Rows' = Rows /\ inittime' = inittime /\ Times("cdr")' = Times("cdr")
        /\ \A x, y : In(x, y)' = In(x, y)
        /\ current_dir' = current_dir => Ids' = Ids /\ \A t : Parts(t)' = Parts(t)
<1>1. Rows' = Rows
  BY DEF Rows
<1>2. Times("cdr")' = Times("cdr")
  BY <1>1 DEF Times
<1>3. inittime' = inittime
  BY <1>2 DEF inittime
<1>4. \A x, y : In(x, y)' = In(x, y)
  BY DEF In
<1>5. ASSUME current_dir' = current_dir PROVE Ids' = Ids /\ \A t : Parts(t)' = Parts(t)
  <2>1. Ids' = Ids
    BY <1>1, <1>5 DEF Ids, In
  <2> QED
    BY <1>1, <2>1 DEF Parts
<1> QED
  BY <1>1, <1>2, <1>3, <1>4, <1>5

LEMMA DInit ==
  ASSUME WInv, DInv, lcs_init_app PROVE DInv'
<1>1. /\ pc = "init" /\ pc' \in {"structure", "clear"} /\ day \in Days
      /\ UNCHANGED <<day, i, db, slot, current_dir, files, saved, err, exited, result>>
      /\ hidden' = hidden \/ hidden' = TRUE
  BY DEF lcs_init_app, WInv
<1>2. saved' = {} /\ files' = [t \in Copies |-> Absent] /\ (err' => hidden') /\ exited' = FALSE
  BY <1>1 DEF DInv, StartInv, Starting
<1>3. Rows' = Rows /\ inittime' = inittime /\ Times("cdr")' = Times("cdr")
  BY <1>1, Stays
<1>4. pc' = "structure" => Rows["cdr"] # {} /\ In(inittime, low')
  <2> SUFFICES ASSUME pc' = "structure" PROVE Rows["cdr"] # {} /\ In(inittime, low')
    OBVIOUS
  <2>1. Rows["cdr"] # {} /\ low' = lcs_get_range(inittime).low
    BY DEF lcs_init_app
  <2>2. inittime \in Nat /\ Step \in Nat \ {0}
    BY <1>1, <2>1, FirstCall, DownloaderAssumption
  <2>3. low' = inittime - (inittime % Step)
    BY <2>1 DEF lcs_get_range
  <2>4. inittime % Step \in 0 .. Step - 1
    BY <2>2
  <2> QED
    BY <2>1, <2>2, <2>3, <2>4 DEF In
<1>5. pc' = "clear" /\ ~hidden' => Done'
  <2> SUFFICES ASSUME pc' = "clear", ~hidden' PROVE Done'
    OBVIOUS
  <2>1. Rows["cdr"] = {}
    BY DEF lcs_init_app
  <2>2. Times("cdr") = {}
    BY <2>1 DEF Times
  <2> QED
    BY <1>3, <2>1, <2>2 DEF Done, AllSaved
<1>6. ShapeInv'
  BY <1>1 DEF DInv, ShapeInv, Looping
<1>7. StartInv'
  BY <1>1, <1>2, <1>3, <1>4 DEF StartInv, Starting, Looping, In
<1>8. TablesInv' /\ RoundInv' /\ RightDir'
  BY <1>1, <1>2 DEF TablesInv, RoundInv, RightDir, Looping
<1>9. EndInv'
  BY <1>1, <1>5 DEF DInv, EndInv
<1> QED
  BY <1>6, <1>7, <1>8, <1>9 DEF DInv

\* A list of statements of the start: without a hidden failure all its
\* statements were carried out.
LEMMA DBatch ==
  ASSUME DInv, NEW here \in Starting \ {"init"}, NEW next \in Starting \ {"init"},
         NEW n \in Nat, NEW after, Batch(here, next, n, after),
         \A k \in 0 .. n : after[k] = [m \in Names |-> after[k][m]],
         next \in {"data_tables", "param"} /\ ~hidden =>
           \A m \in TempNames : after[n][m] = <<{}>>,
         next = "param" /\ ~hidden => \A t \in Copies : after[n][t] = <<Rows[t]>>,
         next # "circle"
  PROVE DInv'
<1>1. /\ pc = here /\ pc' \in {next, "exit"}
      /\ UNCHANGED <<i, day, low, hi, current_dir, slot, files, saved, exited>>
  BY DEF Batch, Killed, data
<1>2. /\ saved = {} /\ files = [t \in Copies |-> Absent] /\ (err => hidden) /\ exited = FALSE
      /\ Rows["cdr"] # {} /\ In(inittime, low) /\ result = "none"
  BY <1>1 DEF DInv, StartInv, EndInv, Starting
<1>3. Rows' = Rows /\ inittime' = inittime /\ Times("cdr")' = Times("cdr")
  BY <1>1, Stays
<1>4. CASE pc' = "exit"
  <2>1. result' = "killed" /\ UNCHANGED <<db, hidden>>
    BY <1>1, <1>4 DEF Batch, Killed, Starting
  <2> QED
    BY <1>1, <1>2, <1>4, <2>1 DEF DInv, ShapeInv, StartInv, TablesInv, RoundInv, EndInv, RightDir,
                                  Starting, Looping
<1>5. CASE pc' = next
  <2>1. result' = result /\ (hidden' = hidden \/ hidden' = TRUE)
        /\ (err' => hidden')
        /\ (db' = db \/ \E k \in 0 .. n : db' = after[k])
        /\ (~hidden' => ~hidden /\ db' = after[n])
    <3>1. CASE err
      <4>1. UNCHANGED <<db, err, result, hidden>>
        BY <1>5, <3>1 DEF Batch, Killed, Starting
      <4> QED
        BY <1>2, <3>1, <4>1
    <3>2. CASE ~err
      <4>1. PICK k \in 0 .. n :
              /\ IF k = n THEN hidden' = hidden ELSE hidden' = TRUE
              /\ err' = (k < n) /\ db' = after[k] /\ result' = result
        BY <1>5, <3>2 DEF Batch, Killed, Starting, Sound, Fault
      <4>2. k = n => ~(k < n)
        OBVIOUS
      <4>3. CASE k = n
        BY <4>1, <4>2, <4>3
      <4>4. CASE k # n
        BY <4>1, <4>4
      <4> QED
        BY <4>3, <4>4
    <3> QED
      BY <3>1, <3>2
  <2>2. ShapeInv'
    <3>1. db' = [m \in Names |-> db'[m]]
      BY <2>1 DEF DInv, ShapeInv
    <3> QED
      BY <1>1, <1>5, <3>1 DEF DInv, ShapeInv, Starting, Looping
  <2>3. StartInv'
    <3>1. ~hidden' /\ next \in {"data_tables", "param"} => \A m \in TempNames : db'[m] = <<{}>>
      BY <2>1
    <3>2. ~hidden' /\ next = "param" => \A t \in Copies : db'[t] = <<Rows[t]>>
      BY <2>1
    <3> QED
      BY <1>1, <1>2, <1>3, <1>5, <2>1, <3>1, <3>2 DEF StartInv, Starting, Looping, In
  <2>4. TablesInv' /\ RoundInv' /\ RightDir' /\ EndInv'
    BY <1>1, <1>2, <1>5, <2>1 DEF TablesInv, RoundInv, RightDir, EndInv, Starting, Looping
  <2> QED
    BY <2>2, <2>3, <2>4 DEF DInv
<1> QED
  BY <1>1, <1>4, <1>5

LEMMA DStart ==
  ASSUME DInv, lcs_gen_structure \/ lcs_init_tmp \/ lcs_gen_data_tables
  PROVE  DInv'
<1>1. CASE lcs_gen_structure
  <2>1. db = [m \in Names |-> db[m]]
    BY DEF DInv, ShapeInv
  <2> DEFINE after == [k \in 0 .. 3 |-> db]
  <2>2. \A k \in 0 .. 3 : after[k] = db
    OBVIOUS
  <2>3. Batch("structure", "init_tmp", 3, after)
    BY <1>1 DEF lcs_gen_structure
  <2> HIDE DEF after
  <2>4. \A k \in 0 .. 3 : after[k] = [m \in Names |-> after[k][m]]
    BY <2>1, <2>2
  <2>5. "structure" \in Starting \ {"init"} /\ "init_tmp" \in Starting \ {"init"} /\ 3 \in Nat
    BY DEF Starting
  <2> QED
    BY <2>3, <2>4, <2>5, DBatch
<1>2. CASE lcs_init_tmp
  <2> DEFINE after == [k \in 0 .. 8 |-> Scripted(Temps, 2, k)]
  <2>1. after[8] = Scripted(Temps, 2, 8)
    OBVIOUS
  <2>2. ASSUME NEW k \in 0 .. 8 PROVE after[k] = [m \in Names |-> after[k][m]]
    <3>1. after[k] = Scripted(Temps, 2, k)
      OBVIOUS
    <3>2. Scripted(Temps, 2, k) = [m \in Names |-> Scripted(Temps, 2, k)[m]]
      BY ScriptedShape
    <3> QED
      BY <3>1, <3>2
  <2>3. Batch("init_tmp", "data_tables", 8, after)
    BY <1>2 DEF lcs_init_tmp
  <2> HIDE DEF after
  <2>4. \A m \in TempNames : after[8][m] = <<{}>>
    BY <2>1, TempsMade
  <2>5. "init_tmp" \in Starting \ {"init"} /\ "data_tables" \in Starting \ {"init"} /\ 8 \in Nat
    BY DEF Starting
  <2> QED
    BY <2>2, <2>3, <2>4, <2>5, DBatch
<1>3. CASE lcs_gen_data_tables
  <2> DEFINE after == [k \in 0 .. 12 |-> Scripted(Tables, 3, k)]
  <2>1. after[12] = Scripted(Tables, 3, 12)
    OBVIOUS
  <2>2. ASSUME NEW k \in 0 .. 12 PROVE after[k] = [m \in Names |-> after[k][m]]
    <3>1. after[k] = Scripted(Tables, 3, k)
      OBVIOUS
    <3>2. Scripted(Tables, 3, k) = [m \in Names |-> Scripted(Tables, 3, k)[m]]
      BY ScriptedShape
    <3> QED
      BY <3>1, <3>2
  <2>3. Batch("data_tables", "param", 12, after)
    BY <1>3 DEF lcs_gen_data_tables
  <2> HIDE DEF after
  <2>4. \A t \in Copies : after[12][t] = <<Rows[t]>>
    BY <2>1, CopiesMade
  <2>5. ASSUME ~hidden PROVE \A m \in TempNames : after[12][m] = <<{}>>
    <3>1. pc = "data_tables"
      BY <2>3 DEF Batch
    <3>2. \A m \in TempNames : db[m] = <<{}>>
      BY <2>5, <3>1 DEF DInv, StartInv
    <3> QED
      BY <2>1, <3>2, CopiesMade
  <2>6. "data_tables" \in Starting \ {"init"} /\ "param" \in Starting \ {"init"} /\ 12 \in Nat
    BY DEF Starting
  <2> QED
    BY <2>2, <2>3, <2>4, <2>5, <2>6, DBatch
<1> QED
  BY <1>1, <1>2, <1>3

LEMMA DParam ==
  ASSUME DInv, lcs_init_param PROVE DInv'
<1>1. /\ pc = "param" /\ pc' = "circle"
      /\ UNCHANGED <<i, day, low, current_dir, db, files, saved, err, exited, result, hidden>>
  BY DEF lcs_init_param, data
<1>2. Rows' = Rows /\ inittime' = inittime
  BY <1>1, Stays
<1>3. ShapeInv' /\ TablesInv' /\ RoundInv' /\ EndInv'
  BY <1>1 DEF DInv, ShapeInv, TablesInv, RoundInv, EndInv, Looping
<1>4. StartInv'
  BY <1>1, <1>2 DEF DInv, StartInv, Starting, Looping, In
<1>5. RightDir'
  BY <1>1, <1>2 DEF DInv, RightDir, In
<1> QED
  BY <1>3, <1>4, <1>5 DEF DInv

LEMMA DCircle ==
  ASSUME WInv, DInv, lcs_init_circle PROVE DInv'
<1>1. /\ pc = "circle" /\ pc' \in {"history", "exit"}
      /\ UNCHANGED <<day, i, low, hi, files, saved, exited>>
      /\ hidden' = hidden \/ hidden' = TRUE
      /\ db' = db \/ \E k \in 0 .. 8 : db' = Cleared(k)
  BY DEF lcs_init_circle, Killed
<1>2. /\ saved = {} /\ files = [t \in Copies |-> Absent] /\ exited = FALSE /\ result = "none"
      /\ Rows["cdr"] # {} /\ In(inittime, low)
  BY <1>1 DEF DInv, StartInv, EndInv, Starting
<1>3. Rows' = Rows /\ inittime' = inittime
  BY <1>1, Stays
<1>4. low \in Nat /\ hi = low + Step
  BY <1>1 DEF WInv, Before
<1>5. db' = [n \in Names |-> db'[n]]
  <2>1. \A k \in 0 .. 8 : Cleared(k) = [n \in Names |-> Cleared(k)[n]]
    BY DEF Cleared
  <2>2. db = [n \in Names |-> db[n]]
    BY DEF DInv, ShapeInv
  <2> QED
    BY <1>1, <2>1, <2>2
<1>6. StartInv'
  BY <1>1, <1>2 DEF StartInv, Starting, Looping
<1>7. RightDir'
  BY <1>1, <1>2 DEF RightDir
<1>8. CASE pc' = "exit"
  <2>1. result' = "killed"
    BY <1>1, <1>8 DEF lcs_init_circle, Killed
  <2>2. ShapeInv' /\ TablesInv' /\ RoundInv' /\ EndInv'
    BY <1>1, <1>5, <1>8, <2>1 DEF DInv, ShapeInv, TablesInv, RoundInv, EndInv, Looping
  <2> QED
    BY <1>6, <1>7, <2>2 DEF DInv
<1>9. CASE pc' = "history"
  <2>1. current_dir' = low /\ result' = result
    BY <1>9 DEF lcs_init_circle, Killed
  <2>2. ShapeInv'
    BY <1>1, <1>4, <1>5, <2>1 DEF DInv, ShapeInv
  <2>3. RoundInv' /\ EndInv'
    BY <1>1, <1>2, <1>9, <2>1 DEF RoundInv, EndInv
  <2>4. TablesInv'
    <3> SUFFICES ASSUME ~hidden' PROVE
          /\ Rows["cdr"] # {} /\ In(inittime, low)
          /\ db'["linkedid_tmp"] = <<Ids'>>
          /\ \A t \in CallNames :
               /\ db'[t] = <<Rows[t]>> /\ db'[TempOf[t]] = <<db'[TempOf[t]][1]>>
               /\ files'[t] = Absent
      BY <1>3, <2>1 DEF TablesInv, In
    <3>1. ~hidden /\ db' = Cleared(8)
      BY <1>1, <1>9 DEF lcs_init_circle, Killed
    <3>2. (\A n \in TempNames : db[n] = <<{}>>) /\ \A t \in Copies : db[t] = <<Rows[t]>>
      BY <1>1, <3>1 DEF DInv, StartInv
    <3>3. /\ \A t \in CallNames : db'[t] = <<Rows[t]>>
          /\ db'["linkedid_tmp"] = <<Linked(Rows["cdr"])>>
          /\ \A n \in TempNames \ {"linkedid_tmp"} : db'[n] = <<{}>>
      BY <3>1, <3>2, AllCleared
    <3>4. Ids' = Linked(Rows["cdr"])
      BY <1>3, <1>4, <2>1 DEF Ids, Linked, In
    <3>5. ASSUME NEW t \in CallNames
          PROVE  db'[TempOf[t]] = <<db'[TempOf[t]][1]>> /\ files'[t] = Absent
      <4>1. TempOf[t] \in TempNames \ {"linkedid_tmp"} /\ t \in Copies
        BY NamesAre
      <4>2. db'[TempOf[t]] = <<{}>>
        BY <3>3, <4>1
      <4> QED
        BY <1>1, <1>2, <4>1, <4>2
    <3> QED
      BY <1>2, <3>3, <3>4, <3>5
  <2> QED
    BY <1>6, <1>7, <2>2, <2>3, <2>4 DEF DInv
<1> QED
  BY <1>1, <1>8, <1>9

LEMMA DHistory ==
  ASSUME DInv, lcs_clear_history PROVE DInv'
<1>1. /\ pc = "history" /\ pc' \in {"outtime", "exit"} /\ exited = FALSE /\ result = "none"
      /\ UNCHANGED <<i, day, low, hi, current_dir, files, saved, exited, hidden>>
      /\ \/ db' = db
         \/ db' = [db EXCEPT !["wrapup"][1] = {r \in @ : r.time >= low}]
  <2>1. /\ pc = "history" /\ pc' \in {"outtime", "exit"}
        /\ UNCHANGED <<i, day, low, hi, current_dir, files, saved, exited, hidden>>
    BY DEF lcs_clear_history, data, Killed
  <2>2. exited = FALSE /\ result = "none"
    BY <2>1 DEF DInv, EndInv, StartInv, Looping
  <2>3. \/ db' = db
        \/ db' = [db EXCEPT !["wrapup"][1] = {r \in @ : r.time >= low}]
    BY Zenon DEF lcs_clear_history
  <2> QED
    BY <2>1, <2>2, <2>3
<1>2. /\ Rows' = Rows /\ inittime' = inittime /\ \A x, y : In(x, y)' = In(x, y)
      /\ Ids' = Ids /\ \A t : Parts(t)' = Parts(t)
  BY <1>1, Stays
<1>3. db' = [n \in Names |-> db'[n]] /\ \A n \in Names \ {"wrapup"} : db'[n] = db[n]
  BY <1>1 DEF DInv, ShapeInv
<1>4. StartInv'
  BY <1>1 DEF StartInv, Starting, Looping
<1>5. RightDir'
  BY <1>1, <1>2 DEF DInv, RightDir
<1>6. ShapeInv'
  BY <1>1, <1>3 DEF DInv, ShapeInv, Looping
<1>7. CASE pc' = "exit"
  <2>1. result' = "killed"
    BY <1>7 DEF lcs_clear_history, Killed
  <2>2. TablesInv' /\ RoundInv' /\ EndInv'
    BY <1>7, <2>1 DEF TablesInv, RoundInv, EndInv, Looping
  <2> QED
    BY <1>4, <1>5, <1>6, <2>2 DEF DInv
<1>8. CASE pc' = "outtime"
  <2>1. result' = result /\ slot' = "conn" /\ slot = "conn"
    BY <1>8 DEF lcs_clear_history, Killed, Read
  <2>2. EndInv'
    BY <1>1, <1>8, <2>1 DEF EndInv
  <2>3. \A t \in CallNames : t \in Names \ {"wrapup"} /\ TempOf[t] \in Names \ {"wrapup"}
    BY NamesAre DEF CallNames, TempNames
  <2>4. "linkedid_tmp" \in Names \ {"wrapup"} /\ "cdr_tmp" \in Names \ {"wrapup"}
    BY NamesAre DEF TempNames
  <2>5. TablesInv'
    <3> SUFFICES ASSUME ~hidden PROVE
          /\ Rows["cdr"] # {} /\ In(inittime, current_dir)
          /\ db'["linkedid_tmp"] = <<Ids>>
          /\ \A t \in CallNames :
               /\ db'[t] = <<Rows[t]>> /\ db'[TempOf[t]] = <<db'[TempOf[t]][1]>>
               /\ files[t] = Absent \/ files[t] = <<Parts(t)>>
      BY <1>1, <1>2 DEF TablesInv
    <3>1. /\ Rows["cdr"] # {} /\ In(inittime, current_dir)
          /\ db["linkedid_tmp"] = <<Ids>>
          /\ \A t \in CallNames :
               /\ db[t] = <<Rows[t]>> /\ db[TempOf[t]] = <<db[TempOf[t]][1]>>
               /\ files[t] = Absent \/ files[t] = <<Parts(t)>>
      BY <1>1 DEF DInv, TablesInv, Looping
    <3> QED
      BY <1>3, <2>3, <2>4, <3>1
  <2>6. RoundInv'
    <3>1. Taken => Taken'
      BY <1>1, <1>2, <1>3, <2>4 DEF Taken
    <3>2. CdrSaved => CdrSaved'
      BY <1>1, <1>2 DEF CdrSaved
    <3> QED
      BY <1>1, <1>8, <2>1, <3>1, <3>2 DEF DInv, RoundInv
  <2> QED
    BY <1>4, <1>5, <1>6, <2>2, <2>5, <2>6 DEF DInv
<1> QED
  BY <1>1, <1>7, <1>8

\* Out of time at the first window is impossible; at the second one all calls of
\* the day are in the first and saved.
LEMMA OuttimeDone ==
  ASSUME WInv, DInv, pc = "outtime", outtime, ~hidden PROVE Done
<1>1. day \in Days /\ low \in Nat
  BY DEF WInv
<1>2. /\ Rows["cdr"] # {} /\ In(inittime, current_dir) /\ current_dir \in Nat
      /\ low = current_dir \/ (low = current_dir + Step /\ CdrSaved)
  BY DEF DInv, TablesInv, RoundInv, ShapeInv, Looping
<1>3. inittime \in Nat /\ inittime \in Times("cdr") /\ \A x \in Times("cdr") : inittime <= x
  BY <1>1, <1>2, FirstCall
<1>4. \A x \in Times("cdr") : x \in Nat /\ x <= endtime
  BY <1>1, LastCall, DayTimes
<1>5. endtime \in Nat /\ low > endtime
  BY <1>1, <1>3, LastCall DEF outtime
<1>6. current_dir <= inittime
  BY <1>2 DEF In
<1>7. low = current_dir + Step /\ CdrSaved
  BY <1>1, <1>2, <1>3, <1>4, <1>5, <1>6
<1>8. ASSUME NEW x \in Times("cdr") PROVE In(x, current_dir)
  <2>1. x \in Nat /\ x <= endtime /\ inittime <= x
    BY <1>3, <1>4
  <2>2. current_dir <= x /\ x < current_dir + Step
    BY <1>2, <1>3, <1>5, <1>6, <1>7, <2>1, DownloaderAssumption
  <2> QED
    BY <2>2 DEF In
<1>9. ASSUME NEW r \in Rows["cdr"] PROVE <<"cdr", r>> \in saved
  <2>1. r.time \in Times("cdr")
    BY DEF Times
  <2>2. r.linkedid \in Ids
    BY <1>8, <2>1 DEF Ids
  <2>3. r \in Parts("cdr")
    BY <2>2 DEF Parts
  <2> QED
    BY <1>7, <2>3 DEF CdrSaved
<1> QED
  BY <1>8, <1>9 DEF Done, AllSaved

LEMMA DOuttime ==
  ASSUME WInv, DInv, lcs_get_outtime PROVE DInv'
<1>1. /\ pc = "outtime" /\ i' = 1 /\ result = "none" /\ exited = FALSE
      /\ UNCHANGED <<day, low, hi, db, slot, current_dir, files, saved, result, hidden>>
      /\ exited' = (exited \/ outtime)
      /\ pc' = IF outtime THEN "close" ELSE "backup"
  BY DEF lcs_get_outtime, DInv, EndInv, StartInv, Looping
<1>2. /\ Rows' = Rows /\ inittime' = inittime /\ Times("cdr")' = Times("cdr")
      /\ Ids' = Ids /\ \A t : Parts(t)' = Parts(t)
      /\ \A x, y : In(x, y)' = In(x, y)
  BY <1>1, Stays
<1>3. ShapeInv'
  BY <1>1 DEF DInv, ShapeInv, Looping
<1>4. RightDir'
  BY <1>1, <1>2 DEF DInv, RightDir
<1>5. CASE outtime
  <2>1. ~hidden => Done'
    <3>1. ~hidden => Done
      BY <1>1, <1>5, OuttimeDone
    <3> QED
      BY <1>1, <1>2, <3>1 DEF Done, AllSaved
  <2>2. pc' = "close"
    BY <1>1, <1>5
  <2>3. StartInv' /\ TablesInv' /\ RoundInv'
    BY <1>1, <2>2 DEF StartInv, TablesInv, RoundInv, Starting, Looping
  <2>4. EndInv'
    BY <1>1, <2>1, <2>2 DEF EndInv
  <2> QED
    BY <1>3, <1>4, <2>3, <2>4 DEF DInv
<1>6. CASE ~outtime
  <2>1. pc' = "backup" /\ exited' = FALSE
    BY <1>1, <1>6
  <2>2. StartInv' /\ EndInv'
    BY <1>1, <2>1 DEF StartInv, EndInv, Starting, Looping
  <2>3. TablesInv'
    BY <1>1, <1>2, <2>1 DEF DInv, TablesInv, Looping
  <2>4. RoundInv'
    <3>1. Taken => Taken'
      BY <1>1, <1>2 DEF Taken
    <3> QED
      BY <1>1, <2>1, <3>1 DEF DInv, RoundInv
  <2> QED
    BY <1>3, <1>4, <2>2, <2>3, <2>4 DEF DInv
<1> QED
  BY <1>5, <1>6

\* One round's copy of a table of calls, without a hidden failure and in the
\* window of the directory.
LEMMA Copied ==
  ASSUME DInv, pc = "backup", ~hidden, NEW t \in CallNames
  PROVE  /\ Selected(t) = Parts(t) /\ Moved(t) \subseteq Parts(t)
         /\ Inserted(t) = [n \in Names |-> Inserted(t)[n]]
         /\ Inserted(t)[TempOf[t]] = <<db[TempOf[t]][1] \cup Moved(t)>>
         /\ \A n \in Names \ {TempOf[t]} : Inserted(t)[n] = db[n]
<1>1. /\ db["linkedid_tmp"] = <<Ids>> /\ db[t] = <<Rows[t]>>
      /\ db[TempOf[t]] = <<db[TempOf[t]][1]>>
  BY DEF DInv, TablesInv, Looping
<1>2. db["linkedid_tmp"][1] = Ids /\ db[t][1] = Rows[t] /\ t # "wrapup" /\ TempOf[t] \in Names
  BY <1>1, NamesAre DEF CallNames
<1>3. Selected(t) = Parts(t) /\ Moved(t) \subseteq Parts(t)
  BY <1>2 DEF Selected, Parts, Moved
<1>4. Inserted(t) = [db EXCEPT ![TempOf[t]][1] = @ \cup Moved(t)]
  BY <1>2 DEF Inserted
<1>5. db = [n \in Names |-> db[n]]
  BY DEF DInv, ShapeInv
<1>6. \A X, Y : [<<X>> EXCEPT ![1] = Y] = <<Y>>
  OBVIOUS
<1> DEFINE n0 == TempOf[t]
           S == db[n0][1] \cup Moved(t)
<1>7. Inserted(t) = [n \in Names |-> IF n = n0 THEN [db[n0] EXCEPT ![1] = S] ELSE db[n]]
  BY <1>2, <1>4, <1>5
<1>8. [db[n0] EXCEPT ![1] = S] = <<S>>
  <2> HIDE DEF S, n0
  <2>1. db[n0] = <<db[n0][1]>>
    BY <1>1 DEF n0
  <2> QED
    BY <1>6, <2>1
<1> HIDE DEF S
<1>9. Inserted(t) = [n \in Names |-> IF n = n0 THEN <<S>> ELSE db[n]]
  BY <1>7, <1>8
<1>10. /\ Inserted(t) = [n \in Names |-> Inserted(t)[n]]
       /\ Inserted(t)[n0] = <<S>>
       /\ \A n \in Names \ {n0} : Inserted(t)[n] = db[n]
  <2> HIDE DEF n0
  <2>1. n0 \in Names
    BY <1>2 DEF n0
  <2> QED
    BY <1>9, <2>1
<1> QED
  BY <1>3, <1>10 DEF S

\* The second round finds the ids of the first one taken.
LEMMA SecondRound ==
  ASSUME WInv, DInv, pc = "backup", ~hidden, slot = "conn", low = current_dir + Step, Taken
  PROVE  ~Insertable("cdr")
<1>1. low \in Nat /\ hi = low + Step /\ day \in Days /\ current_dir \in Nat
  BY DEF WInv, DInv, ShapeInv, During, Looping
<1>2. Step \in Nat /\ Lag \in Nat
  BY DownloaderAssumption
<1>3. "cdr" \in CallNames
  BY DEF CallNames
<1>4. db["linkedid_tmp"] = <<Ids>> /\ db["cdr"] = <<Rows["cdr"]>>
  BY <1>3 DEF DInv, TablesInv, Looping
<1>5. PICK r \in Parts("cdr") : r.time < current_dir + Step /\ r \in db["cdr_tmp"][1]
  BY DEF Taken
<1>6. r \in Rows["cdr"] /\ r.linkedid \in Ids
  BY <1>5 DEF Parts
<1>7. r.time \in Nat
  BY <1>1, <1>6, DayTimes DEF Times
<1>8. r.time < hi + Lag
  BY <1>1, <1>2, <1>5, <1>7
<1>9. r \in Moved("cdr") /\ r \in db[TempOf["cdr"]][1]
  BY <1>4, <1>5, <1>6, <1>8, NamesAre DEF Moved
<1> QED
  BY <1>9 DEF Insertable, Duplicate

\* The first round takes at least the first call.
LEMMA FirstRound ==
  ASSUME WInv, DInv, pc = "backup", ~hidden, low = current_dir
  PROVE  \E r \in Parts("cdr") : r.time < current_dir + Step /\ r \in Moved("cdr")
<1>1. low \in Nat /\ hi = low + Step /\ day \in Days /\ current_dir \in Nat
  BY DEF WInv, DInv, ShapeInv, During, Looping
<1>2. Step \in Nat /\ Lag \in Nat
  BY DownloaderAssumption
<1>3. "cdr" \in CallNames
  BY DEF CallNames
<1>4. /\ db["linkedid_tmp"] = <<Ids>> /\ db["cdr"] = <<Rows["cdr"]>>
      /\ Rows["cdr"] # {} /\ In(inittime, current_dir)
  BY <1>3 DEF DInv, TablesInv, Looping
<1>5. inittime \in Nat /\ inittime \in Times("cdr")
  BY <1>1, <1>4, FirstCall
<1>6. PICK r \in Rows["cdr"] : r.time = inittime
  BY <1>5 DEF Times
<1>7. r.linkedid \in Ids /\ r \in Parts("cdr")
  BY <1>4, <1>6 DEF Ids, Parts
<1>8. r.time < current_dir + Step /\ r.time < hi + Lag
  BY <1>1, <1>2, <1>4, <1>5, <1>6 DEF In
<1>9. r \in Moved("cdr")
  BY <1>4, <1>6, <1>7, <1>8 DEF Moved
<1> QED
  BY <1>7, <1>8, <1>9

LEMMA DTab ==
  ASSUME WInv, DInv, lcs_get_tab PROVE DInv'
<1> DEFINE t == Tables[i]
<1>1. /\ pc = "backup" /\ pc' \in {"backup", "exit"} /\ i \in 1 .. 4 /\ i' \in {i, i + 1}
      /\ UNCHANGED <<day, low, hi, current_dir, saved, exited>>
      /\ exited = FALSE /\ result = "none"
  <2>1. /\ pc = "backup" /\ i <= 4 /\ pc' \in {"backup", "exit"} /\ i' \in {i, i + 1}
        /\ UNCHANGED <<day, low, hi, current_dir, saved, exited>>
    BY DEF lcs_get_tab, Killed, data
  <2> QED
    BY <2>1 DEF DInv, EndInv, StartInv, ShapeInv, Looping
<1>2. /\ t \in Copies /\ (i = 1 => t = "cdr") /\ (t = "cdr" => i = 1)
      /\ t \in CallNames \/ t = "wrapup"
  <2>1. i = 1 \/ i = 2 \/ i = 3 \/ i = 4
    BY <1>1
  <2>2. t \in CallNames \cup {"wrapup"} /\ (i = 1 => t = "cdr") /\ (t = "cdr" => i = 1)
    BY <2>1, TablesAre DEF CallNames
  <2> QED
    BY <2>2, NamesAre
<1> HIDE DEF t
<1>3. /\ Rows' = Rows /\ inittime' = inittime /\ Times("cdr")' = Times("cdr")
      /\ Ids' = Ids /\ \A u : Parts(u)' = Parts(u)
      /\ \A x, y : In(x, y)' = In(x, y)
  BY <1>1, Stays
<1>4. /\ db' = db \/ db' = Inserted(t)
      /\ files' = files \/ files' = [files EXCEPT ![t] = <<Selected(t)>>]
      /\ hidden' = hidden \/ hidden' = TRUE
  BY DEF lcs_get_tab, Killed, Query, t
<1>5. RightDir'
  BY <1>1, <1>3, <1>4 DEF DInv, RightDir
<1>6. StartInv'
  BY <1>1 DEF StartInv, Starting, Looping
<1>7. ShapeInv'
  <2>1. db = [n \in Names |-> db[n]] /\ files = [u \in Copies |-> files[u]] /\ current_dir \in Nat
    BY <1>1 DEF DInv, ShapeInv, Looping
  <2>2. db' = [n \in Names |-> db'[n]]
    <3>1. \A x, y : [db EXCEPT ![x] = y] = [n \in Names |-> [db EXCEPT ![x] = y][n]]
      BY <2>1
    <3>2. Inserted(t) = [n \in Names |-> Inserted(t)[n]]
      BY <2>1, <3>1 DEF Inserted
    <3> QED
      BY <1>4, <2>1, <3>2
  <2>3. files' = [u \in Copies |-> files'[u]]
    BY <1>4, <2>1
  <2>4. i' \in 1 .. 5
    BY <1>1
  <2> QED
    BY <1>1, <2>1, <2>2, <2>3, <2>4 DEF ShapeInv
<1>8. CASE pc' = "exit"
  <2>1. result' = "killed"
    BY <1>1, <1>8 DEF lcs_get_tab, Killed
  <2>2. TablesInv' /\ RoundInv' /\ EndInv'
    BY <1>8, <2>1 DEF TablesInv, RoundInv, EndInv, Looping
  <2> QED
    BY <1>5, <1>6, <1>7, <2>2 DEF DInv
<1>9. CASE pc' = "backup"
  <2>1. result' = result /\ i' = i + 1
    BY <1>9 DEF lcs_get_tab, Killed
  <2>2. EndInv'
    BY <1>1, <1>9, <2>1 DEF EndInv
  <2>3. ASSUME ~hidden'
        PROVE  /\ \A u \in CallNames : db'[u] = db[u] /\ db'["linkedid_tmp"] = db["linkedid_tmp"]
               /\ \A u \in CallNames : db'[TempOf[u]] = <<db'[TempOf[u]][1]>>
                                       /\ db[TempOf[u]][1] \subseteq db'[TempOf[u]][1]
               /\ \A u \in CallNames : files'[u] \in {files[u], <<Parts(u)>>}
    <3>1. ~hidden
      BY <1>4, <2>3
    <3>2. \A u \in CallNames : db[TempOf[u]] = <<db[TempOf[u]][1]>>
      BY <1>1, <3>1 DEF DInv, TablesInv, Looping
    <3>3. /\ \A u \in CallNames : u \in Copies /\ u \in Names /\ u \notin TempNames
                                  /\ TempOf[u] \in TempNames \ {"linkedid_tmp"}
          /\ TempNames \subseteq Names /\ "linkedid_tmp" \in TempNames
      BY NamesAre DEF CallNames, TempNames
    <3>4. CASE t = "wrapup"
      <4>1. db' = db
        BY <1>4, <3>4 DEF Inserted
      <4>2. \A u \in CallNames : files'[u] = files[u]
        <5>1. \A u \in CallNames : u # t
          BY <3>4 DEF CallNames
        <5>2. files = [u \in Copies |-> files[u]]
          BY DEF DInv, ShapeInv
        <5> QED
          BY <1>4, <3>3, <5>1, <5>2
      <4> QED
        BY <3>2, <4>1, <4>2
    <3>5. CASE t \in CallNames
      <4>1. /\ Selected(t) = Parts(t)
            /\ Inserted(t)[TempOf[t]] = <<db[TempOf[t]][1] \cup Moved(t)>>
            /\ \A n \in Names \ {TempOf[t]} : Inserted(t)[n] = db[n]
        BY <1>1, <3>1, <3>5, Copied
      <4>2. \A u \in CallNames : files'[u] \in {files[u], <<Parts(u)>>}
        <5>1. files = [u \in Copies |-> files[u]]
          BY DEF DInv, ShapeInv
        <5> QED
          BY <1>2, <1>4, <3>3, <4>1, <5>1
      <4>3. \A u \in CallNames : db'[u] = db[u] /\ db'["linkedid_tmp"] = db["linkedid_tmp"]
        BY <1>4, <3>3, <3>5, <4>1
      <4>4. ASSUME NEW u \in CallNames
            PROVE  db'[TempOf[u]] = <<db'[TempOf[u]][1]>>
                   /\ db[TempOf[u]][1] \subseteq db'[TempOf[u]][1]
        <5>1. CASE db' = db
          BY <3>2, <5>1
        <5>2. CASE db' = Inserted(t) /\ TempOf[u] # TempOf[t]
          <6>1. db'[TempOf[u]] = db[TempOf[u]]
            BY <3>3, <4>1, <5>2
          <6> QED
            BY <3>2, <6>1
        <5>3. CASE db' = Inserted(t) /\ TempOf[u] = TempOf[t]
          <6>1. db'[TempOf[u]] = <<db[TempOf[u]][1] \cup Moved(t)>>
            BY <4>1, <5>3
          <6> QED
            BY <6>1
        <5> QED
          BY <1>4, <5>1, <5>2, <5>3
      <4> QED
        BY <4>2, <4>3, <4>4
    <3> QED
      BY <1>2, <3>4, <3>5
  <2>4. TablesInv'
    <3> SUFFICES ASSUME ~hidden' PROVE
          /\ Rows["cdr"] # {} /\ In(inittime, current_dir)
          /\ db'["linkedid_tmp"] = <<Ids>>
          /\ \A u \in CallNames :
               /\ db'[u] = <<Rows[u]>> /\ db'[TempOf[u]] = <<db'[TempOf[u]][1]>>
               /\ files'[u] = Absent \/ files'[u] = <<Parts(u)>>
      BY <1>1, <1>3 DEF TablesInv
    <3>1. ~hidden /\ "cdr" \in CallNames
      BY <1>4 DEF CallNames
    <3>2. /\ Rows["cdr"] # {} /\ In(inittime, current_dir)
          /\ db["linkedid_tmp"] = <<Ids>>
          /\ \A u \in CallNames :
               db[u] = <<Rows[u]>> /\ (files[u] = Absent \/ files[u] = <<Parts(u)>>)
      BY <1>1, <3>1 DEF DInv, TablesInv, Looping
    <3> QED
      BY <2>3, <3>1, <3>2
  <2>5. RoundInv'
    <3> SUFFICES ASSUME ~hidden', slot' = "conn"
                 PROVE  low = current_dir /\ files'["cdr"] = <<Parts("cdr")>> /\ Taken'
      BY <1>1, <1>3, <1>9 DEF RoundInv
    <3>1. /\ ~hidden /\ slot = "conn"
          /\ IF t = "wrapup" THEN db[t] # Absent ELSE Insertable(t)
          /\ db' = Inserted(t) /\ files' = [files EXCEPT ![t] = <<Selected(t)>>]
      BY <1>9 DEF lcs_get_tab, Killed, Query, Read, t
    <3>2. "cdr" \in CallNames /\ "cdr" \in Copies /\ TempOf["cdr"] = "cdr_tmp"
      BY NamesAre DEF CallNames
    <3>3. low = current_dir /\ (i > 1 => files["cdr"] = <<Parts("cdr")>> /\ Taken)
      <4>1. \/ low = current_dir /\ (i > 1 => files["cdr"] = <<Parts("cdr")>> /\ Taken)
            \/ i = 1 /\ low = current_dir + Step /\ Taken
        BY <1>1, <3>1 DEF DInv, RoundInv
      <4>2. ~(i = 1 /\ low = current_dir + Step /\ Taken)
        <5> SUFFICES ASSUME i = 1, low = current_dir + Step, Taken PROVE FALSE
          OBVIOUS
        <5>1. t = "cdr"
          BY <1>2
        <5>2. Insertable("cdr")
          BY <3>1, <5>1
        <5> QED
          BY <1>1, <3>1, <5>2, SecondRound
      <4> QED
        BY <4>1, <4>2
    <3>4. files = [u \in Copies |-> files[u]]
      BY DEF DInv, ShapeInv
    <3>5. db["cdr_tmp"][1] \subseteq db'["cdr_tmp"][1]
      BY <2>3, <3>2
    <3>6. CASE i = 1
      <4>1. t = "cdr"
        BY <1>2, <3>6
      <4>2. /\ Selected("cdr") = Parts("cdr")
            /\ Inserted("cdr")[TempOf["cdr"]] = <<db[TempOf["cdr"]][1] \cup Moved("cdr")>>
        BY <1>1, <3>1, <3>2, Copied
      <4>3. files'["cdr"] = <<Parts("cdr")>>
        BY <3>1, <3>2, <3>4, <4>1, <4>2
      <4>4. db'["cdr_tmp"][1] = db["cdr_tmp"][1] \cup Moved("cdr")
        BY <3>1, <3>2, <4>1, <4>2
      <4>5. Taken'
        BY <1>1, <1>3, <3>1, <3>3, <4>4, FirstRound DEF Taken
      <4> QED
        BY <3>3, <4>3, <4>5
    <3>7. CASE i # 1
      <4>1. t # "cdr" /\ i > 1
        BY <1>1, <1>2, <3>7
      <4>2. files'["cdr"] = files["cdr"]
        BY <3>1, <3>2, <3>4, <4>1
      <4>3. Taken'
        BY <1>1, <1>3, <3>3, <3>5, <4>1 DEF Taken
      <4> QED
        BY <3>3, <4>1, <4>2, <4>3
    <3> QED
      BY <3>6, <3>7
  <2> QED
    BY <1>5, <1>6, <1>7, <2>2, <2>4, <2>5 DEF DInv
<1> QED
  BY <1>1, <1>8, <1>9

\* What is loaded comes from the files, and they hold rows of the right calls.
LEMMA DMoving ==
  ASSUME DInv, lcs_moving_param PROVE DInv'
<1>1. /\ pc = "backup" /\ i = 5 /\ pc' = "end" /\ exited = FALSE /\ result = "none"
      /\ UNCHANGED <<i, day, low, hi, current_dir, db, slot, files, exited, result>>
      /\ hidden' = hidden \/ hidden' = TRUE
      /\ ~hidden' => saved' = Loaded
  <2>1. pc = "backup" /\ exited = FALSE /\ result = "none"
    BY DEF lcs_moving_param, DInv, EndInv, StartInv, Looping
  <2> QED
    BY <2>1 DEF lcs_moving_param, data
<1>2. /\ Rows' = Rows /\ inittime' = inittime /\ Times("cdr")' = Times("cdr")
      /\ Ids' = Ids /\ \A u : Parts(u)' = Parts(u)
      /\ \A x, y : In(x, y)' = In(x, y)
  BY <1>1, Stays
<1>3. ShapeInv' /\ StartInv' /\ EndInv'
  BY <1>1 DEF DInv, ShapeInv, StartInv, EndInv, Starting, Looping
<1>4. TablesInv'
  BY <1>1, <1>2 DEF DInv, TablesInv, Looping
<1>5. RoundInv'
  <2> SUFFICES ASSUME ~hidden', slot = "conn"
               PROVE  low = current_dir /\ CdrSaved' /\ Taken'
    BY <1>1, <1>2 DEF RoundInv
  <2>1. low = current_dir /\ files["cdr"] = <<Parts("cdr")>> /\ Taken
    BY <1>1 DEF DInv, RoundInv
  <2>2. "cdr" \in Copies /\ files["cdr"] # Absent
    BY <2>1, NamesAre DEF CallNames, Absent
  <2>3. ASSUME NEW r \in Parts("cdr") PROVE <<"cdr", r>> \in Loaded
    BY <2>1, <2>2 DEF Loaded
  <2>4. CdrSaved'
    BY <1>1, <1>2, <2>3 DEF CdrSaved
  <2>5. Taken'
    BY <1>1, <1>2, <2>1 DEF Taken
  <2> QED
    BY <2>1, <2>4, <2>5
<1>6. RightDir'
  <2> SUFFICES ASSUME ~hidden', NEW p \in Loaded, p[1] # "wrapup"
               PROVE  \E x \in Rows["cdr"] : x.linkedid = p[2].linkedid /\ In(x.time, current_dir)
    BY <1>1, <1>2 DEF RightDir
  <2>1. PICK u \in Copies : files[u] # Absent /\ \E r \in files[u][1] : p = <<u, r>>
    BY DEF Loaded
  <2>2. PICK r \in files[u][1] : p = <<u, r>>
    BY <2>1
  <2>3. u \in CallNames
    BY <2>1, <2>2, NamesAre
  <2>4. files[u] = <<Parts(u)>>
    BY <1>1, <2>1, <2>3 DEF DInv, TablesInv, Looping
  <2>5. r.linkedid \in Ids
    BY <2>2, <2>4 DEF Parts
  <2>6. p[2] = r
    BY <2>2
  <2> QED
    BY <2>5, <2>6 DEF Ids
<1> QED
  BY <1>3, <1>4, <1>5, <1>6 DEF DInv

LEMMA DEnd ==
  ASSUME WInv, DInv, lcs_end_circle PROVE DInv'
<1>1. pc = "end" /\ exited = FALSE /\ result = "none" /\ current_dir \in Nat
  BY DEF lcs_end_circle, DInv, EndInv, StartInv, ShapeInv, Looping
<1>2. /\ pc' = "history" /\ low' = hi
      /\ UNCHANGED <<day, i, db, slot, current_dir, files, saved, exited, result, hidden>>
  BY <1>1 DEF lcs_end_circle, lcs_update_time
<1>3. hi = low + Step
  BY <1>1 DEF WInv, During
<1>4. /\ Rows' = Rows /\ inittime' = inittime /\ Ids' = Ids /\ \A u : Parts(u)' = Parts(u)
      /\ \A x, y : In(x, y)' = In(x, y)
  BY <1>2, Stays
<1>5. ShapeInv' /\ StartInv' /\ EndInv'
  BY <1>1, <1>2 DEF DInv, ShapeInv, StartInv, EndInv, Starting, Looping
<1>6. TablesInv'
  BY <1>1, <1>2, <1>4 DEF DInv, TablesInv, Looping
<1>7. RoundInv'
  <2>1. (Taken => Taken') /\ (CdrSaved => CdrSaved')
    BY <1>2, <1>4 DEF Taken, CdrSaved
  <2> QED
    BY <1>1, <1>2, <1>3, <2>1 DEF DInv, RoundInv
<1>8. RightDir'
  BY <1>2, <1>4 DEF DInv, RightDir
<1> QED
  BY <1>5, <1>6, <1>7, <1>8 DEF DInv

\* The end of the process: what is saved stays, and the result tells it.
LEMMA DLast ==
  ASSUME DInv, lcs_try_close \/ MainStatus \/ lcs_clear_tmp \/ Return PROVE DInv'
<1>1. /\ pc \in {"close", "status", "clear", "return"}
      /\ pc' \in {"status", "clear", "pause", "return", "exit"}
      /\ UNCHANGED <<i, day, current_dir, files, saved>>
      /\ hidden' = hidden \/ hidden' = TRUE
  BY DEF lcs_try_close, MainStatus, lcs_clear_tmp, Return, Batch, Killed, data
<1>2. /\ Rows' = Rows /\ Times("cdr")' = Times("cdr")
      /\ \A x, y : In(x, y)' = In(x, y)
  BY <1>1, Stays
<1>3. (~hidden => Done) /\ result = "none"
  BY <1>1 DEF DInv, EndInv
<1>4. ~hidden' => Done'
  BY <1>1, <1>2, <1>3 DEF Done, AllSaved
<1>5. StartInv' /\ TablesInv' /\ RoundInv'
  BY <1>1 DEF StartInv, TablesInv, RoundInv, Starting, Looping
<1>6. RightDir'
  BY <1>1, <1>2 DEF DInv, RightDir
<1>7. CASE lcs_clear_tmp
  <2>1. /\ pc = "clear" /\ pc' \in {"return", "exit"} /\ result' \in {"none", "killed"}
        /\ pc' = "return" => result' = "none"
        /\ db' = db \/ \E k \in 0 .. 8 : db' = Scripted(Temps \o Tables, 1, k)
    BY <1>3, <1>7 DEF lcs_clear_tmp, Batch, Killed
  <2>2. db' = [n \in Names |-> db'[n]]
    <3> DEFINE D(k) == Scripted(Temps \o Tables, 1, k)
    <3>1. \A k \in 0 .. 8 : D(k) = [n \in Names |-> D(k)[n]]
      BY ScriptedShape
    <3> HIDE DEF D
    <3>2. db' = db \/ \E k \in 0 .. 8 : db' = D(k)
      BY <2>1 DEF D
    <3> QED
      BY <3>1, <3>2 DEF DInv, ShapeInv
  <2>3. ShapeInv'
    BY <1>1, <2>2 DEF DInv, ShapeInv, Looping
  <2>4. ASSUME pc' = "return", ~err' PROVE \A n \in Names : db'[n] = Absent
    <3> DEFINE after == [k \in 0 .. 8 |-> Scripted(Temps \o Tables, 1, k)]
    <3>1. after[8] = Scripted(Temps \o Tables, 1, 8)
      OBVIOUS
    <3>2. Batch("clear", "return", 8, after)
      BY <1>7 DEF lcs_clear_tmp
    <3> HIDE DEF after
    <3>3. ~err
      BY <2>4, <3>2 DEF Batch, Killed
    <3>4. PICK k \in 0 .. 8 : err' = (k < 8) /\ db' = after[k]
      BY <2>4, <3>2, <3>3 DEF Batch, Killed
    <3>5. ~(k < 8)
      BY <2>4, <3>4
    <3>6. k = 8
      BY <3>5
    <3> QED
      BY <3>1, <3>4, <3>6, AllDropped
  <2>5. EndInv'
    BY <1>4, <2>1, <2>4 DEF EndInv
  <2> QED
    BY <1>5, <1>6, <2>3, <2>5 DEF DInv
<1>8. CASE lcs_try_close \/ MainStatus
  <2>1. pc' \in {"status", "clear", "pause", "exit"} /\ db' = db
        /\ (pc' # "exit" => result' = result) /\ (pc' = "exit" => result' = "killed")
    BY <1>8 DEF lcs_try_close, MainStatus, Killed
  <2>2. ShapeInv'
    BY <1>1, <2>1 DEF DInv, ShapeInv, Looping
  <2>3. EndInv'
    BY <1>3, <1>4, <2>1 DEF EndInv
  <2> QED
    BY <1>5, <1>6, <2>2, <2>3 DEF DInv
<1>9. CASE Return
  <2>1. /\ pc = "return" /\ pc' = "exit" /\ db' = db /\ err' = err
        /\ result' = IF err THEN "EXIT_FAILURE" ELSE "EXIT_SUCCESS"
    BY <1>9 DEF Return
  <2>2. ShapeInv'
    BY <1>1, <2>1 DEF DInv, ShapeInv, Looping
  <2>3. result' = "EXIT_SUCCESS" => \A n \in Names : db'[n] = Absent
    BY <2>1 DEF DInv, EndInv
  <2>4. EndInv'
    BY <1>4, <2>1, <2>3 DEF EndInv
  <2> QED
    BY <1>5, <1>6, <2>2, <2>4 DEF DInv
<1> QED
  BY <1>7, <1>8, <1>9

LEMMA NextDInv == WInv /\ DInv /\ [Next]_vars => DInv'
<1> SUFFICES ASSUME WInv, DInv, [Next]_vars PROVE DInv'
  OBVIOUS
<1>1. CASE UNCHANGED vars
  <2>1. ShapeInv' /\ StartInv'
    BY <1>1 DEF vars, DInv, ShapeInv, StartInv, Rows, inittime, Times, In
  <2>2. TablesInv'
    BY <1>1 DEF vars, DInv, TablesInv, Rows, inittime, Times, In, Ids, Parts
  <2>3. RoundInv'
    BY <1>1 DEF vars, DInv, RoundInv, CdrSaved, Taken, Parts, Ids, Rows, In
  <2>4. EndInv' /\ RightDir'
    BY <1>1 DEF vars, DInv, EndInv, RightDir, Done, AllSaved, Rows, Times, In
  <2> QED
    BY <2>1, <2>2, <2>3, <2>4 DEF DInv
<1> QED
  BY <1>1, DInit, DStart, DParam, DCircle, DHistory, DOuttime, DTab, DMoving, DEnd, DLast DEF Next

LEMMA SpecDInv == Spec => [](WInv /\ DInv)
<1>1. Spec => []WInv
  BY InitWInv, NextWInv, PTL DEF Spec
<1> QED
  BY <1>1, InitDInv, NextDInv, PTL DEF Spec

\* Rows of calls end up in the directory of the window their call began in, as
\* long as no failure was hidden, for every day, step and number of failures.
THEOREM RightDirHolds == Spec => []RightDir
<1>1. DInv => RightDir
  BY DEF DInv
<1> QED
  BY <1>1, SpecDInv, PTL

\* The process returns success only with every call of the day saved in the one
\* directory, unless a failure was hidden, and leaves no table of its own in the
\* database: a day of more than one window ends otherwise.
THEOREM SuccessCompleteHolds == Spec => []SuccessComplete
<1>1. DInv => SuccessComplete
  BY DEF DInv, EndInv, Done, SuccessComplete
<1> QED
  BY <1>1, SpecDInv, PTL

HIDE DownloaderAssumption

-----------------------------------------------------------------------------
(* The transfer of a file.  The client only counts, so the proof relates   *)
(* the count to the place each segment has in the file; what is in front   *)
(* of the client is described by the bytes of the stream.                  *)

\* The server before it sends data.
Early == {"accept", "key", "request", "checksum"}
Packets == [mode : {"over", "checksum", "data", "off"}, n : Nat, at : Nat, size : Nat]

\* The packets: whole blocks that fit into a recv, the size of the file and its
\* segments one after the other.
SentInv ==
  /\ sent \in Seq(Packets) /\ size \in Sizes /\ left \in 0 .. size
  /\ \A q \in 1 .. Len(sent) :
       /\ sent[q].size >= Block /\ sent[q].size >= sent[q].n + Hdr
       /\ sent[q].size % Block = 0 /\ sent[q].size <= Low
       /\ sent[q].mode = "checksum" => exists /\ sent[q].at = size
       /\ sent[q].mode = "data" => spc \notin Early /\ sent[q].at + sent[q].n <= size - left
  /\ \A q, r \in 1 .. Len(sent) :
       q < r /\ sent[q].mode = "data" /\ sent[r].mode = "data" => sent[q].at + sent[q].n <= sent[r].at

\* The bytes not received: in order, and to the end of the last packet.
StreamInv ==
  /\ stream \in Seq(Nat \X Nat)
  /\ \A j \in 1 .. Len(stream) :
       /\ stream[j][1] \in 1 .. Len(sent)
       /\ stream[j][2] < sent[stream[j][1]].size
       /\ j + sent[stream[j][1]].size <= Len(stream) + 1 + stream[j][2]
  /\ \A j, k \in 1 .. Len(stream) : j < k =>
       stream[j][1] < stream[k][1] \/ (stream[j][1] = stream[k][1] /\ stream[j][2] < stream[k][2])

\* What is written reaches at most up to x, and if it does nothing is missing.
UpTo(f, x) == Len(f) <= x /\ (Len(f) = x => \A b \in 1 .. x : f[b] = b)

FileInv ==
  /\ file \in Seq(Nat) /\ total = Len(file) % UInt
  /\ spc \in Early => file = <<>>
  /\ ~cut => /\ UpTo(file, size - left)
             /\ \A j \in 1 .. Len(stream) :
                  stream[j][2] = 0 /\ sent[stream[j][1]].mode = "data" => UpTo(file, sent[stream[j][1]].at)

\* The first thing a client that is not disturbed receives is the size.
HeadInv ==
  /\ spc \in {"accept", "key"} => sent = <<>> /\ stream = <<>> /\ cpc \in {"ready", "gone"}
  /\ spc \in {"request", "checksum"} => Len(sent) = 1
  /\ spc = "file" \/ (spc = "off" /\ ~cut) => Len(sent) >= 2
  /\ cpc = "ready" => /\ ~announced /\ file = <<>> /\ up # "request"
                      /\ spc \in {"accept", "key", "request", "sleep", "ended"}
  /\ cpc = "ready" /\ ~cut =>
       \/ sent = <<>> /\ stream = <<>>
       \/ Len(sent) = 1 /\ stream = [b \in 1 .. sent[1].size |-> <<1, b - 1>>]
  /\ cpc = "data" /\ ~cut /\ ~announced =>
       \/ Len(sent) = 1 /\ stream = <<>>
       \/ Len(sent) >= 2 /\ stream # <<>> /\ stream[1] = <<2, 0>> /\ sent[2].mode = "checksum"

\* What the client knows of the size, and what its verdict compares.
CountInv ==
  /\ announced => exists
  /\ announced /\ (alone \/ ~cut) => checksum = size
  /\ ~announced => checksum = 0
  /\ ~announced /\ ~cut => file = <<>>
  /\ cpc = "success" => checksum = total
  /\ cpc = "failure" /\ announced => checksum # total

ExistsInv == spc = "checksum" => exists

TInv == SentInv /\ StreamInv /\ FileInv /\ HeadInv /\ CountInv /\ ExistsInv

\* Arithmetic of blocks and of the counter.
LEMMA Quotient ==
  ASSUME NEW u \in Nat \ {0}, NEW a \in Nat, NEW k \in Nat, NEW r \in 0 .. u - 1, a = u * k + r
  PROVE  a % u = r
<1>1. a % u \in 0 .. u - 1 /\ a \div u \in Nat /\ a = u * (a \div u) + (a % u)
  OBVIOUS
<1> DEFINE d == a \div u
           s == a % u
<1>2. s \in 0 .. u - 1 /\ d \in Nat /\ u * d + s = u * k + r
  BY <1>1
<1> HIDE DEF d, s
<1>3. CASE d < k
  <2>1. u * d + u <= u * k
    <3>1. d + 1 <= k
      BY <1>2, <1>3
    <3>2. u * (d + 1) <= u * k
      BY <1>2, <3>1
    <3> QED
      BY <1>2, <3>2
  <2> QED
    BY <1>2, <2>1
<1>4. CASE k < d
  <2>1. u * k + u <= u * d
    <3>1. k + 1 <= d
      BY <1>2, <1>4
    <3>2. u * (k + 1) <= u * d
      BY <1>2, <3>1
    <3> QED
      BY <1>2, <3>2
  <2> QED
    BY <1>2, <2>1
<1>5. CASE k = d
  BY <1>2, <1>5 DEF s
<1> QED
  BY <1>2, <1>3, <1>4, <1>5

LEMMA ModAdd ==
  ASSUME NEW u \in Nat \ {0}, NEW a \in Nat, NEW b \in Nat
  PROVE  ((a % u) + b) % u = (a + b) % u
<1> DEFINE k == a \div u
           c == (a % u) + b
           l == c \div u
           s == c % u
<1>1. k \in Nat /\ a = u * k + (a % u) /\ a % u \in Nat
  OBVIOUS
<1>2. c \in Nat /\ a + b = u * k + c
  BY <1>1
<1>3. l \in Nat /\ s \in 0 .. u - 1 /\ c = u * l + s
  <2> HIDE DEF c
  <2> QED
    BY <1>2
<1> HIDE DEF k, c, l, s
<1>4. k + l \in Nat /\ a + b \in Nat /\ a + b = u * (k + l) + s
  BY <1>1, <1>2, <1>3
<1>5. (a + b) % u = s
  BY <1>3, <1>4, Quotient
<1> QED
  BY <1>5 DEF s, c

\* The complete blocks of m bytes hold every packet that does.
LEMMA Blocks ==
  ASSUME NEW u \in Nat \ {0}, NEW m \in Nat, NEW s \in Nat, s % u = 0, s <= m
  PROVE  s <= m - (m % u) /\ m - (m % u) \in Nat
<1>1. /\ m \div u \in Nat /\ m = u * (m \div u) + (m % u) /\ m % u \in 0 .. u - 1
      /\ s \div u \in Nat /\ s = u * (s \div u)
  OBVIOUS
<1> DEFINE d == m \div u
           e == s \div u
           r == m % u
<1>2. d \in Nat /\ e \in Nat /\ r \in 0 .. u - 1 /\ m = u * d + r /\ s = u * e
  BY <1>1
<1> HIDE DEF d, e, r
<1>3. e <= d
  <2> SUFFICES ASSUME d < e PROVE FALSE
    BY <1>2
  <2>1. u * (d + 1) <= u * e
    BY <1>2
  <2> QED
    BY <1>2, <2>1
<1>4. u * e <= u * d /\ u * d \in Nat
  BY <1>2, <1>3
<1>5. s <= m - r /\ m - r \in Nat
  BY <1>2, <1>4
<1> QED
  BY <1>5 DEF r

LEMMA PaddedFits ==
  ASSUME NEW n \in Nat, n + Hdr <= Low
  PROVE  /\ Padded(n) \in Nat /\ Padded(n) >= n + Hdr /\ Padded(n) >= Block
         /\ Padded(n) % Block = 0 /\ Padded(n) <= Low
<1> DEFINE T == {k \in Powers : k >= n + Hdr /\ k >= Block}
<1>1. /\ Low \in Powers /\ Block \in Nat /\ Hdr \in Nat /\ Low \in Nat /\ Block <= Low
      /\ \A k \in Powers : k \in Nat /\ (k >= Block => k % Block = 0)
  BY TransferAssumption
<1>2. Low \in T /\ T \subseteq Nat
  BY <1>1
<1>3. \E x \in T : \A y \in T : x <= y
  <2> HIDE DEF T
  <2> QED
    BY <1>2, Least
<1>4. \E k \in Powers : /\ k >= n + Hdr /\ k >= Block
                        /\ \A j \in Powers : j >= n + Hdr /\ j >= Block => k <= j
  BY <1>3
<1>5. /\ Padded(n) \in Powers /\ Padded(n) >= n + Hdr /\ Padded(n) >= Block
      /\ \A j \in Powers : j >= n + Hdr /\ j >= Block => Padded(n) <= j
  BY <1>4 DEF Padded
<1> QED
  BY <1>1, <1>5

\* What a packet of the server is.
Fine(p) ==
  /\ p \in Packets
  /\ p.size >= Block /\ p.size >= p.n + Hdr /\ p.size % Block = 0 /\ p.size <= Low

LEMMA FinePacket ==
  ASSUME NEW mode \in {"over", "checksum", "data", "off"}, NEW n \in Nat, NEW at \in Nat,
         n + Hdr <= Low
  PROVE  LET p == Packet(mode, n, at)
         IN  Fine(p) /\ p.mode = mode /\ p.n = n /\ p.at = at
<1>1. /\ Padded(n) \in Nat /\ Padded(n) >= n + Hdr /\ Padded(n) >= Block
      /\ Padded(n) % Block = 0 /\ Padded(n) <= Low
  BY PaddedFits
<1> QED
  BY <1>1 DEF Packet, Fine, Packets

-----------------------------------------------------------------------------
(* The two ends of the connection.                                         *)

LEMMA Sending ==
  ASSUME SentInv, StreamInv, NEW p, Fine(p), Send(p)
  PROVE  /\ sent' \in Seq(Packets) /\ Len(sent') = Len(sent) + 1
         /\ \A q \in 1 .. Len(sent) : sent'[q] = sent[q]
         /\ sent'[Len(sent) + 1] = p
         /\ stream' \in Seq(Nat \X Nat) /\ Len(stream') = Len(stream) + p.size
         /\ \A j \in 1 .. Len(stream) : stream'[j] = stream[j]
         /\ \A j \in Len(stream) + 1 .. Len(stream') :
              stream'[j] = <<Len(sent) + 1, j - Len(stream) - 1>>
<1>1. sent \in Seq(Packets) /\ stream \in Seq(Nat \X Nat) /\ p \in Packets /\ p.size \in Nat
  BY DEF SentInv, StreamInv, Fine, Packets
<1>2. /\ sent' \in Seq(Packets) /\ Len(sent') = Len(sent) + 1
      /\ \A q \in 1 .. Len(sent) : sent'[q] = sent[q]
      /\ sent'[Len(sent) + 1] = p
  BY <1>1 DEF Send
<1> DEFINE s == p.size
           c == Len(sent) + 1
           new == [b \in 1 .. s |-> <<c, b - 1>>]
<1>3. s \in Nat /\ c \in Nat /\ stream' = stream \o new
  BY <1>1 DEF Send
<1> HIDE DEF s, c
<1>4. new \in Seq(Nat \X Nat) /\ Len(new) = s /\ \A b \in 1 .. s : new[b] = <<c, b - 1>>
  <2>1. \A b \in 1 .. s : <<c, b - 1>> \in Nat \X Nat
    BY <1>3
  <2>2. new \in [1 .. s -> Nat \X Nat]
    BY <2>1
  <2>3. new \in Seq(Nat \X Nat) /\ Len(new) = s
    BY <1>3, <2>2, SeqDef
  <2> QED
    BY <2>3
<1> HIDE DEF new
<1>5. /\ stream' \in Seq(Nat \X Nat) /\ Len(stream') = Len(stream) + Len(new)
      /\ \A j \in 1 .. Len(stream) + Len(new) :
           stream'[j] = IF j <= Len(stream) THEN stream[j] ELSE new[j - Len(stream)]
  BY <1>1, <1>3, <1>4, ConcatProperties
<1>6. Len(stream) \in Nat
  BY <1>1
<1>7. \A j \in 1 .. Len(stream) : stream'[j] = stream[j]
  BY <1>3, <1>4, <1>5, <1>6
<1>8. ASSUME NEW j \in Len(stream) + 1 .. Len(stream')
      PROVE  stream'[j] = <<c, j - Len(stream) - 1>>
  <2>1. j - Len(stream) \in 1 .. s /\ ~(j <= Len(stream)) /\ j \in 1 .. Len(stream) + Len(new)
    BY <1>3, <1>4, <1>5, <1>6
  <2>2. stream'[j] = new[j - Len(stream)]
    BY <1>5, <2>1
  <2> QED
    BY <1>4, <2>1, <2>2
<1> QED
  BY <1>2, <1>4, <1>5, <1>7, <1>8 DEF s, c

\* What StreamInv says of one byte.
LEMMA OneByte ==
  ASSUME SentInv, StreamInv, NEW j \in 1 .. Len(stream)
  PROVE  /\ stream[j][1] \in 1 .. Len(sent) /\ stream[j][2] \in Nat
         /\ sent[stream[j][1]] \in Packets /\ sent[stream[j][1]].size \in Nat
         /\ stream[j][2] < sent[stream[j][1]].size
         /\ j + sent[stream[j][1]].size <= Len(stream) + 1 + stream[j][2]
<1>1. /\ stream[j] \in Nat \X Nat /\ stream[j][1] \in 1 .. Len(sent)
      /\ stream[j][2] < sent[stream[j][1]].size
      /\ j + sent[stream[j][1]].size <= Len(stream) + 1 + stream[j][2]
  BY DEF StreamInv
<1>2. sent[stream[j][1]] \in Packets
  BY <1>1 DEF SentInv
<1> QED
  BY <1>1, <1>2 DEF Packets

LEMMA SendStream ==
  ASSUME SentInv, StreamInv, NEW p, Fine(p), Send(p)
  PROVE  StreamInv'
<1> DEFINE L == Len(stream)
           S == Len(sent)
           L1 == Len(stream')
<1>1. S \in Nat /\ L \in Nat /\ p.size \in Nat /\ L1 = L + p.size /\ Len(sent') = S + 1
  <2>1. S \in Nat
    BY DEF SentInv
  <2>2. L \in Nat
    BY DEF StreamInv
  <2>3. p.size \in Nat
    BY DEF Fine, Packets
  <2>4. L1 = L + p.size /\ Len(sent') = S + 1
    BY Sending
  <2> QED
    BY <2>1, <2>2, <2>3, <2>4
<1>2. \A q \in 1 .. S : sent'[q] = sent[q]
  BY Sending
<1>3. sent'[S + 1] = p
  BY Sending
<1>4. \A j \in 1 .. L : stream'[j] = stream[j]
  BY Sending
<1>5. \A j \in L + 1 .. L1 : stream'[j] = <<S + 1, j - L - 1>>
  BY Sending
<1>6. \A j \in L + 1 .. L1 : stream'[j][1] = S + 1 /\ stream'[j][2] = j - L - 1
  BY <1>5
<1>7. stream' \in Seq(Nat \X Nat)
  BY Sending
<1>8. \A j \in 1 .. L1 : j \in 1 .. L \/ j \in L + 1 .. L1
  BY <1>1
<1>9. ASSUME NEW j \in 1 .. L1
      PROVE  /\ stream'[j][1] \in 1 .. Len(sent')
             /\ stream'[j][2] < sent'[stream'[j][1]].size
             /\ j + sent'[stream'[j][1]].size <= L1 + 1 + stream'[j][2]
  <2>1. CASE j \in 1 .. L
    <3> DEFINE q == stream[j][1]
               o == stream[j][2]
               z == sent[q].size
    <3>1. /\ q \in 1 .. S /\ o \in Nat /\ z \in Nat
          /\ o < z /\ j + z <= L + 1 + o
      BY <2>1, OneByte
    <3>2. stream'[j][1] = q /\ stream'[j][2] = o
      BY <1>4, <2>1
    <3> HIDE DEF q, o
    <3>3. sent'[q].size = z
      BY <1>2, <3>1
    <3> HIDE DEF L, S, L1, z
    <3>4. q \in 1 .. S + 1 /\ j + z <= L1 + 1 + o
      <4> DEFINE y == p.size
      <4>1. y \in Nat /\ L1 = L + y /\ S \in Nat /\ L \in Nat
        BY <1>1
      <4> HIDE DEF y
      <4> QED
        BY <2>1, <3>1, <4>1
    <3> QED
      BY <1>1, <3>1, <3>2, <3>3, <3>4 DEF S, L1
  <2>2. CASE j \in L + 1 .. L1
    <3>1. stream'[j][1] = S + 1 /\ stream'[j][2] = j - L - 1
      BY <1>6, <2>2
    <3>2. sent'[stream'[j][1]].size = p.size
      BY <1>3, <3>1
    <3> HIDE DEF L, S, L1
    <3> QED
      BY <1>1, <2>2, <3>1, <3>2 DEF S, L1
  <2> QED
    BY <1>8, <2>1, <2>2
<1>10. ASSUME NEW j \in 1 .. L1, NEW k \in 1 .. L1, j < k
       PROVE  \/ stream'[j][1] < stream'[k][1]
              \/ stream'[j][1] = stream'[k][1] /\ stream'[j][2] < stream'[k][2]
  <2>1. CASE k \in 1 .. L
    <3>1. j \in 1 .. L
      BY <1>1, <1>10, <2>1
    <3>2. stream'[j] = stream[j] /\ stream'[k] = stream[k]
      BY <1>4, <2>1, <3>1
    <3>3. \/ stream[j][1] < stream[k][1]
          \/ stream[j][1] = stream[k][1] /\ stream[j][2] < stream[k][2]
      BY <1>10, <2>1, <3>1 DEF StreamInv
    <3> QED
      BY <3>2, <3>3
  <2>2. CASE k \in L + 1 .. L1 /\ j \in 1 .. L
    <3>1. stream[j][1] \in 1 .. S
      BY <2>2, OneByte
    <3>2. stream'[j] = stream[j]
      BY <1>4, <2>2
    <3>3. stream'[k][1] = S + 1
      BY <1>6, <2>2
    <3>4. stream[j][1] < S + 1
      BY <1>1, <3>1
    <3> QED
      BY <3>2, <3>3, <3>4
  <2>3. CASE k \in L + 1 .. L1 /\ j \in L + 1 .. L1
    <3>1. stream'[k][1] = S + 1 /\ stream'[k][2] = k - L - 1
      BY <1>6, <2>3
    <3>2. stream'[j][1] = S + 1 /\ stream'[j][2] = j - L - 1
      BY <1>6, <2>3
    <3>3. j - L - 1 < k - L - 1
      BY <1>1, <1>10, <2>3
    <3> QED
      BY <3>1, <3>2, <3>3
  <2> QED
    BY <1>8, <2>1, <2>2, <2>3
<1> QED
  BY <1>7, <1>9, <1>10 DEF StreamInv

LEMMA Receiving ==
  ASSUME SentInv, StreamInv, NEW m \in 1 .. Len(stream), Received(m), sent' = sent
  PROVE  /\ Len(stream') = Len(stream) - m
         /\ \A j \in 1 .. Len(stream') : j + m \in 2 .. Len(stream) /\ stream'[j] = stream[j + m]
         /\ StreamInv'
<1>1. stream \in Seq(Nat \X Nat) /\ Len(stream) \in Nat
  BY DEF StreamInv
<1>2. stream' = SubSeq(stream, m + 1, Len(stream))
  BY DEF Received
<1>3. /\ stream' \in Seq(Nat \X Nat) /\ Len(stream') = Len(stream) - m
      /\ \A j \in 1 .. Len(stream') : j + m \in 2 .. Len(stream) /\ stream'[j] = stream[j + m]
  BY <1>1, <1>2
<1>4. Len(stream') \in Nat /\ Len(stream) = Len(stream') + m
  BY <1>1, <1>3
<1>5. ASSUME NEW j \in 1 .. Len(stream')
      PROVE  \E c \in 1 .. Len(stream) : c = j + m /\ stream'[j] = stream[c]
  <2>1. j + m \in 1 .. Len(stream) /\ stream'[j] = stream[j + m]
    BY <1>3
  <2> QED
    BY <2>1
<1>6. ASSUME NEW j \in 1 .. Len(stream')
      PROVE  /\ stream'[j][1] \in 1 .. Len(sent)
             /\ stream'[j][2] < sent[stream'[j][1]].size
             /\ j + sent[stream'[j][1]].size <= Len(stream') + 1 + stream'[j][2]
  <2>1. PICK c \in 1 .. Len(stream) : c = j + m /\ stream'[j] = stream[c]
    BY <1>5
  <2> DEFINE q == stream[c][1]
             o == stream[c][2]
             z == sent[q].size
  <2>2. /\ q \in 1 .. Len(sent) /\ o \in Nat /\ z \in Nat
        /\ o < z /\ c + z <= Len(stream) + 1 + o
    BY OneByte
  <2>3. stream'[j][1] = q /\ stream'[j][2] = o
    BY <2>1
  <2>4. sent[stream'[j][1]].size = z
    BY <2>3
  <2> HIDE DEF q, o, z
  <2>5. j + z <= Len(stream') + 1 + o
    BY <1>4, <2>1, <2>2
  <2> QED
    BY <2>2, <2>3, <2>4, <2>5
<1>7. ASSUME NEW j \in 1 .. Len(stream'), NEW k \in 1 .. Len(stream'), j < k
      PROVE  \/ stream'[j][1] < stream'[k][1]
             \/ stream'[j][1] = stream'[k][1] /\ stream'[j][2] < stream'[k][2]
  <2>1. PICK c \in 1 .. Len(stream) : c = j + m /\ stream'[j] = stream[c]
    BY <1>5
  <2>2. PICK d \in 1 .. Len(stream) : d = k + m /\ stream'[k] = stream[d]
    BY <1>5
  <2>3. c < d
    BY <1>7, <2>1, <2>2
  <2>4. \/ stream[c][1] < stream[d][1]
        \/ stream[c][1] = stream[d][1] /\ stream[c][2] < stream[d][2]
    BY <2>3 DEF StreamInv
  <2> QED
    BY <2>1, <2>2, <2>4
<1>8. StreamInv'
  BY <1>3, <1>6, <1>7 DEF StreamInv
<1> QED
  BY <1>3, <1>8

\* A new packet keeps what SentInv and FileInv say of those before.
LEMMA SendSent ==
  ASSUME TInv, NEW p, Fine(p), Send(p), exists' = exists, size' = size, left' \in 0 .. size,
         spc \in Early \/ left' <= left, spc' \in Early => spc \in Early,
         p.mode = "checksum" => exists /\ p.at = size,
         p.mode = "data" => /\ spc' \notin Early
                            /\ p.at = size - left /\ p.at + p.n <= size - left'
  PROVE  SentInv'
<1> SentInv /\ StreamInv
  BY DEF TInv
<1> DEFINE S == Len(sent)
<1>1. sent' \in Seq(Packets) /\ Len(sent') = S + 1 /\ sent'[S + 1] = p
      /\ \A q \in 1 .. S : sent'[q] = sent[q]
  BY Sending
<1>2. S \in Nat /\ size \in Sizes /\ size \in Nat /\ left \in 0 .. size /\ sent \in Seq(Packets)
  BY TransferAssumption DEF SentInv
<1>3. \A q \in 1 .. S + 1 : q \in 1 .. S \/ q = S + 1
  BY <1>2
<1>4. ASSUME NEW q \in 1 .. S, sent[q].mode = "data"
      PROVE  /\ spc \notin Early /\ sent[q].at + sent[q].n <= size - left
             /\ sent[q].at \in Nat /\ sent[q].n \in Nat
  <2>1. sent[q] \in Packets
    BY <1>2
  <2> QED
    BY <1>4, <2>1 DEF SentInv, Packets
<1>5. ASSUME NEW q \in 1 .. S + 1
      PROVE  /\ sent'[q].size >= Block /\ sent'[q].size >= sent'[q].n + Hdr
             /\ sent'[q].size % Block = 0 /\ sent'[q].size <= Low
             /\ sent'[q].mode = "checksum" => exists /\ sent'[q].at = size
  <2>1. CASE q \in 1 .. S
    BY <1>1, <2>1 DEF SentInv
  <2>2. CASE q = S + 1
    BY <1>1, <2>2 DEF Fine
  <2> QED
    BY <1>3, <2>1, <2>2
<1>6. ASSUME NEW q \in 1 .. S + 1, sent'[q].mode = "data"
      PROVE  spc' \notin Early /\ sent'[q].at + sent'[q].n <= size - left'
  <2>1. CASE q \in 1 .. S
    <3>1. sent[q].mode = "data" /\ sent'[q] = sent[q]
      BY <1>1, <1>6, <2>1
    <3>2. spc \notin Early
      BY <1>4, <2>1, <3>1
    <3>3. left' <= left
      BY <3>2
    <3> DEFINE x == sent[q].at + sent[q].n
    <3>4. x \in Nat /\ x <= size - left
      BY <1>4, <2>1, <3>1
    <3> HIDE DEF x
    <3>5. x <= size - left'
      <4>1. left' \in Nat /\ left \in Nat /\ size \in Nat
        BY <1>2
      <4>2. \A a, b, c, d \in Nat : a <= b - c /\ d <= c => a <= b - d
        OBVIOUS
      <4> QED
        BY <3>3, <3>4, <4>1, <4>2
    <3> QED
      BY <3>1, <3>2, <3>5 DEF x
  <2>2. CASE q = S + 1
    BY <1>1, <1>6, <2>2
  <2> QED
    BY <1>3, <2>1, <2>2
<1>7. ASSUME NEW q \in 1 .. S + 1, NEW r \in 1 .. S + 1, q < r,
             sent'[q].mode = "data", sent'[r].mode = "data"
      PROVE  sent'[q].at + sent'[q].n <= sent'[r].at
  <2>0. q \in 1 .. S
    BY <1>2, <1>7
  <2>1. CASE r \in 1 .. S
    BY <1>1, <1>7, <2>0, <2>1 DEF SentInv
  <2>2. CASE r = S + 1
    <3>1. sent[q].mode = "data" /\ sent'[q] = sent[q] /\ sent'[r] = p
      BY <1>1, <1>7, <2>0, <2>2
    <3>2. sent[q].at + sent[q].n <= size - left
      BY <1>4, <2>0, <3>1
    <3> QED
      BY <1>7, <3>1, <3>2
  <2> QED
    BY <1>3, <2>1, <2>2
<1> HIDE DEF S
<1>8. \A q \in 1 .. Len(sent') : q \in 1 .. S + 1
  BY <1>1
<1> QED
  BY <1>1, <1>2, <1>5, <1>6, <1>7, <1>8 DEF SentInv

LEMMA SendFile ==
  ASSUME TInv, NEW p, Fine(p), Send(p), UNCHANGED <<size, file, total, cut>>,
         spc' \in Early => spc \in Early,
         ~cut => UpTo(file, size - left') /\ (p.mode = "data" => UpTo(file, p.at))
  PROVE  FileInv'
<1> SentInv /\ StreamInv
  BY DEF TInv
<1> DEFINE S == Len(sent)
           L == Len(stream)
           L1 == Len(stream')
<1>1. sent'[S + 1] = p /\ \A q \in 1 .. S : sent'[q] = sent[q]
  BY Sending
<1>2. L1 = L + p.size /\ L \in Nat /\ p.size \in Nat
  <2>1. L1 = L + p.size
    BY Sending
  <2>2. p.size \in Nat
    BY DEF Fine, Packets
  <2>3. L \in Nat
    BY DEF StreamInv
  <2> QED
    BY <2>1, <2>2, <2>3
<1>3. \A j \in 1 .. L : stream'[j] = stream[j]
  BY Sending
<1>4. \A j \in L + 1 .. L1 : stream'[j][1] = S + 1
  BY Sending
<1>6. ASSUME ~cut, NEW j \in 1 .. L1, stream'[j][2] = 0, sent'[stream'[j][1]].mode = "data"
      PROVE  UpTo(file, sent'[stream'[j][1]].at)
  <2>1. CASE j \in 1 .. L
    <3>1. stream[j][1] \in 1 .. S /\ stream'[j] = stream[j]
      BY <1>3, <2>1, OneByte
    <3>2. sent'[stream'[j][1]] = sent[stream[j][1]]
      BY <1>1, <3>1
    <3>3. stream[j][2] = 0 /\ sent[stream[j][1]].mode = "data"
      BY <1>6, <3>1, <3>2
    <3>4. UpTo(file, sent[stream[j][1]].at)
      BY <1>6, <2>1, <3>3 DEF TInv, FileInv
    <3> QED
      BY <3>2, <3>4
  <2>2. CASE j \in L + 1 .. L1
    <3>1. sent'[stream'[j][1]] = p
      BY <1>1, <1>4, <2>2
    <3> QED
      BY <1>6, <3>1
  <2> QED
    BY <1>2, <2>1, <2>2
<1>7. /\ file' \in Seq(Nat) /\ total' = Len(file') % UInt
      /\ spc' \in Early => file' = <<>>
  BY DEF TInv, FileInv
<1>8. ~cut => UpTo(file, size' - left')
  OBVIOUS
<1> HIDE DEF L, S, L1
<1> QED
  BY <1>6, <1>7, <1>8 DEF FileInv, L1

\* Steps that send and receive nothing.
LEMMA TSame ==
  ASSUME TInv, UNCHANGED <<exists, size, left, sent, stream, file, total>>,
         spc' \in Early => spc \in Early, cut' = cut \/ cut' = TRUE
  PROVE  SentInv' /\ StreamInv' /\ FileInv'
<1>1. SentInv'
  BY DEF TInv, SentInv
<1>2. StreamInv'
  BY DEF TInv, StreamInv
<1>4. FileInv'
  BY DEF TInv, FileInv
<1> QED
  BY <1>1, <1>2, <1>4

LEMMA InitTInv == TransferInit => TInv
<1> SUFFICES ASSUME TransferInit PROVE TInv
  OBVIOUS
<1>0. size \in Nat /\ sent = <<>> /\ stream = <<>> /\ file = <<>> /\ left = 0
      /\ total = 0 /\ size \in Sizes /\ UInt \in Nat \ {0}
  BY TransferAssumption DEF TransferInit
<1>1. SentInv
  BY <1>0 DEF SentInv
<1>2. StreamInv
  BY <1>0 DEF StreamInv
<1>3. FileInv
  <2>1. UpTo(file, size - left)
    BY <1>0 DEF UpTo
  <2>2. 0 % UInt = 0
    BY <1>0
  <2> QED
    BY <1>0, <2>1, <2>2 DEF FileInv
<1>4. HeadInv
  BY DEF TransferInit, HeadInv
<1>5. CountInv /\ ExistsInv
  BY DEF TransferInit, CountInv, ExistsInv
<1> QED
  BY <1>1, <1>2, <1>3, <1>4, <1>5 DEF TInv

-----------------------------------------------------------------------------
(* The steps of the server.                                                *)

\* Steps of the server that send nothing.
LEMMA TServerQuiet ==
  ASSUME TInv, Accept \/ lcs_whs_recv_request \/ Close \/ ChildDies \/ lcs_whs_thread_wait
               \/ KeyNothing
               \/ (lcs_whs_3des /\ UNCHANGED <<sent, stream>>)
               \/ (lcs_whs_send_file /\ left = 0)
  PROVE  TInv'
<1>1. /\ UNCHANGED <<exists, size, left, sent, stream, file, total>>
      /\ UNCHANGED <<cpc, checksum, announced, alone>>
      /\ cut' = cut \/ cut' = TRUE
  BY DEF Accept, lcs_whs_recv_request, Close, ChildDies, lcs_whs_thread_wait, lcs_whs_3des,
         lcs_whs_send_file, KeyNothing, client
<1>2. \/ spc = "accept" /\ spc' \in {"key", "ended"} /\ up' = up /\ cut' = cut
      \/ spc = "key" /\ spc' = "sleep" /\ up' = "none"
      \/ /\ spc = "request" /\ up = "request" /\ up' = "none"
         /\ spc' \in {"checksum", "sleep"} \/ (spc' \in {"sleep", "off", "request"} /\ cut')
      \/ spc' \in {"sleep", "ended"} /\ up' = up
      \/ spc' = spc /\ up' = up
  <2>1. CASE Accept
    BY <2>1 DEF Accept
  <2>2. CASE lcs_whs_recv_request
    BY <2>2 DEF lcs_whs_recv_request
  <2>3. CASE Close \/ ChildDies \/ lcs_whs_thread_wait
    BY <2>3 DEF Close, ChildDies, lcs_whs_thread_wait
  <2>4. CASE lcs_whs_3des /\ UNCHANGED <<sent, stream>>
    <3>1. sent \in Seq(Packets)
      BY DEF TInv, SentInv
    <3>2. \A p : ~Send(p)
      <4> SUFFICES ASSUME NEW p, Send(p) PROVE FALSE
        OBVIOUS
      <4>1. Len(Append(sent, p)) = Len(sent) + 1 /\ Len(sent) \in Nat
        BY <3>1
      <4> QED
        BY <2>4, <4>1 DEF Send
    <3> QED
      BY <2>4, <3>2 DEF lcs_whs_3des
  <2>5. CASE lcs_whs_send_file /\ left = 0
    BY <2>5 DEF lcs_whs_send_file
  <2>6. CASE KeyNothing
    BY <2>6 DEF KeyNothing
  <2> QED
    BY <2>1, <2>2, <2>3, <2>4, <2>5, <2>6
<1>3. SentInv' /\ StreamInv' /\ FileInv'
  <2>1. spc' \in Early => spc \in Early
    BY <1>2 DEF Early
  <2> QED
    BY <1>1, <2>1, TSame
<1>4. CountInv'
  BY <1>1 DEF TInv, CountInv
<1>6. ExistsInv'
  <2>1. spc' = "checksum" => spc = "checksum" \/ exists
    BY DEF Accept, lcs_whs_recv_request, Close, ChildDies, lcs_whs_thread_wait, lcs_whs_3des,
           lcs_whs_send_file, KeyNothing
  <2> QED
    BY <1>1, <2>1 DEF TInv, ExistsInv
<1>5. HeadInv'
  <2> DEFINE Ready == \/ sent = <<>> /\ stream = <<>>
                      \/ Len(sent) = 1 /\ stream = [b \in 1 .. sent[1].size |-> <<1, b - 1>>]
             Fresh == \/ Len(sent) = 1 /\ stream = <<>>
                      \/ /\ Len(sent) >= 2 /\ stream # <<>> /\ stream[1] = <<2, 0>>
                         /\ sent[2].mode = "checksum"
  <2>1. Ready' = Ready /\ Fresh' = Fresh
    BY <1>1
  <2>2. /\ spc \in {"accept", "key"} =>
             sent = <<>> /\ stream = <<>> /\ cpc \in {"ready", "gone"}
        /\ spc \in {"request", "checksum"} => Len(sent) = 1
        /\ spc = "file" \/ (spc = "off" /\ ~cut) => Len(sent) >= 2
        /\ cpc = "ready" => /\ ~announced /\ file = <<>> /\ up # "request"
                            /\ spc \in {"accept", "key", "request", "sleep", "ended"}
        /\ cpc = "ready" /\ ~cut => Ready
        /\ cpc = "data" /\ ~cut /\ ~announced => Fresh
    BY DEF TInv, HeadInv
  <2> HIDE DEF Ready, Fresh
  <2>3. /\ spc' \in {"accept", "key"} =>
             sent' = <<>> /\ stream' = <<>> /\ cpc' \in {"ready", "gone"}
        /\ spc' \in {"request", "checksum"} => Len(sent') = 1
        /\ spc' = "file" \/ (spc' = "off" /\ ~cut') => Len(sent') >= 2
        /\ cpc' = "ready" => /\ ~announced' /\ file' = <<>> /\ up' # "request"
                             /\ spc' \in {"accept", "key", "request", "sleep", "ended"}
    BY <1>1, <1>2, <2>2
  <2>4. /\ cpc' = "ready" /\ ~cut' => Ready'
        /\ cpc' = "data" /\ ~cut' /\ ~announced' => Fresh'
    BY <1>1, <2>1, <2>2
  <2> QED
    BY <2>3, <2>4 DEF HeadInv, Ready, Fresh
<1> QED
  BY <1>3, <1>4, <1>5, <1>6 DEF TInv

\* READY: it is alone on the connection.
LEMMA TReady ==
  ASSUME TInv, spc = "key", spc' = "request", Send(Packet("over", Short, 0)), up' = "none",
         UNCHANGED <<exists, size, left, cpc, total, checksum, file, announced, alone, cut>>
  PROVE  TInv'
<1> DEFINE p == Packet("over", Short, 0)
<1>1. Fine(p) /\ p.mode = "over" /\ Send(p)
  <2>1. Short \in Nat /\ Short + Hdr <= Low
    BY TransferAssumption DEF Short
  <2> QED
    BY <2>1, FinePacket
<1> HIDE DEF p
<1>2. SentInv /\ StreamInv /\ HeadInv /\ left \in 0 .. size
  BY DEF TInv, SentInv
<1>3. /\ sent = <<>> /\ stream = <<>> /\ cpc \in {"ready", "gone"}
      /\ cpc = "ready" => ~announced /\ file = <<>>
  BY <1>2 DEF HeadInv
<1>4. Len(sent') = 1 /\ sent'[1] = p /\ stream' = [b \in 1 .. p.size |-> <<1, b - 1>>]
  <2>1. Len(sent) = 0 /\ Len(stream) = 0
    BY <1>3
  <2>2. Len(sent') = 1 /\ sent'[1] = p
    BY <1>1, <1>3 DEF Send
  <2> DEFINE new == [b \in 1 .. p.size |-> <<1, b - 1>>]
  <2>3. stream' = <<>> \o new
    BY <1>1, <1>3, <2>1 DEF Send
  <2>4. p.size \in Nat
    BY <1>1 DEF Fine, Packets
  <2>5. new \in Seq(Nat \X Nat)
    <3> DEFINE z == p.size
    <3>1. z \in Nat
      BY <2>4
    <3> HIDE DEF z
    <3>2. \A b \in 1 .. z : <<1, b - 1>> \in Nat \X Nat
      BY <3>1
    <3>3. [b \in 1 .. z |-> <<1, b - 1>>] \in Seq(Nat \X Nat)
      BY <3>1, <3>2
    <3> QED
      BY <3>3 DEF z
  <2> HIDE DEF new
  <2>6. stream' = new
    BY <2>3, <2>5, ConcatEmptySeq
  <2> QED
    BY <2>2, <2>6 DEF new
<1>5. SentInv'
  BY <1>1, <1>2, SendSent DEF Early
<1>6. StreamInv'
  BY <1>1, <1>2, SendStream
<1>7. FileInv'
  <2>1. ~cut => UpTo(file, size - left')
    BY DEF TInv, FileInv
  <2> QED
    BY <1>1, <2>1, SendFile DEF Early
<1>8. HeadInv'
  BY <1>2, <1>3, <1>4 DEF HeadInv
<1>9. CountInv' /\ ExistsInv'
  BY DEF TInv, CountInv, ExistsInv
<1> QED
  BY <1>5, <1>6, <1>7, <1>8, <1>9 DEF TInv

LEMMA SendHead ==
  ASSUME TInv, NEW p, Fine(p), Send(p), spc \in {"checksum", "file", "off"},
         spc' \in {"file", "off", "sleep"}, spc = "off" => spc' = "sleep",
         UNCHANGED <<cpc, announced, file, cut>>, spc = "checksum" => p.mode = "checksum"
  PROVE  HeadInv'
<1> SentInv /\ StreamInv /\ HeadInv
  BY DEF TInv
<1>1. cpc # "ready" /\ (spc = "checksum" => Len(sent) = 1)
      /\ (spc = "file" \/ (spc = "off" /\ ~cut) => Len(sent) >= 2)
  BY DEF HeadInv
<1>2. Len(sent') = Len(sent) + 1 /\ Len(sent) \in Nat
  BY Sending DEF SentInv
<1>3. spc' \in {"file", "off"} => Len(sent') >= 2
  BY <1>1, <1>2
<1>4. ASSUME cpc = "data", ~cut, ~announced
      PROVE  Len(sent') >= 2 /\ stream' # <<>> /\ stream'[1] = <<2, 0>> /\ sent'[2].mode = "checksum"
  <2>1. \/ Len(sent) = 1 /\ stream = <<>>
        \/ Len(sent) >= 2 /\ stream # <<>> /\ stream[1] = <<2, 0>> /\ sent[2].mode = "checksum"
    BY <1>4 DEF HeadInv
  <2>2. CASE Len(sent) = 1 /\ stream = <<>>
    <3>1. p.mode = "checksum"
      BY <1>1, <1>4, <2>2
    <3>2. sent'[2] = p /\ Len(sent') = 2
      <4>1. sent'[Len(sent) + 1] = p
        BY Sending
      <4> QED
        BY <1>2, <2>2, <4>1
    <3>3. p.size \in Nat /\ p.size >= 1
      BY TransferAssumption DEF Fine, Packets
    <3>4. Len(stream) = 0
      BY <2>2
    <3>5. Len(stream') = p.size /\ \A j \in 1 .. Len(stream') : stream'[j] = <<2, j - 1>>
      <4>1. Len(stream') = Len(stream) + p.size
        BY Sending
      <4>2. \A j \in Len(stream) + 1 .. Len(stream') :
              stream'[j] = <<Len(sent) + 1, j - Len(stream) - 1>>
        BY Sending
      <4>3. Len(stream') = p.size
        BY <3>3, <3>4, <4>1
      <4>4. \A j \in 1 .. Len(stream') : stream'[j] = <<2, j - 1>>
        BY <2>2, <3>4, <4>2
      <4> QED
        BY <4>3, <4>4
    <3>6. stream' # <<>> /\ stream'[1] = <<2, 0>>
      BY <3>3, <3>5
    <3> QED
      BY <3>1, <3>2, <3>6
  <2>3. CASE Len(sent) >= 2 /\ stream # <<>> /\ stream[1] = <<2, 0>> /\ sent[2].mode = "checksum"
    <3>1. stream \in Seq(Nat \X Nat)
      BY DEF StreamInv
    <3>2. 1 \in 1 .. Len(stream) /\ 2 \in 1 .. Len(sent)
      BY <1>2, <2>3, <3>1
    <3>3. stream'[1] = stream[1] /\ sent'[2] = sent[2]
      BY <3>2, Sending
    <3>4. Len(stream') = Len(stream) + p.size
      BY Sending
    <3>5. p.size \in Nat
      BY DEF Fine, Packets
    <3>6. Len(stream') > 0
      BY <3>1, <3>2, <3>4, <3>5
    <3> QED
      BY <1>2, <2>3, <3>3, <3>6
  <2> QED
    BY <2>1, <2>2, <2>3
<1> QED
  BY <1>1, <1>3, <1>4 DEF HeadInv

LEMMA TChecksum ==
  ASSUME TInv, Checksum PROVE TInv'
<1> DEFINE p == Packet("checksum", Short, size)
<1>1. /\ spc = "checksum" /\ spc' = "file" /\ left' = size /\ Send(p)
      /\ UNCHANGED <<exists, size, cpc, total, checksum, file, announced, alone, cut>>
  BY DEF Checksum, client
<1>2. size \in Nat /\ size \in 0 .. size
  BY TransferAssumption DEF TInv, SentInv
<1>3. Fine(p) /\ p.mode = "checksum" /\ p.at = size
  <2>1. Short \in Nat /\ Short + Hdr <= Low
    BY TransferAssumption DEF Short
  <2> QED
    BY <1>2, <2>1, FinePacket
<1> HIDE DEF p
<1>4. exists
  BY <1>1 DEF TInv, ExistsInv
<1>5. SentInv'
  BY <1>1, <1>2, <1>3, <1>4, SendSent DEF Early
<1>6. StreamInv'
  BY <1>1, <1>3, SendStream DEF TInv
<1>7. FileInv'
  <2>1. file = <<>>
    BY <1>1 DEF TInv, FileInv, Early
  <2>2. UpTo(file, size - left')
    BY <1>1, <1>2, <2>1 DEF UpTo
  <2> QED
    BY <1>1, <1>3, <2>2, SendFile DEF Early
<1>8. HeadInv'
  BY <1>1, <1>3, SendHead
<1>9. CountInv'
  BY <1>1 DEF TInv, CountInv
<1>10. ExistsInv'
  BY <1>1, <1>4 DEF ExistsInv
<1> QED
  BY <1>5, <1>6, <1>7, <1>8, <1>9, <1>10 DEF TInv

LEMMA TSegment ==
  ASSUME TInv, lcs_whs_send_file, left # 0 PROVE TInv'
<1> DEFINE p == Packet("data", Segment, size - left)
<1>1. /\ spc = "file" /\ spc' \in {"file", "off"} /\ left' = left - Segment /\ Send(p)
      /\ UNCHANGED <<exists, size, cpc, total, checksum, file, announced, alone, cut>>
  BY DEF lcs_whs_send_file, client
<1>2. size \in Nat /\ left \in 1 .. size /\ Hdr \in Nat /\ Low \in Nat /\ Hdr < Low
  BY TransferAssumption DEF TInv, SentInv
<1>3. Segment \in 1 .. left /\ Segment + Hdr <= Low
  BY <1>2 DEF Segment
<1>4. /\ size - left \in Nat /\ left' \in 0 .. size /\ left' <= left
      /\ (size - left) + Segment <= size - left' /\ size - left < size - left'
  BY <1>1, <1>2, <1>3
<1>5. Fine(p) /\ p.mode = "data" /\ p.at = size - left /\ p.n = Segment
  BY <1>3, <1>4, FinePacket
<1> HIDE DEF p
<1>6. SentInv'
  BY <1>1, <1>4, <1>5, SendSent DEF Early
<1>7. StreamInv'
  BY <1>1, <1>5, SendStream DEF TInv
<1>8. FileInv'
  <2>1. ASSUME ~cut PROVE UpTo(file, size - left) /\ UpTo(file, size - left')
    <3>1. UpTo(file, size - left) /\ Len(file) \in Nat
      BY <2>1 DEF TInv, FileInv
    <3>2. Len(file) <= size - left
      BY <3>1 DEF UpTo
    <3>3. Len(file) <= size - left' /\ Len(file) # size - left'
      <4>1. \A a, b, c \in Int : a <= b /\ b < c => a <= c /\ a # c
        OBVIOUS
      <4>2. size - left \in Int /\ size - left' \in Int
        BY <1>2, <1>4
      <4> QED
        BY <1>4, <3>1, <3>2, <4>1, <4>2
    <3> QED
      BY <3>1, <3>3 DEF UpTo
  <2> QED
    BY <1>1, <1>5, <2>1, SendFile DEF Early
<1>9. HeadInv'
  BY <1>1, <1>5, SendHead
<1>10. CountInv' /\ ExistsInv'
  BY <1>1 DEF TInv, CountInv, ExistsInv
<1> QED
  BY <1>6, <1>7, <1>8, <1>9, <1>10 DEF TInv

LEMMA TSendOff ==
  ASSUME TInv, SendOff PROVE TInv'
<1> DEFINE p == Packet("off", Short, 0)
<1>1. /\ spc = "off" /\ spc' = "sleep" /\ Send(p)
      /\ UNCHANGED <<exists, size, left, cpc, total, checksum, file, announced, alone, cut>>
  BY DEF SendOff, client
<1>2. Fine(p) /\ p.mode = "off"
  <2>1. Short \in Nat /\ Short + Hdr <= Low
    BY TransferAssumption DEF Short
  <2> QED
    BY <2>1, FinePacket
<1> HIDE DEF p
<1>3. left \in 0 .. size /\ left' <= left
  BY <1>1, TransferAssumption DEF TInv, SentInv
<1>4. SentInv'
  BY <1>1, <1>2, <1>3, SendSent DEF Early
<1>5. StreamInv'
  BY <1>1, <1>2, SendStream DEF TInv
<1>6. FileInv'
  <2>1. ~cut => UpTo(file, size - left')
    BY <1>1 DEF TInv, FileInv
  <2> QED
    BY <1>1, <1>2, <2>1, SendFile DEF Early
<1>7. HeadInv'
  BY <1>1, <1>2, SendHead
<1>8. CountInv' /\ ExistsInv'
  BY <1>1 DEF TInv, CountInv, ExistsInv
<1> QED
  BY <1>4, <1>5, <1>6, <1>7, <1>8 DEF TInv

-----------------------------------------------------------------------------
(* The steps of the client.                                                *)

\* What one recv has of the first packet: all of it, when it begins with it and
\* nothing was cut.
LEMMA HeadPacket ==
  ASSUME TInv, stream # <<>>, NEW m \in 1 .. Available, Received(m)
  PROVE  /\ m \in 1 .. Len(stream) /\ 1 \in 1 .. Len(stream)
         /\ stream[1][1] \in 1 .. Len(sent) /\ Fine(First)
         /\ AtHead /\ ~cut' => ~cut /\ m = Available /\ m >= First.size
         /\ ~cut' => ~cut
<1>1. SentInv /\ StreamInv /\ stream \in Seq(Nat \X Nat) /\ Low \in Nat
  BY TransferAssumption DEF TInv, StreamInv
<1>2. Len(stream) \in Nat /\ Len(stream) > 0
  BY <1>1
<1>3. Available \in 1 .. Len(stream) \/ Available = 0
  BY <1>1, <1>2 DEF Available
<1>4. m \in 1 .. Len(stream) /\ 1 \in 1 .. Len(stream) /\ Available \in Nat
  BY <1>2, <1>3
<1>5. /\ stream[1][1] \in 1 .. Len(sent) /\ First \in Packets /\ First.size \in Nat
      /\ stream[1][2] \in Nat /\ 1 + First.size <= Len(stream) + 1 + stream[1][2]
  BY <1>1, <1>4, OneByte DEF First
<1>6. Fine(First)
  BY <1>1, <1>5 DEF SentInv, First, Fine
<1>7. cut' = (cut \/ m < Available)
  BY DEF Received
<1>8. ASSUME AtHead, ~cut' PROVE ~cut /\ m = Available /\ m >= First.size
  <2>1. ~cut /\ ~(m < Available)
    BY <1>7, <1>8
  <2>2. m = Available
    BY <1>4, <2>1
  <2>3. stream[1][2] = 0
    BY <1>8 DEF AtHead
  <2> DEFINE z == First.size
  <2>4. z \in Nat /\ z <= Len(stream) /\ z <= Low
    <3>1. z <= Low /\ z \in Nat
      BY <1>5, <1>6 DEF Fine
    <3>2. z <= Len(stream)
      BY <1>2, <1>5, <2>3
    <3> QED
      BY <3>1, <3>2
  <2> HIDE DEF z
  <2>5. z <= Available
    BY <1>1, <1>2, <2>4 DEF Available
  <2> QED
    BY <2>1, <2>2, <2>5 DEF z
<1>9. ~cut' => ~cut
  BY <1>7
<1> QED
  BY <1>4, <1>5, <1>6, <1>8, <1>9

LEMMA TRecvReady ==
  ASSUME TInv, lcs_odbc_recv_ready PROVE TInv'
<1>0. SentInv /\ StreamInv /\ HeadInv /\ FileInv /\ CountInv /\ ExistsInv
  BY DEF TInv
<1>1. /\ cpc = "ready" /\ stream # <<>>
      /\ UNCHANGED <<exists, size, spc, left, sent, total, checksum, file, announced, alone>>
  BY DEF lcs_odbc_recv_ready, server
<1>2. PICK m \in 1 .. Available :
        /\ Received(m)
        /\ \/ AtHead /\ m \in Block .. First.size /\ cpc' \in {"data", "check"}
           \/ AtHead /\ m \in Block .. First.size - 1 /\ cpc' = "failure"
           \/ (~AtHead \/ m < Block) /\ cpc' \in {"ready", "failure"} /\ up' = up
  BY DEF lcs_odbc_recv_ready
<1>3. /\ m \in 1 .. Len(stream) /\ Fine(First)
      /\ AtHead /\ ~cut' => ~cut /\ m = Available /\ m >= First.size
      /\ ~cut' => ~cut
  BY <1>1, <1>2, HeadPacket
<1>4. StreamInv' /\ Len(stream') = Len(stream) - m
  BY <1>0, <1>1, <1>2, <1>3, Receiving
<1>5. ~announced /\ file = <<>> /\ spc \in {"request", "sleep", "ended"} /\ Len(file) = 0
  BY <1>0, <1>1 DEF HeadInv
<1>6. SentInv'
  BY <1>0, <1>1 DEF SentInv
<1>7. FileInv'
  <2>2. \A x \in Nat : UpTo(file, x)
    BY <1>5 DEF UpTo
  <2>3. ASSUME NEW j \in 1 .. Len(stream') PROVE sent[stream'[j][1]].at \in Nat
    <3>1. stream'[j][1] \in 1 .. Len(sent)
      BY <1>1, <1>4 DEF StreamInv
    <3>2. sent[stream'[j][1]] \in Packets
      BY <1>0, <3>1 DEF SentInv
    <3> QED
      BY <3>2 DEF Packets
  <2>4. size - left \in Nat
    BY <1>0, TransferAssumption DEF SentInv
  <2>5. /\ file' \in Seq(Nat) /\ total' = Len(file') % UInt
        /\ spc' \in Early => file' = <<>>
    BY <1>0, <1>1 DEF FileInv
  <2> QED
    BY <1>1, <2>2, <2>3, <2>4, <2>5 DEF FileInv
<1>8. ASSUME ~cut' PROVE cpc' \in {"data", "check"} /\ Len(sent) = 1 /\ stream' = <<>>
  <2>1. ~cut
    BY <1>3, <1>8
  <2>2. Len(sent) = 1 /\ stream = [b \in 1 .. sent[1].size |-> <<1, b - 1>>]
    BY <1>0, <1>1, <2>1 DEF HeadInv
  <2>3. sent[1] \in Packets
    <3>1. 1 \in 1 .. Len(sent)
      BY <2>2
    <3> QED
      BY <1>0, <3>1 DEF SentInv
  <2> DEFINE z == sent[1].size
  <2>4. z \in Nat /\ z >= Block /\ Block \in Nat \ {0}
    <3>1. 1 \in 1 .. Len(sent)
      BY <2>2
    <3> QED
      BY <1>0, <2>3, <3>1, TransferAssumption DEF SentInv, Packets
  <2>5. Len(stream) = z /\ stream[1] = <<1, 0>>
    <3>1. stream = [b \in 1 .. z |-> <<1, b - 1>>]
      BY <2>2
    <3> HIDE DEF z
    <3>2. 1 \in 1 .. z
      BY <2>4
    <3>3. stream[1] = <<1, 1 - 1>>
      BY <3>1, <3>2
    <3>4. Len(stream) = z
      BY <2>4, <3>1
    <3> QED
      BY <3>3, <3>4
  <2>6. AtHead /\ First = sent[1]
    BY <2>5 DEF AtHead, First
  <2>7. m >= z /\ m \in 1 .. z
    BY <1>3, <1>8, <2>5, <2>6
  <2> HIDE DEF z
  <2>8. m = z /\ ~(m < Block) /\ ~(m \in Block .. z - 1)
    BY <2>4, <2>7
  <2>9. cpc' \in {"data", "check"}
    BY <1>2, <2>6, <2>8 DEF z
  <2>10. stream' = <<>>
    <3>1. Len(stream') = 0
      BY <1>4, <2>4, <2>5, <2>8
    <3>2. stream' \in Seq(Nat \X Nat)
      BY <1>4 DEF StreamInv
    <3> QED
      BY <3>1, <3>2
  <2> QED
    BY <2>2, <2>9, <2>10
<1>9. HeadInv'
  <2>1. spc' \in {"request", "sleep", "ended"} /\ (spc' = "request" => Len(sent') = 1)
    BY <1>0, <1>1, <1>5 DEF HeadInv
  <2>2. cpc' = "ready" => up' # "request"
    BY <1>0, <1>1, <1>2 DEF HeadInv
  <2> QED
    BY <1>1, <1>5, <1>8, <2>1, <2>2 DEF HeadInv
<1>10. CountInv' /\ ExistsInv'
  BY <1>0, <1>1, <1>2, <1>5 DEF CountInv, ExistsInv
<1> QED
  BY <1>4, <1>6, <1>7, <1>9, <1>10 DEF TInv

\* Steps of the client that receive nothing.
LEMMA TClientQuiet ==
  ASSUME TInv, RecvNothing \/ Check PROVE TInv'
<1>1. /\ UNCHANGED <<exists, size, spc, left, up, sent, stream, total, checksum, file, announced>>
      /\ UNCHANGED <<alone, cut>>
      /\ cpc \in {"data", "check"} /\ cpc' \in {"check", "success", "failure"}
      /\ cpc' = "success" => checksum = total
      /\ cpc' = "failure" => checksum # total
  BY DEF RecvNothing, Check, server
<1>2. SentInv' /\ StreamInv' /\ FileInv'
  BY <1>1, TSame
<1>3. HeadInv'
  BY <1>1 DEF TInv, HeadInv
<1>4. CountInv' /\ ExistsInv'
  BY <1>1 DEF TInv, CountInv, ExistsInv
<1> QED
  BY <1>2, <1>3, <1>4 DEF TInv

\* The client is gone: it says nothing of the file any more.
LEMMA TClientDies ==
  ASSUME TInv, ClientDies PROVE TInv'
<1>1. /\ UNCHANGED <<exists, size, spc, left, sent, stream, total, checksum, file, announced>>
      /\ UNCHANGED <<alone, cut>>
      /\ cpc \in {"ready", "data", "check"} /\ cpc' = "gone"
  BY DEF ClientDies, server
<1>2. SentInv' /\ StreamInv' /\ FileInv'
  BY <1>1, TSame
<1>3. HeadInv'
  BY <1>1 DEF TInv, HeadInv
<1>4. CountInv' /\ ExistsInv'
  BY <1>1 DEF TInv, CountInv, ExistsInv
<1> QED
  BY <1>2, <1>3, <1>4 DEF TInv

\* A segment that was not cut is written as it is, and counted.
LEMMA Written ==
  ASSUME TInv, stream # <<>>, NEW m \in 1 .. Available, Received(m), First.mode = "data",
         total' = Counted, file' = file \o Data(m)
  PROVE  /\ file' \in Seq(Nat) /\ Len(file') = Len(file) + First.n
         /\ total' = Len(file') % UInt
         /\ AtHead /\ ~cut' =>
              /\ \A b \in 1 .. Len(file) : file'[b] = file[b]
              /\ \A b \in 1 .. First.n : file'[Len(file) + b] = First.at + b
<1>1. /\ file \in Seq(Nat) /\ Len(file) \in Nat /\ total = Len(file) % UInt
      /\ UInt \in Nat \ {0} /\ Hdr \in Nat /\ Block \in Nat \ {0}
  BY TransferAssumption DEF TInv, FileInv
<1>2. /\ Fine(First) /\ m \in Nat
      /\ AtHead /\ ~cut' => m >= First.size
  <2>1. /\ m \in 1 .. Len(stream) /\ Fine(First)
        /\ AtHead /\ ~cut' => m >= First.size
    BY HeadPacket
  <2> QED
    BY <2>1
<1>3. First.n \in Nat /\ First.at \in Nat /\ First.size \in Nat
  BY <1>2 DEF Fine, Packets
<1> DEFINE n == First.n
           at == First.at
           D == Data(m)
<1>4. /\ n \in Nat /\ D = [b \in 1 .. n |-> IF b + Hdr <= m - (m % Block) THEN at + b ELSE Bad]
      /\ at \in Nat
  BY <1>3 DEF Data
<1> HIDE DEF n, at, D
<1>5. D \in [1 .. n -> Nat]
  <2>1. \A b \in 1 .. n : at + b \in Nat /\ Bad \in Nat
    BY <1>4 DEF Bad
  <2> QED
    BY <1>4, <2>1
<1>6. D \in Seq(Nat) /\ Len(D) = n
  BY <1>4, <1>5, SeqDef
<1>7. /\ file' \in Seq(Nat) /\ Len(file') = Len(file) + Len(D)
      /\ \A b \in 1 .. Len(file) + Len(D) :
           file'[b] = IF b <= Len(file) THEN file[b] ELSE D[b - Len(file)]
  BY <1>1, <1>6, ConcatProperties DEF D
<1>8. total' = Len(file') % UInt
  <2>1. total' = ((Len(file) % UInt) + n) % UInt
    BY <1>1 DEF Counted, n
  <2>2. ((Len(file) % UInt) + n) % UInt = (Len(file) + n) % UInt
    BY <1>1, <1>4, ModAdd
  <2> QED
    BY <1>6, <1>7, <2>1, <2>2
<1>9. ASSUME NEW b \in 1 .. Len(file) PROVE file'[b] = file[b]
  <2>1. b \in 1 .. Len(file) + Len(D) /\ b <= Len(file)
    BY <1>1, <1>4, <1>6
  <2> QED
    BY <1>7, <2>1
<1>10. ASSUME AtHead, ~cut', NEW b \in 1 .. n PROVE file'[Len(file) + b] = at + b
  <2>1. /\ Len(file) + b \in 1 .. Len(file) + Len(D) /\ ~(Len(file) + b <= Len(file))
        /\ (Len(file) + b) - Len(file) = b
    BY <1>1, <1>4, <1>6
  <2>2. file'[Len(file) + b] = D[(Len(file) + b) - Len(file)]
    BY <1>7, <2>1
  <2>3. file'[Len(file) + b] = D[b]
    BY <2>1, <2>2
  <2> DEFINE z == First.size
             e == m - (m % Block)
  <2>4. z \in Nat /\ z >= n + Hdr /\ z % Block = 0 /\ z <= m
    BY <1>2, <1>3, <1>10 DEF Fine, n
  <2>5. z <= e /\ e \in Nat
    <3> HIDE DEF z
    <3> QED
      BY <1>1, <1>2, <2>4, Blocks
  <2> HIDE DEF z
  <2>6. D[b] = IF b + Hdr <= e THEN at + b ELSE Bad
    BY <1>4
  <2> HIDE DEF e
  <2>7. b + Hdr <= e
    BY <1>1, <1>4, <2>4, <2>5
  <2> QED
    BY <2>3, <2>6, <2>7
<1> QED
  BY <1>6, <1>7, <1>8, <1>9, <1>10 DEF n, at

\* From the place of the segment to its end and beyond.
LEMMA Further ==
  ASSUME NEW at \in Nat, NEW n \in Nat, NEW y \in Nat, at + n <= y,
         file \in Seq(Nat), UpTo(file, at), file' \in Seq(Nat), Len(file') = Len(file) + n,
         \A b \in 1 .. Len(file) : file'[b] = file[b],
         \A b \in 1 .. n : file'[Len(file) + b] = at + b
  PROVE  UpTo(file', y)
<1>1. Len(file) \in Nat /\ Len(file) <= at
  BY DEF UpTo
<1>2. Len(file') <= y
  BY <1>1
<1>3. ASSUME Len(file') = y, NEW b \in 1 .. y PROVE file'[b] = b
  <2>1. Len(file) = at /\ y = at + n
    BY <1>1, <1>3
  <2>2. CASE b <= at
    <3>1. file[b] = b
      BY <2>1, <2>2 DEF UpTo
    <3>2. b \in 1 .. Len(file)
      BY <2>1, <2>2
    <3> QED
      BY <3>1, <3>2
  <2>3. CASE at < b
    <3>1. b - at \in 1 .. n /\ at + (b - at) = b
      BY <2>1, <2>3
    <3>2. file'[Len(file) + (b - at)] = at + (b - at)
      BY <3>1
    <3> QED
      BY <2>1, <3>1, <3>2
  <2> QED
    BY <2>2, <2>3
<1> QED
  BY <1>2, <1>3 DEF UpTo

LEMMA TRecvFile ==
  ASSUME TInv, lcs_odbc_recv_file PROVE TInv'
<1>0. SentInv /\ StreamInv /\ HeadInv /\ FileInv /\ CountInv /\ ExistsInv
  BY DEF TInv
<1>1. /\ cpc = "data" /\ stream # <<>>
      /\ UNCHANGED <<exists, size, spc, left, up, sent>>
  BY DEF lcs_odbc_recv_file, server
<1>2. PICK m \in 1 .. Available :
        LET readable == AtHead /\ m >= Block
        IN
        /\ Received(m)
        /\ alone' = (alone /\ AtHead /\ m = First.size)
        /\ \/ /\ readable /\ First.mode = "data"
              /\ total' = Counted /\ file' = file \o Data(m)
              /\ UNCHANGED <<cpc, checksum, announced>>
           \/ /\ readable /\ First.mode = "checksum"
              /\ checksum' \in IF m >= First.size THEN {First.at} ELSE 0 .. MaxSize
              /\ announced' = TRUE /\ UNCHANGED <<cpc, total, file>>
           \/ /\ readable /\ First.mode = "off"
              /\ cpc' = "check" /\ UNCHANGED <<total, checksum, file, announced>>
           \/ /\ ~readable /\ cpc' \in {"data", "check"}
              /\ UNCHANGED <<total, checksum, file, announced>>
  BY DEF lcs_odbc_recv_file
<1>3. /\ m \in 1 .. Len(stream) /\ 1 \in 1 .. Len(stream) /\ stream[1][1] \in 1 .. Len(sent)
      /\ Fine(First)
      /\ AtHead /\ ~cut' => ~cut /\ m >= First.size
      /\ ~cut' => ~cut
  BY <1>1, <1>2, HeadPacket
<1>4. /\ StreamInv'
      /\ \A j \in 1 .. Len(stream') : j + m \in 2 .. Len(stream) /\ stream'[j] = stream[j + m]
  BY <1>0, <1>1, <1>2, <1>3, Receiving
<1>5. SentInv' /\ ExistsInv'
  BY <1>0, <1>1 DEF SentInv, ExistsInv
<1>6. m \in Nat /\ First.size \in Nat /\ First.size >= Block /\ Block \in Nat
  BY <1>3, TransferAssumption DEF Fine, Packets
\* Without a cut the size comes first.
<1>7. ASSUME ~announced, ~cut' PROVE AtHead /\ m >= Block /\ First.mode = "checksum"
  <2>1. ~cut
    BY <1>3, <1>7
  <2>2. stream[1] = <<2, 0>> /\ sent[2].mode = "checksum"
    BY <1>0, <1>1, <1>7, <2>1 DEF HeadInv
  <2>3. AtHead /\ First.mode = "checksum"
    BY <2>2 DEF AtHead, First
  <2>4. m >= First.size
    BY <1>3, <1>7, <2>3
  <2> QED
    BY <1>6, <2>3, <2>4
<1>8. FileInv'
  <2>1. CASE UNCHANGED <<total, file>>
    <3>2. ASSUME ~cut', NEW j \in 1 .. Len(stream'), stream'[j][2] = 0,
                 sent[stream'[j][1]].mode = "data"
          PROVE  UpTo(file, sent[stream'[j][1]].at)
      <4>1. PICK c \in 1 .. Len(stream) : stream'[j] = stream[c]
        <5>1. j + m \in 1 .. Len(stream) /\ stream'[j] = stream[j + m]
          BY <1>4
        <5> QED
          BY <5>1
      <4> QED
        BY <1>0, <1>3, <3>2, <4>1 DEF FileInv
    <3>3. /\ file' \in Seq(Nat) /\ total' = Len(file') % UInt
          /\ spc' \in Early => file' = <<>>
          /\ ~cut' => UpTo(file, size' - left')
      BY <1>0, <1>1, <1>3, <2>1 DEF FileInv
    <3> QED
      BY <1>1, <2>1, <3>2, <3>3 DEF FileInv
  <2>2. CASE AtHead /\ First.mode = "data" /\ total' = Counted /\ file' = file \o Data(m)
    <3>1. /\ file' \in Seq(Nat) /\ Len(file') = Len(file) + First.n
          /\ total' = Len(file') % UInt
          /\ ~cut' => /\ \A b \in 1 .. Len(file) : file'[b] = file[b]
                      /\ \A b \in 1 .. First.n : file'[Len(file) + b] = First.at + b
      BY <1>1, <1>2, <2>2, Written
    <3> DEFINE q == stream[1][1]
               at == First.at
               n == First.n
    <3>2. at \in Nat /\ n \in Nat
      BY <1>3 DEF Fine, Packets
    <3>3. q \in 1 .. Len(sent) /\ sent[q].mode = "data" /\ First = sent[q]
      BY <1>3, <2>2 DEF First
    <3>4. spc \notin Early /\ at + n <= size - left
      BY <1>0, <3>3 DEF SentInv
    <3>5. ~cut' => UpTo(file, at) /\ file \in Seq(Nat)
      <4>1. stream[1][2] = 0
        BY <2>2 DEF AtHead
      <4> QED
        BY <1>0, <1>3, <2>2, <3>3, <4>1 DEF FileInv
    <3>6. ASSUME ~cut', NEW y \in Nat, at + n <= y PROVE UpTo(file', y)
      <4>1. /\ \A b \in 1 .. Len(file) : file'[b] = file[b]
            /\ \A b \in 1 .. n : file'[Len(file) + b] = at + b
        BY <3>1, <3>6
      <4>2. file' \in Seq(Nat) /\ Len(file') = Len(file) + n
        BY <3>1
      <4> HIDE DEF at, n
      <4> QED
        BY <3>2, <3>5, <3>6, <4>1, <4>2, Further
    <3>7. size - left \in Nat
      BY <1>0, TransferAssumption DEF SentInv
    <3>8. ASSUME ~cut', NEW j \in 1 .. Len(stream'), stream'[j][2] = 0,
                 sent[stream'[j][1]].mode = "data"
          PROVE  UpTo(file', sent[stream'[j][1]].at)
      <4>1. PICK c \in 2 .. Len(stream) : stream'[j] = stream[c]
        <5>1. j + m \in 2 .. Len(stream) /\ stream'[j] = stream[j + m]
          BY <1>4
        <5> QED
          BY <5>1
      <4> DEFINE r == stream[c][1]
      <4>2. c \in 1 .. Len(stream) /\ 1 < c
        OBVIOUS
      <4>3. r \in 1 .. Len(sent) /\ sent[r] \in Packets
        BY <1>0, <4>2, OneByte
      <4>4. q < r \/ (q = r /\ stream[1][2] < stream[c][2])
        BY <1>0, <1>3, <4>2 DEF StreamInv
      <4>5. stream[1][2] = 0 /\ stream[c][2] = 0
        BY <2>2, <3>8, <4>1 DEF AtHead
      <4>6. q < r
        BY <4>4, <4>5
      <4>7. sent[r].mode = "data"
        BY <3>8, <4>1
      <4>8. sent[q].at + sent[q].n <= sent[r].at
        BY <1>0, <3>3, <4>3, <4>6, <4>7 DEF SentInv
      <4>9. at + n <= sent[r].at /\ sent[r].at \in Nat
        BY <3>3, <4>3, <4>8 DEF Packets
      <4>10. UpTo(file', sent[r].at)
        BY <3>6, <3>8, <4>9
      <4> QED
        BY <4>1, <4>10
    <3>9. ~cut' => UpTo(file', size - left)
      BY <3>4, <3>6, <3>7
    <3>10. spc' \in Early => file' = <<>>
      BY <1>1, <3>4
    <3> QED
      BY <1>1, <3>1, <3>8, <3>9, <3>10 DEF FileInv
  <2> QED
    BY <1>2, <2>1, <2>2
<1>9. HeadInv'
  <2>1. spc \notin {"accept", "key"}
    BY <1>0, <1>1 DEF HeadInv
  <2>2. cpc' \in {"data", "check"}
    BY <1>1, <1>2
  <2>3. ~cut' => announced'
    BY <1>2, <1>7
  <2>4. /\ spc \in {"request", "checksum"} => Len(sent) = 1
        /\ spc = "file" \/ (spc = "off" /\ ~cut') => Len(sent) >= 2
    BY <1>0, <1>3 DEF HeadInv
  <2> QED
    BY <1>1, <2>1, <2>2, <2>3, <2>4 DEF HeadInv
<1>10. CountInv'
  <2>1. ~cut' => announced'
    BY <1>2, <1>7
  <2>2. cpc' \in {"data", "check"}
    BY <1>1, <1>2
  <2>3. CASE UNCHANGED <<checksum, announced>>
    <3>1. (alone' => alone) /\ (~cut' => ~cut)
      <4>1. alone' = (alone /\ AtHead /\ m = First.size)
        BY <1>2
      <4> QED
        BY <1>3, <4>1
    <3> QED
      BY <1>0, <1>1, <2>1, <2>2, <2>3, <3>1 DEF CountInv
  <2>4. CASE /\ AtHead /\ First.mode = "checksum" /\ announced' = TRUE
             /\ checksum' \in IF m >= First.size THEN {First.at} ELSE 0 .. MaxSize
    <3>1. exists /\ First.at = size
      BY <1>0, <1>3, <2>4 DEF SentInv, First
    <3>2. alone' \/ ~cut' => m >= First.size
      <4>1. alone' = (alone /\ AtHead /\ m = First.size)
        BY <1>2
      <4>2. alone' => m = First.size
        BY <4>1
      <4>3. m = First.size => m >= First.size
        BY <1>6
      <4> QED
        BY <1>3, <2>4, <4>2, <4>3
    <3> QED
      BY <1>1, <2>2, <2>4, <3>1, <3>2 DEF CountInv
  <2> QED
    BY <1>2, <2>3, <2>4
<1> QED
  BY <1>4, <1>5, <1>8, <1>9, <1>10 DEF TInv

-----------------------------------------------------------------------------
LEMMA NextTInv == TInv /\ [TransferNext]_transferVars => TInv'
<1> SUFFICES ASSUME TInv, [TransferNext]_transferVars PROVE TInv'
  OBVIOUS
<1>1. CASE lcs_whs_3des
  <2>1. \/ UNCHANGED <<sent, stream>>
        \/ /\ spc = "key" /\ spc' = "request" /\ Send(Packet("over", Short, 0)) /\ up' = "none"
           /\ UNCHANGED <<exists, size, left, cpc, total, checksum, file, announced, alone, cut>>
    BY <1>1 DEF lcs_whs_3des, client
  <2> QED
    BY <1>1, <2>1, TServerQuiet, TReady
<1>2. CASE lcs_whs_send_file
  BY <1>2, TServerQuiet, TSegment
<1>3. CASE UNCHANGED transferVars
  <2>1. /\ UNCHANGED <<exists, size, left, sent, stream, file, total, spc, cut>>
        /\ UNCHANGED <<up, cpc, checksum, announced, alone>>
    BY <1>3 DEF transferVars, server, client
  <2>2. SentInv' /\ StreamInv' /\ FileInv'
    BY <2>1, TSame
  <2>3. HeadInv' /\ CountInv' /\ ExistsInv'
    BY <2>1 DEF TInv, HeadInv, CountInv, ExistsInv
  <2> QED
    BY <2>2, <2>3 DEF TInv
<1> QED
  BY <1>1, <1>2, <1>3, TServerQuiet, TChecksum, TSendOff, TRecvReady, TRecvFile, TClientQuiet,
     TClientDies
  DEF TransferNext, ServerStep, ClientStep

\* At the end the counts tell: who has as many bytes as the size says has all of
\* them, and who has all of them has as many.
LEMMA TInvVerdict == TInv => Verdict
<1> SUFFICES ASSUME TInv PROVE Verdict
  OBVIOUS
<1>0. /\ file \in Seq(Nat) /\ Len(file) \in Nat /\ total = Len(file) % UInt
      /\ size \in Nat /\ left \in 0 .. size /\ UInt \in Nat \ {0}
  BY TransferAssumption DEF TInv, FileInv, SentInv
<1>1. ASSUME cpc = "success", ~cut, announced PROVE file = Whole
  <2>1. exists /\ total = size
    BY <1>1 DEF TInv, CountInv
  <2>2. UpTo(file, size - left)
    BY <1>1 DEF TInv, FileInv
  <2>3. size <= Len(file)
    <3>1. \A a \in Nat : a % UInt <= a
      BY <1>0
    <3> QED
      BY <1>0, <2>1, <3>1
  <2>4. Len(file) = size /\ left = 0
    BY <1>0, <2>2, <2>3 DEF UpTo
  <2>5. \A b \in 1 .. size : file[b] = b
    BY <1>0, <2>2, <2>4 DEF UpTo
  <2>6. file = [b \in 1 .. size |-> b]
    BY <1>0, <2>4, <2>5
  <2> QED
    BY <2>1, <2>6 DEF Whole
<1>2. ASSUME cpc = "success", ~cut, ~announced PROVE file = <<>>
  BY <1>2 DEF TInv, CountInv
<1>3. ASSUME cpc = "failure", announced, size < UInt, file = Whole, alone PROVE FALSE
  <2>1. exists /\ checksum = size /\ checksum # total
    BY <1>3 DEF TInv, CountInv
  <2>2. Len(file) = size
    BY <1>0, <1>3, <2>1 DEF Whole
  <2>3. size % UInt = size
    BY <1>0, <1>3
  <2> QED
    BY <1>0, <2>1, <2>2, <2>3
<1> QED
  BY <1>1, <1>2, <1>3 DEF Verdict

\* What the client says of a file is true, for every size of the file, of the
\* packets and of the counter, wherever the bytes are divided.
THEOREM VerdictHolds == TransferSpec => []Verdict
<1>1. TransferSpec => []TInv
  BY InitTInv, NextTInv, PTL DEF TransferSpec
<1> QED
  BY <1>1, TInvVerdict, PTL
=============================================================================
