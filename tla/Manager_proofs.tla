--------------------------- MODULE Manager_proofs ---------------------------
(***************************************************************************)
(* The barrier of the day loop, for any number of servers, any ranges of   *)
(* days and any failures of pthread_create.  IInv is inductive: the count  *)
(* main reads is that of the threads only because of what Counted says     *)
(* while a thread is started and not counted, and a new thread is the only *)
(* one of its server because of OnePerServer.                              *)
(***************************************************************************)
EXTENDS Manager, FiniteSetTheorems, WellFoundedInduction, TLAPS

-----------------------------------------------------------------------------
(* The first day.                                                          *)

LEMMA NatMin ==
  ASSUME NEW T, T \subseteq Nat, T # {}
  PROVE  \E x \in T : \A y \in T : x <= y
<1>1. PICK x \in T : \A y \in T : ~(<<y, x>> \in OpToRel(<, Nat))
  BY WFMin, NatLessThanWellFounded
<1>2. ASSUME NEW y \in T PROVE x <= y
  <2>1. x \in Nat /\ y \in Nat
    OBVIOUS
  <2>2. ~(<<y, x>> \in {ss \in Nat \X Nat : ss[1] < ss[2]})
    BY <1>1 DEF OpToRel
  <2>3. ~(y < x)
    BY <2>1, <2>2
  <2> QED
    BY <2>1, <2>3
<1> QED
  BY <1>2

\* The list starts with the earliest first day of its servers.
LEMMA FirstDay ==
  /\ initStart \in Int /\ initStart >= Empty
  /\ \A s \in HasDates : initStart # Empty /\ initStart <= Start[s]
<1>1. CASE HasDates = {}
  BY <1>1 DEF initStart, Empty
<1>2. CASE HasDates # {}
  <2> DEFINE T == {Start[s] : s \in HasDates}
  <2>1. ASSUME NEW s \in HasDates PROVE Start[s] \in Nat
    BY ManagerAssumption DEF HasDates, Empty, Null
  <2>2. T \subseteq Nat /\ T # {}
    BY <1>2, <2>1
  <2>3. \E x \in T : \A y \in T : x <= y
    BY <2>2, NatMin
  <2>4. Lowest(T) \in T /\ \A y \in T : Lowest(T) <= y
    BY <2>3 DEF Lowest
  <2>5. initStart = Lowest(T)
    BY <1>2 DEF initStart
  <2> HIDE DEF T
  <2>6. initStart \in Nat
    BY <2>2, <2>4, <2>5
  <2>7. \A s \in HasDates : initStart <= Start[s]
    BY <2>4, <2>5 DEF T
  <2> QED
    BY <2>6, <2>7 DEF Empty
<1> QED
  BY <1>1, <1>2

-----------------------------------------------------------------------------
(* Steps of a thread.                                                      *)

LEMMA StepThread ==
  ASSUME TypeOK, OnePerServer, NEW t \in threads, t.step \in DOMAIN Then, Step(t)
  PROVE  /\ [t EXCEPT !.step = Then[t.step]] \in Thread
         /\ [t EXCEPT !.step = Then[t.step]] \notin threads
         /\ IsFiniteSet(threads')
         /\ Cardinality(threads') = Cardinality(threads)
<1> DEFINE u == [t EXCEPT !.step = Then[t.step]]
<1>1. t \in Thread /\ IsFiniteSet(threads)
  BY DEF TypeOK
<1>2. u.srv = t.srv /\ u.day = t.day /\ u.step = Then[t.step] /\ u \in Thread /\ u.step # t.step
  BY <1>1 DEF Thread, Then, Steps
<1>3. u \notin threads
  BY <1>2 DEF OnePerServer
<1>4. IsFiniteSet(threads \ {t}) /\ Cardinality(threads \ {t}) = Cardinality(threads) - 1
  BY <1>1, FS_RemoveElement
<1>5. u \notin threads \ {t}
  BY <1>3
<1>6. threads' = (threads \ {t}) \cup {u}
  BY DEF Step
<1> HIDE DEF u
<1>7. IsFiniteSet(threads') /\ Cardinality(threads') = (Cardinality(threads) - 1) + 1
  BY <1>4, <1>5, <1>6, FS_AddElement
<1>8. Cardinality(threads) \in Nat
  BY <1>1, FS_CardinalityType
<1> QED
  BY <1>2, <1>3, <1>7, <1>8 DEF u

\* Every thread after the step is one from before, with its server and its day.
LEMMA StepKeeps ==
  ASSUME TypeOK, NEW t \in threads, Step(t), NEW v \in threads'
  PROVE  \E w \in threads : w.srv = v.srv /\ w.day = v.day /\ (v = w \/ w = t)
<1>1. t \in Thread
  BY DEF TypeOK
<1>2. v \in threads \/ v = [t EXCEPT !.step = Then[t.step]]
  BY DEF Step
<1> QED
  BY <1>1, <1>2 DEF Thread

LEMMA StepIInv ==
  ASSUME IInv, NEW t \in threads, t.step \in DOMAIN Then, Step(t),
         UNCHANGED <<mainvars, pc, lcs_count_thread, info, exited, cmd, fails, ran>>,
         shm' \subseteq Servers \X Int
  PROVE  IInv'
<1> DEFINE u == [t EXCEPT !.step = Then[t.step]]
<1>t. t \in Thread
  BY DEF IInv, TypeOK
<1>0. u.srv = t.srv /\ u.day = t.day
  BY <1>t DEF Thread
<1>1. /\ u \in Thread /\ IsFiniteSet(threads') /\ Cardinality(threads') = Cardinality(threads)
      /\ threads' = (threads \ {t}) \cup {u}
  BY StepThread DEF IInv, Step
<1> HIDE DEF u
<1>2. TypeOK'
  <2>1. threads' \subseteq Thread /\ IsFiniteSet(threads')
    BY <1>1 DEF IInv, TypeOK
  <2> QED
    BY <2>1 DEF IInv, TypeOK, mainvars
<1>3. DayStable'
  BY <1>0, <1>1 DEF IInv, DayStable, mainvars
<1>4. Barrier'
  BY DEF IInv, Barrier
<1>5. Counted'
  BY <1>1 DEF IInv, Counted
<1>6. OnePerServer'
  BY <1>0, <1>1 DEF IInv, OnePerServer, mainvars
<1> QED
  BY <1>2, <1>3, <1>4, <1>5, <1>6 DEF IInv

LEMMA ThreadIInv ==
  ASSUME IInv, NEW t \in threads, lcs_thread_spec_date(t)
  PROVE  IInv'
<1>t. t \in Thread /\ info \in [Servers -> Int] /\ shm \subseteq Servers \X Int
  BY DEF IInv, TypeOK
<1>1. CASE Work(t)
  <2>1. t.step \in DOMAIN Then /\ shm' \subseteq Servers \X Int
    BY <1>1, <1>t DEF Work, Then
  <2> QED
    BY <1>1, <2>1, StepIInv DEF Work
<1>2. CASE lcs_manager_shm(t)
  <2>1. t.step \in DOMAIN Then /\ shm' \subseteq Servers \X Int
    BY <1>2, <1>t DEF lcs_manager_shm, Then, Thread
  <2> QED
    BY <1>2, <2>1, StepIInv DEF lcs_manager_shm
<1>3. CASE lcs_man_shm_unlink(t)
  <2>1. t.step \in DOMAIN Then /\ shm' \subseteq Servers \X Int
    BY <1>3, <1>t DEF lcs_man_shm_unlink, Then
  <2> QED
    BY <1>3, <2>1, StepIInv DEF lcs_man_shm_unlink
<1>4. CASE lcs_decrease_count(t)
  <2>1. IsFiniteSet(threads) /\ Cardinality(threads) \in Nat
    BY FS_CardinalityType DEF IInv, TypeOK
  <2>2. /\ threads' = threads \ {t} /\ lcs_count_thread' = lcs_count_thread - 1
        /\ UNCHANGED <<mainvars, pc, info, shm, exited, cmd, fails, ran>>
    BY <1>4 DEF lcs_decrease_count
  <2>3. IsFiniteSet(threads') /\ Cardinality(threads') = Cardinality(threads) - 1
    BY <2>1, <2>2, FS_RemoveElement
  <2>4. TypeOK'
    BY <2>2, <2>3 DEF IInv, TypeOK, mainvars
  <2>5. DayStable' /\ Barrier' /\ OnePerServer'
    BY <2>2 DEF IInv, DayStable, Barrier, OnePerServer, mainvars
  <2>6. Counted'
    <3>1. lcs_count_thread \in Int /\ fails \in Nat
      BY DEF IInv, TypeOK
    <3> QED
      BY <2>1, <2>2, <2>3, <3>1 DEF IInv, Counted
  <2> QED
    BY <2>4, <2>5, <2>6 DEF IInv
<1> QED
  BY <1>1, <1>2, <1>3, <1>4 DEF lcs_thread_spec_date

-----------------------------------------------------------------------------
(* Steps of main.                                                          *)

LEMMA SpawnIInv ==
  ASSUME IInv, Spawn
  PROVE  IInv'
<1> DEFINE u == [srv |-> i, day |-> currentdate, step |-> "history"]
<1>t. /\ i \in Servers /\ currentdate \in Int /\ info \in [Servers -> Int]
      /\ ran \in [Servers -> Seq(Int)] /\ threads \subseteq Thread /\ IsFiniteSet(threads)
      /\ lcs_count_thread \in Int /\ fails \in Nat /\ Cardinality(threads) \in Nat
  <2>1. /\ currentdate \in Int /\ info \in [Servers -> Int]
        /\ ran \in [Servers -> Seq(Int)] /\ threads \subseteq Thread /\ IsFiniteSet(threads)
        /\ lcs_count_thread \in Int /\ fails \in Nat /\ i \in 1 .. N + 1
    BY DEF IInv, TypeOK
  <2>2. i \in Servers
    BY <2>1, ManagerAssumption DEF Spawn, Servers
  <2>3. Cardinality(threads) \in Nat
    BY <2>1, FS_CardinalityType
  <2> QED
    BY <2>1, <2>2, <2>3
<1>s. /\ pc = "spawn" /\ pc' = "inc" /\ info' = [info EXCEPT ![i] = currentdate]
      /\ ran' = [ran EXCEPT ![i] = Append(@, currentdate)] /\ i <= N
      /\ UNCHANGED <<mainvars, lcs_count_thread, shm, exited, cmd>>
  BY DEF Spawn
<1>u. u \in Thread /\ u.srv = i /\ u.day = currentdate
  BY <1>t DEF Thread, Steps
<1>n. \A t \in threads : t.srv < i /\ t.srv \in Servers
  BY <1>s, <1>t DEF IInv, OnePerServer, Thread
<1>o. \A t \in threads : t.srv # i
  BY <1>n, <1>t DEF Servers
<1>r. ran' \in [Servers -> Seq(Int)] /\ info' \in [Servers -> Int]
  BY <1>s, <1>t
<1>d. \A t \in threads : info'[t.srv] = t.day /\ t.day = currentdate
  BY <1>n, <1>o, <1>s, <1>t DEF IInv, DayStable
<1>1. CASE threads' = threads \cup {u} /\ fails' = fails
  <2> HIDE DEF u
  <2>1. u \notin threads
    BY <1>o, <1>u
  <2>2. IsFiniteSet(threads') /\ Cardinality(threads') = Cardinality(threads) + 1
    BY <1>1, <1>t, <2>1, FS_AddElement
  <2>3. TypeOK'
    BY <1>1, <1>r, <1>s, <1>u, <2>2 DEF IInv, TypeOK, mainvars, PCs
  <2>4. DayStable'
    BY <1>1, <1>d, <1>u, <1>s, <1>t DEF DayStable, mainvars
  <2>5. Barrier' /\ Counted'
    BY <1>1, <1>s, <1>t, <2>2 DEF IInv, Barrier, Counted
  <2>6. OnePerServer'
    BY <1>1, <1>u, <1>o, <1>n, <1>s DEF IInv, OnePerServer, mainvars
  <2> QED
    BY <2>3, <2>4, <2>5, <2>6 DEF IInv
<1>2. CASE threads' = threads /\ fails' = fails + 1
  <2>3. TypeOK'
    BY <1>2, <1>r, <1>s, <1>t DEF IInv, TypeOK, mainvars, PCs
  <2>4. DayStable'
    BY <1>2, <1>d, <1>s, <1>t DEF DayStable, mainvars
  <2>5. Barrier' /\ Counted'
    BY <1>2, <1>s, <1>t DEF IInv, Barrier, Counted
  <2>6. OnePerServer'
    BY <1>2, <1>n, <1>s DEF IInv, OnePerServer, mainvars
  <2> QED
    BY <2>3, <2>4, <2>5, <2>6 DEF IInv
<1> QED
  BY <1>1, <1>2 DEF Spawn

\* The wait ends with no thread left.
LEMMA WaitIInv ==
  ASSUME IInv, Wait
  PROVE  IInv'
<1>1. IsFiniteSet(threads) /\ Cardinality(threads) \in Nat /\ fails \in Nat
  BY FS_CardinalityType DEF IInv, TypeOK
<1>2. Cardinality(threads) = 0
  BY <1>1 DEF IInv, Counted, Wait
<1>3. threads = {}
  BY <1>1, <1>2, FS_EmptySet
<1> QED
  BY <1>3 DEF IInv, TypeOK, DayStable, Barrier, Counted, OnePerServer, Wait, mainvars, PCs

LEMMA MainIInv ==
  ASSUME IInv, MainStep \/ WriteCmd \/ lcs_hdl_signal
  PROVE  IInv'
<1>t. N \in Nat /\ i \in 1 .. N + 1 /\ lcs_count_thread \in Int /\ currentdate \in Int
  BY ManagerAssumption DEF IInv, TypeOK
<1>1. CASE lcs_next_day
  <2>1. threads = {} /\ threads' = {}
    BY <1>1 DEF IInv, Barrier, lcs_next_day
  <2>2. currentdate' \in Int /\ i' \in 1 .. N + 1
    BY <1>1, <1>t, FirstDay DEF lcs_next_day, IInv, TypeOK, mainvars
  <2> QED
    BY <1>1, <2>1, <2>2 DEF IInv, TypeOK, DayStable, Barrier, Counted, OnePerServer,
                            lcs_next_day, mainvars, PCs
<1>2. CASE Skip
  <2>1. i' \in 1 .. N + 1 /\ pc' \in {"spawn", "wait"} /\ pc = "spawn"
    BY <1>2, <1>t DEF Skip
  <2>2. TypeOK' /\ DayStable' /\ Barrier' /\ Counted'
    BY <1>2, <2>1 DEF IInv, TypeOK, DayStable, Barrier, Counted, Skip, PCs
  <2>3. OnePerServer'
    <3>1. \A t \in threads : t.srv \in Int /\ t.srv < i
      BY <2>1 DEF IInv, TypeOK, OnePerServer, Thread, Servers
    <3>2. i' = i \/ i' = i + 1
      BY <1>2 DEF Skip
    <3>3. \A t \in threads : t.srv < i'
      BY <3>1, <3>2, <1>t
    <3> QED
      BY <1>2, <3>3 DEF IInv, OnePerServer, Skip
  <2> QED
    BY <2>2, <2>3 DEF IInv
<1>3. CASE Spawn
  BY <1>3, SpawnIInv
<1>4. CASE lcs_increase_count
  <2>1. i <= N /\ i' = i + 1 /\ pc = "inc" /\ pc' = "spawn"
    BY <1>4 DEF IInv, TypeOK, lcs_increase_count
  <2>2. TypeOK' /\ DayStable' /\ Barrier'
    BY <1>4, <1>t, <2>1 DEF IInv, TypeOK, DayStable, Barrier, lcs_increase_count, PCs
  <2>3. Counted'
    BY <1>4, <1>t, <2>1 DEF IInv, Counted, lcs_increase_count
  <2>4. OnePerServer'
    <3>1. \A t \in threads : t.srv \in Int /\ (t.srv < i \/ t.srv = i)
      BY <2>1 DEF IInv, TypeOK, OnePerServer, Thread, Servers
    <3>2. \A t \in threads : t.srv < i'
      BY <3>1, <2>1, <1>t
    <3> QED
      BY <1>4, <3>2 DEF IInv, OnePerServer, lcs_increase_count
  <2> QED
    BY <2>2, <2>3, <2>4 DEF IInv
<1>5. CASE Wait
  BY <1>5, WaitIInv
<1>6. CASE CheckStatus
  BY <1>6 DEF IInv, TypeOK, DayStable, Barrier, Counted, OnePerServer, CheckStatus, mainvars, PCs
<1>7. CASE lcs_hdl_cmd
  BY <1>7 DEF IInv, TypeOK, DayStable, Barrier, Counted, OnePerServer, lcs_hdl_cmd, mainvars, PCs
<1>8. CASE WriteCmd
  BY <1>8 DEF IInv, TypeOK, DayStable, Barrier, Counted, OnePerServer, WriteCmd, mainvars
<1>9. CASE lcs_hdl_signal
  BY <1>9 DEF IInv, TypeOK, DayStable, Barrier, Counted, OnePerServer, lcs_hdl_signal, mainvars, PCs
<1> QED
  BY <1>1, <1>2, <1>3, <1>4, <1>5, <1>6, <1>7, <1>8, <1>9 DEF MainStep

-----------------------------------------------------------------------------

LEMMA InitIInv == Init => IInv
<1> SUFFICES ASSUME Init PROVE IInv
  OBVIOUS
<1>1. IsFiniteSet(threads) /\ Cardinality(threads) = 0
  BY FS_EmptySet DEF Init
<1>2. ran \in [Servers -> Seq(Int)] /\ info \in [Servers -> Int]
  BY DEF Init, Empty
<1>3. TypeOK
  <2>1. i \in 1 .. N + 1 /\ pc \in PCs /\ pc # "inc" /\ currentdate \in Int
    BY ManagerAssumption DEF Init, PCs, Empty
  <2>2. threads \subseteq Thread /\ shm \subseteq Servers \X Int
    BY DEF Init
  <2>3. /\ startdate = initStart /\ lastdate = initLast
        /\ lcs_count_thread \in Int /\ fails \in Nat
        /\ cmd \in {"none", "LCS_EXIT"}
    BY DEF Init
  <2>4. exited \in BOOLEAN
    BY DEF Init
  <2> QED
    BY <1>1, <1>2, <2>1, <2>2, <2>3, <2>4 DEF TypeOK
<1> QED
  BY <1>1, <1>3 DEF Init, IInv, DayStable, Barrier, Counted, OnePerServer

LEMMA NextIInv == IInv /\ [Next]_vars => IInv'
<1> SUFFICES ASSUME IInv, [Next]_vars PROVE IInv'
  OBVIOUS
<1>1. CASE Next
  BY <1>1, MainIInv, ThreadIInv DEF Next
<1>2. CASE UNCHANGED vars
  BY <1>2 DEF vars, mainvars, IInv, TypeOK, DayStable, Barrier, Counted, OnePerServer
<1> QED
  BY <1>1, <1>2

\* The inductive invariant of the day loop: in every reachable state each thread
\* works on the current day (DayStable) and none is left when main turns to the
\* next one (Barrier).
THEOREM SpecIInv == Spec => []IInv
BY InitIInv, NextIInv, PTL DEF Spec

\* The date in a server's info never changes under the thread that works on it.
THEOREM DayStableHolds == Spec => []DayStable
<1>1. IInv => DayStable
  BY DEF IInv
<1> QED
  BY <1>1, SpecIInv, PTL

\* Main turns to the next day, or to its operator, only when no thread runs.
THEOREM BarrierHolds == Spec => []Barrier
<1>1. IInv => Barrier
  BY DEF IInv
<1> QED
  BY <1>1, SpecIInv, PTL

-----------------------------------------------------------------------------
(* The shared memory regions.                                              *)

LEMMA ShmStep ==
  ASSUME IInv, ShmOwned, [Next]_vars
  PROVE  ShmOwned'
<1>1. ASSUME NEW t \in threads, lcs_thread_spec_date(t)
      PROVE  ShmOwned'
  <2> DEFINE u == [t EXCEPT !.step = Then[t.step]]
  <2>t. t \in Thread /\ info[t.srv] = t.day
    BY DEF IInv, TypeOK, DayStable
  <2>u. u.srv = t.srv /\ u.day = t.day /\ u.step = Then[t.step]
    BY <2>t DEF Thread
  <2> HIDE DEF u
  <2>1. CASE Work(t)
    <3>1. threads' = (threads \ {t}) \cup {u} /\ shm' = shm
      BY <2>1 DEF Work, Step, u
    <3>2. Beyond(t) => Beyond(u)
      BY <2>1, <2>u DEF Work, Beyond, Then
    <3> QED
      BY <3>1, <3>2, <2>u DEF ShmOwned, Beyond
  <2>2. CASE lcs_manager_shm(t)
    <3>1. threads' = (threads \ {t}) \cup {u} /\ shm' = shm \cup {<<t.srv, t.day>>}
      BY <2>2, <2>t DEF lcs_manager_shm, Step, u
    <3>2. Beyond(u) /\ ~Beyond(t)
      BY <2>2, <2>u DEF lcs_manager_shm, Beyond, Then
    <3> QED
      BY <3>1, <3>2, <2>u DEF ShmOwned, Beyond
  <2>3. CASE lcs_man_shm_unlink(t)
    <3>1. threads' = (threads \ {t}) \cup {u} /\ shm' = shm \ {<<t.srv, t.day>>}
      BY <2>3, <2>t DEF lcs_man_shm_unlink, Step, u
    <3> QED
      BY <3>1 DEF ShmOwned, Beyond
  <2>4. CASE lcs_decrease_count(t)
    <3>1. threads' = threads \ {t} /\ shm' = shm /\ ~Beyond(t)
      BY <2>4 DEF lcs_decrease_count, Beyond
    <3> QED
      BY <3>1 DEF ShmOwned, Beyond
  <2> QED
    BY <1>1, <2>1, <2>2, <2>3, <2>4 DEF lcs_thread_spec_date
<1>2. CASE Spawn
  <2>1. threads \subseteq threads' /\ shm' = shm
    BY <1>2 DEF Spawn
  <2> QED
    BY <2>1 DEF ShmOwned, Beyond
<1>3. CASE UNCHANGED <<threads, shm>>
  BY <1>3 DEF ShmOwned, Beyond
<1>4. [Next]_vars => Spawn \/ UNCHANGED <<threads, shm>>
                     \/ \E t \in threads : lcs_thread_spec_date(t)
  BY DEF Next, MainStep, lcs_next_day, Skip, lcs_increase_count, Wait, CheckStatus,
         lcs_hdl_cmd, WriteCmd, lcs_hdl_signal, vars
<1> QED
  BY <1>1, <1>2, <1>3, <1>4

\* Every region in /dev/shm belongs to a running thread of the current day: none
\* outlives its day, whatever date was in the key when it was unlinked.
THEOREM ShmOwnedHolds == Spec => []ShmOwned
<1>1. Init => ShmOwned
  BY DEF Init, ShmOwned
<1>2. IInv /\ ShmOwned /\ [Next]_vars => ShmOwned'
  BY ShmStep
<1> QED
  BY <1>1, <1>2, SpecIInv, PTL DEF Spec

-----------------------------------------------------------------------------
(* The days of each server.                                                *)

\* The current date is at or after the first day, once there is one.
Dated ==
  /\ currentdate = Empty \/ (startdate # Empty /\ startdate <= currentdate)
  /\ pc \in {"spawn", "inc", "wait"} => currentdate # Empty
  /\ startdate >= Empty

LEMMA GivenNext ==
  ASSUME NEW s \in Servers, NEW d \in Int, d # Empty
  PROVE  /\ Given(s, d - 1) \in Nat
         /\ Start[s] <= d /\ d <= Last[s] =>
              Given(s, d) = Given(s, d - 1) + 1 /\ Start[s] + Given(s, d - 1) = d
         /\ ~(Start[s] <= d /\ d <= Last[s]) => Given(s, d) = Given(s, d - 1)
<1>1. Start[s] \in Int /\ Last[s] \in Int /\ Empty \in Int
  BY ManagerAssumption DEF Empty
<1>2. s \in HasDates <=> Start[s] # Empty
  BY DEF HasDates
<1>3. Start[s] = Empty => Last[s] = Empty
  BY ManagerAssumption DEF Empty, Null
<1> QED
  BY <1>1, <1>2, <1>3 DEF Given

LEMMA DaysStep ==
  ASSUME IInv, Dated, EachDayOnce, [Next]_vars
  PROVE  Dated' /\ EachDayOnce'
<1>t. /\ N \in Nat /\ i \in 1 .. N + 1 /\ currentdate \in Int /\ startdate \in Int
      /\ startdate = initStart /\ ran \in [Servers -> Seq(Int)] /\ Empty \in Int
      /\ Servers \subseteq Int
  BY ManagerAssumption, FirstDay DEF IInv, TypeOK, Empty, Servers
<1>l. \A s \in Servers : Len(ran[s]) \in Nat
  BY <1>t
\* A step that leaves the days alone, and the day each server has come to.
<1>k. ASSUME UNCHANGED <<ran, startdate, currentdate>>,
             currentdate # Empty => \A s \in Servers : Given(s, Upto(s)') = Given(s, Upto(s))
      PROVE  EachDayOnce'
  BY <1>k DEF EachDayOnce, Given
<1>1. CASE lcs_next_day
  <2>1. CASE iscomplete
    <3>1. pc = "next" /\ pc' = "status" /\ UNCHANGED <<ran, startdate, currentdate, i>>
      BY <1>1, <2>1 DEF lcs_next_day, mainvars
    <3>2. \A s \in Servers : Upto(s)' = Upto(s)
      BY <3>1 DEF Upto
    <3> QED
      BY <3>1, <3>2, <1>k DEF Dated
  <2>2. CASE ~iscomplete
    <3>1. /\ pc = "next" /\ pc' = "spawn" /\ i' = 1 /\ UNCHANGED <<ran, startdate>>
          /\ currentdate' = IF currentdate = Empty THEN startdate ELSE currentdate + 1
          /\ startdate # Empty
      BY <1>1, <2>2 DEF lcs_next_day, iscomplete
    <3>2. currentdate' \in Int /\ currentdate' # Empty /\ startdate <= currentdate'
      BY <3>1, <1>t DEF Dated, Empty
    <3>3. Dated'
      BY <3>1, <3>2, <1>t DEF Dated
    <3>4. \A s \in Servers : Upto(s)' = currentdate' - 1
      BY <3>1, <1>t DEF Upto, Servers
    <3>5. ASSUME NEW s \in Servers
          PROVE  Len(ran[s]) = Given(s, currentdate' - 1)
      <4>1. CASE currentdate # Empty
        <5>1. currentdate' - 1 = currentdate /\ Upto(s) = currentdate
          BY <4>1, <3>1, <1>t DEF Upto
        <5> QED
          BY <4>1, <5>1 DEF EachDayOnce
      <4>2. CASE currentdate = Empty
        <5>1. currentdate' = startdate /\ Len(ran[s]) = 0
          BY <4>2, <3>1 DEF EachDayOnce
        <5>2. CASE s \notin HasDates
          BY <5>1, <5>2 DEF Given
        <5>3. CASE s \in HasDates
          <6>1. startdate <= Start[s] /\ Start[s] \in Int /\ Last[s] \in Int
            BY <5>3, <1>t, FirstDay, ManagerAssumption
          <6> QED
            BY <5>1, <6>1, <1>t DEF Given
        <5> QED
          BY <5>2, <5>3
      <4> QED
        BY <4>1, <4>2
    <3>6. EachDayOnce'
      <4> SUFFICES ASSUME NEW s \in Servers
                   PROVE  /\ Len(ran'[s]) = IF currentdate' = Empty THEN 0 ELSE Given(s, Upto(s)')
                          /\ \A k \in 1 .. Len(ran'[s]) : ran'[s][k] = Start[s] + k - 1
        BY DEF EachDayOnce, Given
      <4> QED
        BY <3>1, <3>2, <3>4, <3>5 DEF EachDayOnce
    <3> QED
      BY <3>3, <3>6
  <2> QED
    BY <2>1, <2>2
<1>2. CASE Skip
  <2>1. /\ pc = "spawn" /\ UNCHANGED <<ran, startdate, currentdate>>
        /\ pc' \in {"spawn", "wait"} /\ currentdate # Empty
    BY <1>2 DEF Skip, Dated
  <2>2. Dated'
    BY <2>1 DEF Dated
  <2>3. CASE i > N
    <3>1. pc' = "wait" /\ i' = i
      BY <1>2, <2>3 DEF Skip
    <3>2. \A s \in Servers : Upto(s)' = Upto(s)
      BY <2>1, <2>3, <3>1, <1>t DEF Upto, Servers
    <3> QED
      BY <2>1, <2>2, <3>2, <1>k
  <2>4. CASE ~(i > N)
    <3>1. pc' = pc /\ i' = i + 1 /\ ~InRange(i) /\ i \in Servers
      BY <1>2, <2>4, <1>t DEF Skip, Servers
    <3>2. \A s \in Servers : s # i => Upto(s)' = Upto(s)
      BY <2>1, <3>1, <1>t DEF Upto, Servers
    <3>3. Upto(i) = currentdate - 1
      BY <2>1, <3>1 DEF Upto
    <3>4. \A s \in Servers : s = i => Upto(s)' = currentdate
      BY <2>1, <3>1, <1>t DEF Upto, Servers
    <3>5. Given(i, currentdate) = Given(i, currentdate - 1)
      BY <3>1, <2>1, <1>t, GivenNext DEF InRange
    <3>6. \A s \in Servers : Given(s, Upto(s)') = Given(s, Upto(s))
      BY <3>2, <3>3, <3>4, <3>5
    <3> QED
      BY <2>1, <2>2, <3>6, <1>k
  <2> QED
    BY <2>3, <2>4
<1>3. CASE Spawn
  <2>1. /\ pc = "spawn" /\ pc' = "inc" /\ i' = i /\ UNCHANGED <<startdate, currentdate>>
        /\ ran' = [ran EXCEPT ![i] = Append(@, currentdate)]
        /\ InRange(i) /\ i \in Servers /\ currentdate # Empty
    BY <1>3, <1>t DEF Spawn, mainvars, Servers, Dated
  <2>2. Dated'
    BY <2>1 DEF Dated
  <2>3. \A s \in Servers : s # i => Upto(s)' = Upto(s)
    BY <2>1, <1>t DEF Upto
  <2>4. Upto(i) = currentdate - 1
    BY <2>1 DEF Upto
  <2>5. \A s \in Servers : s = i => Upto(s)' = currentdate
    BY <2>1, <1>t DEF Upto, Servers
  <2>6. /\ Given(i, currentdate) = Given(i, currentdate - 1) + 1
        /\ Start[i] + Given(i, currentdate - 1) = currentdate
        /\ Given(i, currentdate - 1) \in Nat
    BY <2>1, <1>t, GivenNext DEF InRange
  <2>7. Len(ran[i]) = Given(i, currentdate - 1) /\ ran[i] \in Seq(Int)
    BY <2>1, <2>4, <1>t DEF EachDayOnce
  <2>8. ASSUME NEW s \in Servers
        PROVE  /\ Len(ran'[s]) = Given(s, Upto(s)')
               /\ \A k \in 1 .. Len(ran'[s]) : ran'[s][k] = Start[s] + k - 1
    <3>1. CASE s # i
      BY <3>1, <2>1, <2>3, <1>t DEF EachDayOnce
    <3>2. CASE s = i
      <4>1. ran'[s] = Append(ran[i], currentdate)
        BY <3>2, <2>1, <1>t
      <4>2. /\ Len(ran'[s]) = Len(ran[i]) + 1 /\ ran'[s][Len(ran[i]) + 1] = currentdate
            /\ \A k \in 1 .. Len(ran[i]) : ran'[s][k] = ran[i][k]
        BY <4>1, <2>7
      <4>3. Start[i] \in Int
        BY <2>1, ManagerAssumption
      <4>4. ASSUME NEW k \in 1 .. Len(ran[i]) + 1
            PROVE  ran'[s][k] = Start[i] + k - 1
        <5>1. CASE k = Len(ran[i]) + 1
          BY <5>1, <4>2, <4>3, <2>6, <2>7, <1>t
        <5>2. CASE k # Len(ran[i]) + 1
          <6>1. k \in 1 .. Len(ran[i])
            BY <5>2, <1>l, <2>1
          <6> QED
            BY <6>1, <4>2, <2>1 DEF EachDayOnce
        <5> QED
          BY <5>1, <5>2
      <4>5. Given(s, Upto(s)') = Len(ran[i]) + 1
        BY <3>2, <2>5, <2>6, <2>7
      <4> QED
        BY <3>2, <4>2, <4>4, <4>5
    <3> QED
      BY <3>1, <3>2
  <2>9. EachDayOnce'
    <3> SUFFICES ASSUME NEW s \in Servers
                 PROVE  /\ Len(ran'[s]) = IF currentdate' = Empty THEN 0 ELSE Given(s, Upto(s)')
                        /\ \A k \in 1 .. Len(ran'[s]) : ran'[s][k] = Start[s] + k - 1
      BY DEF EachDayOnce, Given
    <3> QED
      BY <2>1, <2>8
  <2> QED
    BY <2>2, <2>9
<1>4. CASE lcs_increase_count
  <2>1. /\ pc = "inc" /\ pc' = "spawn" /\ i' = i + 1 /\ currentdate # Empty
        /\ UNCHANGED <<ran, startdate, currentdate>>
    BY <1>4 DEF lcs_increase_count, Dated
  <2>2. \A s \in Servers : Upto(s)' = Upto(s)
    BY <2>1, <1>t DEF Upto, Servers
  <2> QED
    BY <2>1, <2>2, <1>k DEF Dated
<1>5. CASE /\ UNCHANGED <<ran, startdate, currentdate, i>>
           /\ pc' = pc \/ (pc \notin {"spawn", "inc"} /\ pc' \notin {"spawn", "inc", "wait"})
  <2>1. \A s \in Servers : Upto(s)' = Upto(s)
    BY <1>5 DEF Upto
  <2> QED
    BY <1>5, <2>1, <1>k DEF Dated
<1>6. \/ lcs_next_day \/ Skip \/ Spawn \/ lcs_increase_count
      \/ /\ UNCHANGED <<ran, startdate, currentdate, i>>
         /\ pc' = pc \/ (pc \notin {"spawn", "inc"} /\ pc' \notin {"spawn", "inc", "wait"})
  BY DEF Next, MainStep, Wait, CheckStatus, lcs_hdl_cmd, WriteCmd, lcs_hdl_signal, vars,
         mainvars, lcs_thread_spec_date, Work, lcs_manager_shm, lcs_man_shm_unlink,
         lcs_decrease_count
<1> QED
  BY <1>1, <1>2, <1>3, <1>4, <1>5, <1>6

\* Whatever ranges of days the servers have, each is given its own days once and
\* in order, up to the day main has come to.
THEOREM EachDayOnceHolds == Spec => []EachDayOnce
<1>1. Init => Dated /\ EachDayOnce
  <2> SUFFICES ASSUME Init PROVE Dated /\ EachDayOnce
    OBVIOUS
  <2>1. startdate >= Empty
    BY FirstDay DEF Init
  <2>2. \A s \in Servers : Len(ran[s]) = 0
    BY DEF Init
  <2> QED
    BY <2>1, <2>2 DEF Init, Dated, EachDayOnce
<1>2. IInv /\ Dated /\ EachDayOnce /\ [Next]_vars => Dated' /\ EachDayOnce'
  BY DaysStep
<1> QED
  BY <1>1, <1>2, SpecIInv, PTL DEF Spec

-----------------------------------------------------------------------------
(* The last day.                                                           *)

\* The last days of the first m servers have a bound: the first m for which
\* they had none would be one more than one for which they have.
LEMMA LastBounded ==
  \A m \in Nat : \E u \in Nat : \A s \in HasDates : s <= m => Last[s] <= u
<1> DEFINE Bounded(m, u) == \A s \in HasDates : s <= m => Last[s] <= u
           B == {m \in Nat : \A u \in Nat : ~Bounded(m, u)}
<1>1. ASSUME NEW s \in HasDates PROVE s \in Nat /\ s >= 1 /\ Last[s] \in Nat
  BY ManagerAssumption DEF HasDates, Servers, Empty, Null
<1>2. ASSUME B # {} PROVE FALSE
  <2>1. PICK b \in B : \A y \in B : b <= y
    BY <1>2, NatMin
  <2>2. b \in Nat
    OBVIOUS
  <2>3. b # 0
    <3>1. Bounded(0, 0)
      BY <1>1
    <3> QED
      BY <3>1
  <2>4. b - 1 \in Nat /\ b - 1 \notin B
    BY <2>1, <2>2, <2>3
  <2>5. PICK u \in Nat : Bounded(b - 1, u)
    BY <2>4
  <2>6. CASE b \in HasDates
    <3> DEFINE v == IF u < Last[b] THEN Last[b] ELSE u
    <3>1. v \in Nat /\ u <= v /\ Last[b] <= v
      BY <1>1, <2>6
    <3>2. ASSUME NEW s \in HasDates, s <= b PROVE Last[s] <= v
      BY <1>1, <2>2, <2>5, <3>1, <3>2
    <3> QED
      BY <3>1, <3>2
  <2>7. CASE b \notin HasDates
    <3>1. ASSUME NEW s \in HasDates, s <= b PROVE Last[s] <= u
      BY <1>1, <2>2, <2>5, <2>7, <3>1
    <3> QED
      BY <3>1
  <2> QED
    BY <2>6, <2>7
<1> QED
  BY <1>2

\* lcs_init_server_info: the list ends with the latest last day of its servers.
LEMMA LastDay ==
  \A s \in HasDates : initLast \in Nat /\ initLast >= Last[s]
<1> SUFFICES ASSUME HasDates # {}
             PROVE  \A s \in HasDates : initLast \in Nat /\ initLast >= Last[s]
  OBVIOUS
<1> DEFINE T == {Last[s] : s \in HasDates}
           U == {u \in Nat : \A y \in T : y <= u}
<1>1. ASSUME NEW s \in HasDates PROVE Last[s] \in Nat /\ s \in 1 .. N
  BY ManagerAssumption DEF HasDates, Servers, Empty, Null
<1>2. T \subseteq Nat /\ T # {}
  BY <1>1
<1>3. U # {}
  <2>1. PICK u \in Nat : \A s \in HasDates : s <= N => Last[s] <= u
    BY LastBounded, ManagerAssumption
  <2>2. \A s \in HasDates : Last[s] <= u
    BY <1>1, <2>1, ManagerAssumption
  <2> QED
    BY <2>2
<1>4. PICK u \in U : \A v \in U : u <= v
  BY <1>3, NatMin
<1>5. u \in T
  <2> SUFFICES ASSUME u \notin T PROVE FALSE
    OBVIOUS
  <2> HIDE DEF T
  <2>1. PICK y \in T : y \in Nat
    BY <1>2
  <2>2. \A z \in T : z \in Nat /\ z <= u /\ z # u
    BY <1>2
  <2>3. u - 1 \in Nat /\ \A z \in T : z <= u - 1
    BY <2>1, <2>2
  <2>4. u - 1 \in U
    BY <2>3
  <2> QED
    BY <1>4, <2>4
<1>6. \E d \in T : \A e \in T : d >= e
  BY <1>2, <1>5
<1>7. Highest(T) \in T /\ \A e \in T : Highest(T) >= e
  BY <1>6 DEF Highest
<1>8. initLast = Highest(T)
  BY DEF initLast
<1> QED
  BY <1>2, <1>7, <1>8

\* Main leaves the loop when lcs_next_day has found it complete.
Complete == pc \in {"status", "pause", "hdl_cmd", "exit"} => iscomplete

LEMMA CompleteStep == Complete /\ [Next]_vars => Complete'
<1> SUFFICES ASSUME Complete, [Next]_vars PROVE Complete'
  OBVIOUS
<1> USE DEF Complete, iscomplete, mainvars
<1>1. CASE MainStep
  BY <1>1 DEF MainStep, lcs_next_day, Skip, Spawn, lcs_increase_count, Wait, CheckStatus,
              lcs_hdl_cmd
<1>2. ASSUME NEW t \in threads, lcs_thread_spec_date(t) PROVE Complete'
  BY <1>2 DEF lcs_thread_spec_date, Work, lcs_manager_shm, lcs_man_shm_unlink,
              lcs_decrease_count, Step
<1>3. CASE WriteCmd \/ lcs_hdl_signal \/ UNCHANGED vars
  BY <1>3 DEF WriteCmd, lcs_hdl_signal, vars
<1> QED
  BY <1>1, <1>2, <1>3 DEF Next

\* When the loop of lcs_start_bdata is over every server has had all its days, the
\* last one too, although only the latest of all last days ends it.
THEOREM AllDaysHolds == Spec => []AllDays
<1>1. Init => Complete
  BY DEF Init, Complete
<1>2. IInv /\ EachDayOnce /\ Complete => AllDays
  <2> SUFFICES ASSUME IInv, EachDayOnce, iscomplete,
                      pc \in {"status", "pause", "hdl_cmd", "exit"}, NEW s \in HasDates
               PROVE  Len(ran[s]) = Last[s] - Start[s] + 1
    BY DEF AllDays, Complete
  <2>1. s \in Servers /\ Start[s] \in Nat /\ Last[s] \in Nat /\ Start[s] <= Last[s]
    BY ManagerAssumption DEF HasDates, Servers, Empty, Null
  <2>2. lastdate \in Nat /\ lastdate >= Last[s] /\ startdate # Empty /\ currentdate \in Int
    BY LastDay, FirstDay DEF IInv, TypeOK
  <2>3. currentdate # Empty /\ currentdate >= Last[s]
    BY <2>1, <2>2 DEF iscomplete, Empty
  <2>4. Upto(s) = currentdate
    BY DEF Upto
  <2>5. Given(s, currentdate) = Last[s] - Start[s] + 1
    BY <2>1, <2>2, <2>3 DEF Given
  <2> QED
    BY <2>1, <2>3, <2>4, <2>5 DEF EachDayOnce
<1> QED
  BY <1>1, <1>2, CompleteStep, SpecIInv, EachDayOnceHolds, PTL DEF Spec
=============================================================================
