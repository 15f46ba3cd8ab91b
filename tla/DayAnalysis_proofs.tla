------------------------ MODULE DayAnalysis_proofs ------------------------
(***************************************************************************)
(* For any number of hours and cells, any shape of the programs and any    *)
(* failures and crashes: the counters are right, no file is read while it  *)
(* is written, no cell is counted twice and no finished result is lost;    *)
(* and a day in which nothing failed is complete.                          *)
(***************************************************************************)
EXTENDS DayAnalysis, TLAPS, FiniteSetTheorems

\* Who may be where.
Places ==
  /\ dpc = "run" => di \in Hours /\ dayProg.start = "inline"
  /\ \A h \in Hours : hpc[h] = "exit" => dayProg.start = "threads"
  /\ \A h \in Hours : hpc[h] = "run" => hourProg.start = "inline" /\ hi[h] \in Units
  /\ \A c \in Cells : upc[c] = "exit" => hourProg.start = "threads"

\* The hour programs that run, as main of the day program knows them.
DayLive ==
  /\ dpc \in {"collect", "write", "idle"} => \A h \in Hours : hpc[h] = "off"
  /\ dpc = "scan" => \A h \in Hours : h >= di => hpc[h] = "off"
  /\ dayProg.start = "inline" =>
       \A h \in Hours : hpc[h] # "off" => dpc = "run" /\ h = di

DayCount == dayProg.start = "threads" => count = Cardinality(Live) + lost

\* The five-minute programs, as their hour program knows them.
LiveAt(h, u) ==
  /\ upc[<<h, u>>] # "off" => hpc[h] \in {"scan", "run"}
  /\ hpc[h] = "scan" /\ u >= hi[h] => upc[<<h, u>>] = "off"
  /\ hourProg.start = "inline" /\ upc[<<h, u>>] # "off" =>
       hpc[h] = "run" /\ u = hi[h]
HourLive == \A h \in Hours, u \in Units : LiveAt(h, u)

HourCount ==
  hourProg.start = "threads" =>
    \A h \in Hours : hpc[h] # "off" =>
      hcount[h] = Cardinality(LiveUnits(h)) + hlost[h]

\* What has been counted so far.
Sums ==
  /\ \A c \in Cells : day[c] <= rounds
  /\ dayProg.combine = "sum" =>
       /\ rounds <= 1
       /\ dpc \in {"scan", "run", "wait"} => acc = Zero
       /\ dpc = "collect" => rounds = 1
       /\ dpc = "collect" => \A c \in Cells : acc[c] <= 1
       /\ dpc = "collect" => \A c \in Cells : c[1] >= di => acc[c] = 0
  /\ dayProg.combine # "sum" /\ dpc = "collect" =>
       \A c \in Cells : c[1] >= di => day[c] + 1 <= rounds
  /\ dpc = "write" => \A c \in Cells : acc[c] <= rounds

\* A program that is about to make a file has seen that there is none.
Fresh ==
  /\ \A c \in Cells : upc[c] = "open" => unit[c] = "none"
  /\ \A c \in Cells : upc[c] = "sql" => unit[c] = "part"
  /\ \A h \in Hours : hpc[h] \in {"scan", "run"} => ~hour[h].exists

DInv == TypeOK /\ Places /\ DayLive /\ DayCount /\ HourLive /\ HourCount

-----------------------------------------------------------------------------
(* Counting.                                                               *)

LEMMA Grows ==
  ASSUME NEW n \in Nat, NEW S \in SUBSET (1 .. n), NEW x \in 1 .. n, x \notin S
  PROVE  Cardinality(S \cup {x}) = Cardinality(S) + 1
<1>1. IsFiniteSet(1 .. n)
  BY FS_Interval
<1>2. IsFiniteSet(S)
  BY <1>1, FS_Subset
<1> QED
  BY <1>2, FS_AddElement

LEMMA Shrinks ==
  ASSUME NEW n \in Nat, NEW S \in SUBSET (1 .. n), NEW x \in S
  PROVE  Cardinality(S \ {x}) = Cardinality(S) - 1 /\ Cardinality(S) >= 1
<1>1. IsFiniteSet(1 .. n)
  BY FS_Interval
<1>2. IsFiniteSet(S)
  BY <1>1, FS_Subset
<1>3. Cardinality(S \ {x}) = Cardinality(S) - 1
  BY <1>2, FS_RemoveElement
<1>4. IsFiniteSet(S \ {x})
  BY <1>2, FS_Subset
<1>5. Cardinality(S \ {x}) \in Nat /\ Cardinality(S) \in Nat
  BY <1>2, <1>4, FS_CardinalityType
<1> QED
  BY <1>3, <1>5

LEMMA NoneLeft ==
  ASSUME NEW n \in Nat, NEW S \in SUBSET (1 .. n), NEW k \in Nat, Cardinality(S) + k = 0
  PROVE  S = {}
<1>1. IsFiniteSet(1 .. n)
  BY FS_Interval
<1>2. IsFiniteSet(S)
  BY <1>1, FS_Subset
<1>3. Cardinality(S) \in Nat
  BY <1>2, FS_CardinalityType
<1>4. Cardinality(S) = 0
  BY <1>3
<1> QED
  BY <1>2, <1>4, FS_EmptySet

LEMMA CardNat ==
  ASSUME NEW n \in Nat, NEW S \in SUBSET (1 .. n)
  PROVE  Cardinality(S) \in Nat
<1>1. IsFiniteSet(1 .. n)
  BY FS_Interval
<1> QED
  BY <1>1, FS_Subset, FS_CardinalityType

-----------------------------------------------------------------------------
(* The initial state.                                                      *)

LEMMA InitDInv == Init => DInv
<1> SUFFICES ASSUME Init PROVE DInv
  OBVIOUS
<1> USE DayAssumption
<1>1. TypeOK
  <2>1. NoHour \in [exists: BOOLEAN, has: SUBSET Units]
    BY DEF NoHour
  <2>2. hour \in [Hours -> [exists: BOOLEAN, has: SUBSET Units]]
    BY <2>1 DEF Init
  <2>3. di \in 1 .. NHours + 1 /\ hi \in [Hours -> 1 .. NUnits + 1]
    BY DEF Init
  <2>4. runs \in 0 .. MaxRuns /\ crashes \in 0 .. MaxCrashes
    BY DEF Init
  <2> QED
    BY <2>2, <2>3, <2>4 DEF Init, TypeOK, Zero
<1>2. Places /\ DayLive
  BY DEF Init, Places, DayLive
<1>3. DayCount
  <2>1. Live = {}
    BY DEF Init, Live
  <2> QED
    BY <2>1, FS_EmptySet DEF DayCount, Init
<1>4. HourLive
  BY DEF Init, HourLive, LiveAt, Cells
<1>5. HourCount
  BY DEF Init, HourCount
<1> QED
  BY <1>1, <1>2, <1>3, <1>4, <1>5 DEF DInv

-----------------------------------------------------------------------------
(* Types.                                                                  *)

UnitType == unit \in [Cells -> {"none", "part", "full"}]
HourType == hour \in [Hours -> [exists: BOOLEAN, has: SUBSET Units]]
DayType == day \in [Cells -> Nat] /\ acc \in [Cells -> Nat]
MainType ==
  /\ dpc \in {"idle", "scan", "run", "wait", "collect", "write"}
  /\ di \in 1 .. NHours + 1
FlagType == started \in BOOLEAN /\ derr \in BOOLEAN /\ faulty \in BOOLEAN
NumberType ==
  /\ count \in Nat /\ lost \in Nat /\ rounds \in Nat
  /\ runs \in 0 .. MaxRuns /\ crashes \in 0 .. MaxCrashes
PlaceType ==
  /\ hpc \in [Hours -> {"off", "scan", "run", "copy", "merge", "rows", "exit"}]
  /\ hi \in [Hours -> 1 .. NUnits + 1]
CountType == hcount \in [Hours -> Nat] /\ hlost \in [Hours -> Nat]
ProgType == upc \in [Cells -> {"off", "open", "sql", "exit"}]

LEMMA TypeParts ==
  TypeOK <=> /\ dayProg \in Shape /\ hourProg \in Shape
             /\ UnitType /\ HourType /\ DayType /\ MainType /\ FlagType
             /\ NumberType /\ PlaceType /\ CountType /\ ProgType
BY DEF TypeOK, UnitType, HourType, DayType, MainType, FlagType, NumberType,
       PlaceType, CountType, ProgType

\* Which programs they are does not change.
LEMMA ProgStays == [Next]_vars => dayProg' = dayProg /\ hourProg' = hourProg
BY DEF Next, DayStep, HourStep, UnitStep, Run, Skip, StartThread,
       StartInline, Inline, Remove, Wait, Collect, Reopen, Write, Crash,
       HourSkip, HourStart, HourInline, HourOpen, HourCopy, HourClose,
       HourMerge, HourExit, UnitOpen, UnitQuery, UnitExit, vars, progs

LEMMA HourWritten ==
  ASSUME HourType, NEW h \in Hours, NEW r \in [exists: BOOLEAN, has: SUBSET Units],
         hour' = [hour EXCEPT ![h] = r]
  PROVE  HourType'
BY DEF HourType

LEMMA SomeThread == ASSUME DInv, NEW h \in Hours, HourExit(h) PROVE count >= 1
<1> USE DayAssumption
<1> dayProg \in Shape /\ hourProg \in Shape
  BY DEF DInv, TypeOK
<1>1. dayProg.start = "threads"
  BY DEF DInv, Places, HourExit
<1>2. count = Cardinality(Live) + lost /\ lost \in Nat
  BY <1>1 DEF DInv, DayCount, TypeOK
<1>3. Live \in SUBSET (1 .. NHours) /\ h \in Live
  BY DEF Live, Hours, HourExit
<1>4. Cardinality(Live) >= 1
  BY <1>3, Shrinks
<1>5. Cardinality(Live) \in Nat
  BY <1>3, CardNat
<1> QED
  BY <1>2, <1>4, <1>5

LEMMA SomeUnit ==
  ASSUME DInv, NEW h \in Hours, NEW u \in Units, UnitExit(<<h, u>>)
  PROVE  hcount[h] \in Nat /\ hcount[h] >= 1
<1> USE DayAssumption
<1> dayProg \in Shape /\ hourProg \in Shape
  BY DEF DInv, TypeOK
<1>0. <<h, u>> \in Cells
  BY DEF Cells
<1>1. hourProg.start = "threads" /\ hpc[h] # "off"
  BY <1>0 DEF DInv, Places, HourLive, LiveAt, UnitExit
<1>2. hcount[h] = Cardinality(LiveUnits(h)) + hlost[h] /\ hlost[h] \in Nat
  BY <1>1 DEF DInv, HourCount, TypeOK
<1>3. LiveUnits(h) \in SUBSET (1 .. NUnits) /\ u \in LiveUnits(h)
  BY DEF LiveUnits, Units, UnitExit
<1>4. Cardinality(LiveUnits(h)) >= 1
  BY <1>3, Shrinks
<1>5. Cardinality(LiveUnits(h)) \in Nat
  BY <1>3, CardNat
<1> QED
  BY <1>2, <1>4, <1>5

LEMMA TypeStep == DInv /\ [Next]_vars => TypeOK'
<1> SUFFICES ASSUME DInv, [Next]_vars PROVE TypeOK'
  OBVIOUS
<1> USE DayAssumption
<1> dayProg \in Shape /\ hourProg \in Shape
  BY DEF DInv, TypeOK
<1> dayProg' = dayProg /\ hourProg' = hourProg
  BY ProgStays
<1>0. /\ UnitType /\ HourType /\ DayType /\ MainType /\ FlagType
      /\ NumberType /\ PlaceType /\ CountType /\ ProgType
  BY TypeParts DEF DInv
<1>1. CASE Run
  <2>1. UnitType' /\ HourType' /\ PlaceType' /\ CountType' /\ ProgType'
    BY <1>0, <1>1 DEF Run, UnitType, HourType, PlaceType, CountType, ProgType,
       files, dayVars, hourVars
  <2>2. DayType'
    BY <1>0, <1>1 DEF Run, DayType, MainType, Zero, Plus, files, dayVars,
       hourVars
  <2>3. MainType'
    BY <1>0, <1>1 DEF Run, MainType, Hours, files, dayVars, hourVars
  <2>4. FlagType'
    BY <1>0, <1>1 DEF Run, FlagType, files, dayVars, hourVars
  <2>5. NumberType'
    BY <1>0, <1>1 DEF Run, NumberType, Counted, files, dayVars, hourVars
  <2> QED
    BY <2>1, <2>2, <2>3, <2>4, <2>5 DEF TypeOK, UnitType, HourType, DayType,
       MainType, FlagType, NumberType, PlaceType, CountType, ProgType
<1>2. CASE Skip
  <2>1. UnitType' /\ HourType' /\ DayType' /\ FlagType' /\ NumberType' /\
     PlaceType' /\ CountType' /\ ProgType'
    BY <1>0, <1>2 DEF Skip, UnitType, HourType, DayType, FlagType, NumberType,
       PlaceType, CountType, ProgType, files, dayVars, hourVars
  <2>2. MainType'
    BY <1>0, <1>2 DEF Skip, MainType, Hours, files, dayVars, hourVars
  <2> QED
    BY <2>1, <2>2 DEF TypeOK, UnitType, HourType, DayType, MainType, FlagType,
       NumberType, PlaceType, CountType, ProgType
<1>3. CASE StartThread
  <2>1. UnitType' /\ HourType' /\ DayType' /\ ProgType'
    BY <1>0, <1>3 DEF StartThread, UnitType, HourType, DayType, ProgType, files,
       dayVars, hourVars
  <2>2. MainType'
    BY <1>0, <1>3 DEF StartThread, MainType, Hours, files, dayVars, hourVars
  <2>3. FlagType'
    BY <1>0, <1>3 DEF StartThread, FlagType, files, dayVars, hourVars
  <2>4. NumberType'
    BY <1>0, <1>3 DEF StartThread, NumberType, Counted, files, dayVars, hourVars
  <2>5. PlaceType'
    BY <1>0, <1>3 DEF StartThread, PlaceType, MainType, HourEnd, Hours, Units,
       files, dayVars, hourVars
  <2>6. CountType'
    BY <1>0, <1>3 DEF StartThread, CountType, files, dayVars, hourVars
  <2> QED
    BY <2>1, <2>2, <2>3, <2>4, <2>5, <2>6 DEF TypeOK, UnitType, HourType,
       DayType, MainType, FlagType, NumberType, PlaceType, CountType, ProgType
<1>4. CASE StartInline
  <2>1. UnitType' /\ HourType' /\ DayType' /\ NumberType' /\ ProgType'
    BY <1>0, <1>4 DEF StartInline, UnitType, HourType, DayType, NumberType,
       ProgType, files, dayVars, hourVars
  <2>2. MainType'
    BY <1>0, <1>4 DEF StartInline, MainType, Hours, files, dayVars, hourVars
  <2>3. FlagType'
    BY <1>0, <1>4 DEF StartInline, FlagType, files, dayVars, hourVars
  <2>4. PlaceType'
    <3>1. hpc' \in [Hours -> {"off", "scan", "run", "copy", "merge", "rows", "exit"}]
      BY <1>0, <1>4 DEF StartInline, PlaceType
    <3>2. hi' \in [Hours -> 1 .. NUnits + 1]
      BY <1>0, <1>4 DEF StartInline, PlaceType
    <3> QED
      BY <3>1, <3>2 DEF PlaceType
  <2>5. CountType'
    BY <1>0, <1>4 DEF StartInline, CountType, files, dayVars, hourVars
  <2> QED
    BY <2>1, <2>2, <2>3, <2>4, <2>5 DEF TypeOK, UnitType, HourType, DayType,
       MainType, FlagType, NumberType, PlaceType, CountType, ProgType
<1>5. CASE Inline
  <2>1. UnitType' /\ HourType' /\ DayType' /\ FlagType' /\ NumberType' /\
     PlaceType' /\ CountType' /\ ProgType'
    BY <1>0, <1>5 DEF Inline, UnitType, HourType, DayType, FlagType, NumberType,
       PlaceType, CountType, ProgType, files, dayVars, hourVars
  <2>2. MainType'
    BY <1>0, <1>5 DEF Inline, MainType, Hours, DInv, Places
  <2> QED
    BY <2>1, <2>2 DEF TypeOK, UnitType, HourType, DayType, MainType, FlagType,
       NumberType, PlaceType, CountType, ProgType
<1>6. CASE Remove
  <2>1. UnitType' /\ HourType' /\ FlagType' /\ PlaceType' /\ CountType' /\
     ProgType'
    BY <1>0, <1>6 DEF Remove, UnitType, HourType, FlagType, PlaceType,
       CountType, ProgType, files, dayVars, hourVars
  <2>2. DayType'
    BY <1>0, <1>6 DEF Remove, DayType, MainType, Zero, Plus, files, dayVars,
       hourVars
  <2>3. MainType'
    BY <1>0, <1>6 DEF Remove, MainType, Hours, files, dayVars, hourVars
  <2>4. NumberType'
    BY <1>0, <1>6 DEF Remove, NumberType, Counted, files, dayVars, hourVars
  <2> QED
    BY <2>1, <2>2, <2>3, <2>4 DEF TypeOK, UnitType, HourType, DayType, MainType,
       FlagType, NumberType, PlaceType, CountType, ProgType
<1>7. CASE Wait
  <2>1. UnitType' /\ HourType' /\ DayType' /\ FlagType' /\ PlaceType' /\
     CountType' /\ ProgType'
    BY <1>0, <1>7 DEF Wait, UnitType, HourType, DayType, FlagType, PlaceType,
       CountType, ProgType, files, dayVars, hourVars
  <2>2. MainType'
    BY <1>0, <1>7 DEF Wait, MainType, Hours, files, dayVars, hourVars
  <2>3. NumberType'
    BY <1>0, <1>7 DEF Wait, NumberType, Counted, files, dayVars, hourVars
  <2> QED
    BY <2>1, <2>2, <2>3 DEF TypeOK, UnitType, HourType, DayType, MainType,
       FlagType, NumberType, PlaceType, CountType, ProgType
<1>8. CASE Collect
  <2>1. UnitType' /\ HourType' /\ FlagType' /\ NumberType' /\ PlaceType' /\
     CountType' /\ ProgType'
    BY <1>0, <1>8 DEF Collect, UnitType, HourType, FlagType, NumberType,
       PlaceType, CountType, ProgType, files, dayVars, hourVars
  <2>2. DayType'
    BY <1>0, <1>8 DEF Collect, DayType, MainType, Zero, Plus, files, dayVars,
       hourVars
  <2>3. MainType'
    BY <1>0, <1>8 DEF Collect, MainType, Hours, files, dayVars, hourVars
  <2> QED
    BY <2>1, <2>2, <2>3 DEF TypeOK, UnitType, HourType, DayType, MainType,
       FlagType, NumberType, PlaceType, CountType, ProgType
<1>9. CASE Reopen
  <2>1. UnitType' /\ HourType' /\ NumberType' /\ PlaceType' /\ CountType' /\
     ProgType'
    BY <1>0, <1>9 DEF Reopen, UnitType, HourType, NumberType, PlaceType,
       CountType, ProgType, files, dayVars, hourVars
  <2>2. DayType'
    BY <1>0, <1>9 DEF Reopen, DayType, MainType, Zero, Plus, files, dayVars,
       hourVars
  <2>3. MainType'
    BY <1>0, <1>9 DEF Reopen, MainType, Hours, files, dayVars, hourVars
  <2>4. FlagType'
    BY <1>0, <1>9 DEF Reopen, FlagType, files, dayVars, hourVars
  <2> QED
    BY <2>1, <2>2, <2>3, <2>4 DEF TypeOK, UnitType, HourType, DayType, MainType,
       FlagType, NumberType, PlaceType, CountType, ProgType
<1>10. CASE Write
  <2>1. UnitType' /\ HourType' /\ FlagType' /\ NumberType' /\ PlaceType' /\
     CountType' /\ ProgType'
    BY <1>0, <1>10 DEF Write, UnitType, HourType, FlagType, NumberType,
       PlaceType, CountType, ProgType, files, dayVars, hourVars
  <2>2. DayType'
    BY <1>0, <1>10 DEF Write, DayType, MainType, Zero, Plus, files, dayVars,
       hourVars
  <2>3. MainType'
    BY <1>0, <1>10 DEF Write, MainType, Hours, files, dayVars, hourVars
  <2> QED
    BY <2>1, <2>2, <2>3 DEF TypeOK, UnitType, HourType, DayType, MainType,
       FlagType, NumberType, PlaceType, CountType, ProgType
<1>11. CASE Crash
  <2>1. UnitType' /\ HourType' /\ DayType' /\ CountType'
    BY <1>0, <1>11 DEF Crash, UnitType, HourType, DayType, CountType, files,
       dayVars, hourVars
  <2>2. MainType'
    BY <1>0, <1>11 DEF Crash, MainType, Hours, files, dayVars, hourVars
  <2>3. FlagType'
    BY <1>0, <1>11 DEF Crash, FlagType, files, dayVars, hourVars
  <2>4. NumberType'
    BY <1>0, <1>11 DEF Crash, NumberType, Counted, files, dayVars, hourVars
  <2>5. PlaceType'
    BY <1>0, <1>11 DEF Crash, PlaceType, MainType, HourEnd, Hours, Units, files,
       dayVars, hourVars
  <2>6. ProgType'
    BY <1>0, <1>11 DEF Crash, ProgType, UnitEnd, files, dayVars, hourVars
  <2> QED
    BY <2>1, <2>2, <2>3, <2>4, <2>5, <2>6 DEF TypeOK, UnitType, HourType,
       DayType, MainType, FlagType, NumberType, PlaceType, CountType, ProgType
<1>12. ASSUME NEW h \in Hours, HourSkip(h) PROVE TypeOK'
  <2>1. UnitType' /\ HourType' /\ DayType' /\ MainType' /\ FlagType' /\
     NumberType' /\ CountType' /\ ProgType'
    BY <1>0, <1>12 DEF HourSkip, UnitType, HourType, DayType, MainType,
       FlagType, NumberType, CountType, ProgType, files, dayVars, hourVars
  <2>2. PlaceType'
    BY <1>0, <1>12 DEF HourSkip, PlaceType, MainType, HourEnd, Hours, Units,
       files, dayVars, hourVars
  <2> QED
    BY <2>1, <2>2 DEF TypeOK, UnitType, HourType, DayType, MainType, FlagType,
       NumberType, PlaceType, CountType, ProgType
<1>13. ASSUME NEW h \in Hours, HourStart(h) PROVE TypeOK'
  <2>1. UnitType' /\ HourType' /\ DayType' /\ MainType' /\ NumberType'
    BY <1>0, <1>13 DEF HourStart, UnitType, HourType, DayType, MainType,
       NumberType, files, dayVars, hourVars
  <2>2. FlagType'
    BY <1>0, <1>13 DEF HourStart, FlagType, files, dayVars, hourVars
  <2>3. PlaceType'
    <3>1. hi[h] + 1 \in 1 .. NUnits + 1
      BY <1>13 DEF HourStart, Units
    <3>2. \/ hi' = hi /\ hpc' = [hpc EXCEPT ![h] = "run"]
          \/ hi' = [hi EXCEPT ![h] = hi[h] + 1] /\ hpc' = hpc
      BY <1>0, <1>13 DEF HourStart, PlaceType
    <3> QED
      BY <1>0, <3>1, <3>2 DEF PlaceType
  <2>4. CountType'
    BY <1>0, <1>13 DEF HourStart, CountType, files, dayVars, hourVars
  <2>5. ProgType'
    BY <1>0, <1>13 DEF HourStart, ProgType, UnitEnd, files, dayVars, hourVars
  <2> QED
    BY <2>1, <2>2, <2>3, <2>4, <2>5 DEF TypeOK, UnitType, HourType, DayType,
       MainType, FlagType, NumberType, PlaceType, CountType, ProgType
<1>14. ASSUME NEW h \in Hours, HourInline(h) PROVE TypeOK'
  <2>1. UnitType' /\ HourType' /\ DayType' /\ MainType' /\ FlagType' /\
     NumberType' /\ CountType' /\ ProgType'
    BY <1>0, <1>14 DEF HourInline, UnitType, HourType, DayType, MainType,
       FlagType, NumberType, CountType, ProgType, files, dayVars, hourVars
  <2>2. PlaceType'
    BY <1>0, <1>14 DEF HourInline, PlaceType, Hours, Units, DInv, Places
  <2> QED
    BY <2>1, <2>2 DEF TypeOK, UnitType, HourType, DayType, MainType, FlagType,
       NumberType, PlaceType, CountType, ProgType
<1>15. ASSUME NEW h \in Hours, HourOpen(h) PROVE TypeOK'
  <2>1. UnitType' /\ DayType' /\ MainType' /\ NumberType' /\ CountType' /\
     ProgType'
    BY <1>0, <1>15 DEF HourOpen, UnitType, DayType, MainType, NumberType,
       CountType, ProgType, files, dayVars, hourVars
  <2>2. HourType'
    <3>1. [exists |-> TRUE, has |-> {}] \in [exists: BOOLEAN, has: SUBSET Units]
      OBVIOUS
    <3>2. CASE hour' = [hour EXCEPT ![h] = [exists |-> TRUE, has |-> {}]]
      BY <1>0, <3>1, <3>2, HourWritten
    <3>3. CASE hour' = hour
      BY <1>0, <3>3 DEF HourType
    <3> QED
      BY <1>15, <3>2, <3>3 DEF HourOpen
  <2>3. FlagType'
    BY <1>0, <1>15 DEF HourOpen, FlagType, files, dayVars, hourVars
  <2>4. PlaceType'
    BY <1>0, <1>15 DEF HourOpen, PlaceType, MainType, HourEnd, Hours, Units,
       files, dayVars, hourVars
  <2> QED
    BY <2>1, <2>2, <2>3, <2>4 DEF TypeOK, UnitType, HourType, DayType, MainType,
       FlagType, NumberType, PlaceType, CountType, ProgType
<1>16. ASSUME NEW h \in Hours, HourCopy(h) PROVE TypeOK'
  <2>1. UnitType' /\ DayType' /\ MainType' /\ FlagType' /\ NumberType' /\
     CountType' /\ ProgType'
    BY <1>0, <1>16 DEF HourCopy, UnitType, DayType, MainType, FlagType,
       NumberType, CountType, ProgType, files, dayVars, hourVars
  <2>2. HourType'
    <3>1. hour[h] \in [exists: BOOLEAN, has: SUBSET Units]
      BY <1>0 DEF HourType
    <3>2. ASSUME NEW s \in SUBSET Units, hour' = [hour EXCEPT ![h].has = s]
          PROVE  HourType'
      <4>1. [hour[h] EXCEPT !.has = s] \in [exists: BOOLEAN, has: SUBSET Units]
        BY <3>1
      <4> QED
        BY <1>0, <3>2, <4>1, HourWritten
    <3>3. Done(h) \in SUBSET Units
      BY DEF Done
    <3>4. hour[h].has \cup ({hi[h]} \cap Done(h)) \in SUBSET Units
      BY <3>1, <3>3
    <3>5. \/ hour' = [hour EXCEPT ![h].has = Done(h)]
          \/ hour' = [hour EXCEPT ![h].has = hour[h].has \cup ({hi[h]} \cap Done(h))]
      BY <1>16 DEF HourCopy
    <3> QED
      BY <3>2, <3>3, <3>4, <3>5
  <2>3. PlaceType'
    <3>1. hi[h] + 1 \in 1 .. NUnits + 1 /\ NUnits + 1 \in 1 .. NUnits + 1
      BY <1>16 DEF HourCopy, Units
    <3>2. /\ hpc' = hpc
          /\ \/ hi' = [hi EXCEPT ![h] = NUnits + 1]
             \/ hi' = [hi EXCEPT ![h] = hi[h] + 1]
      BY <1>0, <1>16 DEF HourCopy, PlaceType
    <3> QED
      BY <1>0, <3>1, <3>2 DEF PlaceType
  <2> QED
    BY <2>1, <2>2, <2>3 DEF TypeOK, UnitType, HourType, DayType, MainType,
       FlagType, NumberType, PlaceType, CountType, ProgType
<1>17. ASSUME NEW h \in Hours, HourClose(h) PROVE TypeOK'
  <2>1. UnitType' /\ DayType' /\ MainType' /\ FlagType' /\ NumberType' /\
     CountType' /\ ProgType'
    BY <1>0, <1>17 DEF HourClose, UnitType, DayType, MainType, FlagType,
       NumberType, CountType, ProgType, files, dayVars, hourVars
  <2>2. HourType'
    <3>1. NoHour \in [exists: BOOLEAN, has: SUBSET Units]
      BY DEF NoHour
    <3>2. CASE hour' = [hour EXCEPT ![h] = NoHour]
      BY <1>0, <3>1, <3>2, HourWritten
    <3>3. CASE hour' = hour
      BY <1>0, <3>3 DEF HourType
    <3> QED
      BY <1>17, <3>2, <3>3 DEF HourClose
  <2>3. PlaceType'
    BY <1>0, <1>17 DEF HourClose, PlaceType, MainType, HourEnd, Hours, Units,
       files, dayVars, hourVars
  <2> QED
    BY <2>1, <2>2, <2>3 DEF TypeOK, UnitType, HourType, DayType, MainType,
       FlagType, NumberType, PlaceType, CountType, ProgType
<1>18. ASSUME NEW h \in Hours, HourMerge(h) PROVE TypeOK'
  <2>1. UnitType' /\ DayType' /\ MainType' /\ FlagType' /\ NumberType' /\
     CountType' /\ ProgType'
    BY <1>0, <1>18 DEF HourMerge, UnitType, DayType, MainType, FlagType,
       NumberType, CountType, ProgType, files, dayVars, hourVars
  <2>2. HourType'
    <3>1. [exists |-> TRUE, has |-> {}] \in [exists: BOOLEAN, has: SUBSET Units]
      OBVIOUS
    <3>2. CASE hour' = [hour EXCEPT ![h] = [exists |-> TRUE, has |-> {}]]
      BY <1>0, <3>1, <3>2, HourWritten
    <3>3. CASE hour' = [hour EXCEPT ![h].has = Done(h)]
      <4>1. hour[h] \in [exists: BOOLEAN, has: SUBSET Units] /\ Done(h) \in SUBSET Units
        BY <1>0 DEF HourType, Done
      <4>2. [hour[h] EXCEPT !.has = Done(h)] \in [exists: BOOLEAN, has: SUBSET Units]
        BY <4>1
      <4> QED
        BY <1>0, <3>3, <4>2, HourWritten
    <3> QED
      BY <1>18, <3>2, <3>3 DEF HourMerge
  <2>3. PlaceType'
    BY <1>0, <1>18 DEF HourMerge, PlaceType, MainType, HourEnd, Hours, Units,
       files, dayVars, hourVars
  <2> QED
    BY <2>1, <2>2, <2>3 DEF TypeOK, UnitType, HourType, DayType, MainType,
       FlagType, NumberType, PlaceType, CountType, ProgType
<1>19. ASSUME NEW h \in Hours, HourExit(h) PROVE TypeOK'
  <2>1. UnitType' /\ HourType' /\ DayType' /\ MainType' /\ FlagType' /\
     CountType' /\ ProgType'
    BY <1>0, <1>19 DEF HourExit, UnitType, HourType, DayType, MainType,
       FlagType, CountType, ProgType, files, dayVars, hourVars
  <2>2. NumberType'
    <3>1. count >= 1
      BY <1>19, SomeThread
    <3> QED
      BY <1>0, <1>19, <3>1 DEF HourExit, NumberType
  <2>3. PlaceType'
    BY <1>0, <1>19 DEF HourExit, PlaceType, MainType, HourEnd, Hours, Units,
       files, dayVars, hourVars
  <2> QED
    BY <2>1, <2>2, <2>3 DEF TypeOK, UnitType, HourType, DayType, MainType,
       FlagType, NumberType, PlaceType, CountType, ProgType
<1>20. ASSUME NEW c \in Cells, UnitOpen(c) PROVE TypeOK'
  <2>1. HourType' /\ DayType' /\ MainType' /\ NumberType' /\ PlaceType' /\
     CountType'
    BY <1>0, <1>20 DEF UnitOpen, HourType, DayType, MainType, NumberType,
       PlaceType, CountType, files, dayVars, hourVars
  <2>2. UnitType'
    BY <1>0, <1>20 DEF UnitOpen, UnitType, files, dayVars, hourVars
  <2>3. FlagType'
    BY <1>0, <1>20 DEF UnitOpen, FlagType, files, dayVars, hourVars
  <2>4. ProgType'
    BY <1>0, <1>20 DEF UnitOpen, ProgType, UnitEnd, files, dayVars, hourVars
  <2> QED
    BY <2>1, <2>2, <2>3, <2>4 DEF TypeOK, UnitType, HourType, DayType, MainType,
       FlagType, NumberType, PlaceType, CountType, ProgType
<1>21. ASSUME NEW c \in Cells, UnitQuery(c) PROVE TypeOK'
  <2>1. HourType' /\ DayType' /\ MainType' /\ NumberType' /\ PlaceType' /\
     CountType'
    BY <1>0, <1>21 DEF UnitQuery, HourType, DayType, MainType, NumberType,
       PlaceType, CountType, files, dayVars, hourVars
  <2>2. UnitType'
    BY <1>0, <1>21 DEF UnitQuery, UnitType, files, dayVars, hourVars
  <2>3. FlagType'
    BY <1>0, <1>21 DEF UnitQuery, FlagType, files, dayVars, hourVars
  <2>4. ProgType'
    BY <1>0, <1>21 DEF UnitQuery, ProgType, UnitEnd, files, dayVars, hourVars
  <2> QED
    BY <2>1, <2>2, <2>3, <2>4 DEF TypeOK, UnitType, HourType, DayType, MainType,
       FlagType, NumberType, PlaceType, CountType, ProgType
<1>22. ASSUME NEW c \in Cells, UnitExit(c) PROVE TypeOK'
  <2>1. UnitType' /\ HourType' /\ DayType' /\ MainType' /\ FlagType' /\
     NumberType' /\ PlaceType'
    BY <1>0, <1>22 DEF UnitExit, UnitType, HourType, DayType, MainType,
       FlagType, NumberType, PlaceType, files, dayVars, hourVars
  <2>2. CountType'
    <3>1. PICK h \in Hours, u \in Units : c = <<h, u>>
      BY <1>22 DEF Cells
    <3>2. hcount[h] \in Nat /\ hcount[h] >= 1
      BY <1>22, <3>1, SomeUnit
    <3>3. hcount' = [hcount EXCEPT ![h] = hcount[h] - 1] /\ hlost' = hlost
      BY <1>22, <3>1 DEF UnitExit
    <3>4. hcount[h] - 1 \in Nat
      BY <3>2
    <3> QED
      BY <1>0, <3>3, <3>4 DEF CountType
  <2>3. ProgType'
    BY <1>0, <1>22 DEF UnitExit, ProgType, UnitEnd, files, dayVars, hourVars
  <2> QED
    BY <2>1, <2>2, <2>3 DEF TypeOK, UnitType, HourType, DayType, MainType,
       FlagType, NumberType, PlaceType, CountType, ProgType
<1>23. CASE UNCHANGED vars
  BY <1>0, <1>23 DEF vars, files, dayVars, hourVars, TypeOK, UnitType, HourType,
     DayType, MainType, FlagType, NumberType, PlaceType, CountType, ProgType
<1> QED
  BY <1>1, <1>2, <1>3, <1>4, <1>5, <1>6, <1>7, <1>8, <1>9, <1>10, <1>11, <1>12,
     <1>13, <1>14, <1>15, <1>16, <1>17, <1>18, <1>19, <1>20, <1>21, <1>22, <1>23
     DEF Next, DayStep, HourStep, UnitStep

-----------------------------------------------------------------------------
(* Who runs where.                                                         *)

\* Both loops that wait on a counter end with no program left.
LEMMA NoHourLeft == ASSUME DInv, Wait PROVE \A h \in Hours : hpc[h] = "off"
<1> USE DayAssumption
<1> dayProg \in Shape /\ hourProg \in Shape
  BY DEF DInv, TypeOK
<1>1. CASE dayProg.start = "threads"
  <2>1. Cardinality(Live) + lost = 0 /\ lost \in Nat
    BY <1>1 DEF DInv, DayCount, TypeOK, Wait
  <2>2. Live \in SUBSET (1 .. NHours)
    BY DEF Live, Hours
  <2>3. Live = {}
    BY <2>1, <2>2, NoneLeft
  <2> QED
    BY <2>3 DEF Live
<1>2. CASE dayProg.start = "inline"
  BY <1>2 DEF DInv, DayLive, Wait
<1> QED
  BY <1>1, <1>2 DEF Shape

LEMMA NoUnitLeft ==
  ASSUME DInv, NEW h \in Hours, HourOpen(h)
  PROVE  \A u \in Units : upc[<<h, u>>] = "off"
<1> USE DayAssumption
<1> dayProg \in Shape /\ hourProg \in Shape
  BY DEF DInv, TypeOK
<1>1. CASE hourProg.start = "threads"
  <2>1. Cardinality(LiveUnits(h)) + hlost[h] = 0 /\ hlost[h] \in Nat
    BY <1>1 DEF DInv, HourCount, TypeOK, HourOpen
  <2>2. LiveUnits(h) \in SUBSET (1 .. NUnits)
    BY DEF LiveUnits, Units
  <2>3. LiveUnits(h) = {}
    BY <2>1, <2>2, NoneLeft
  <2> QED
    BY <2>3 DEF LiveUnits
<1>2. CASE hourProg.start = "inline"
  BY <1>2 DEF DInv, HourLive, LiveAt, HourOpen
<1> QED
  BY <1>1, <1>2 DEF Shape

LEMMA PlacesStep == DInv /\ [Next]_vars => Places'
<1> SUFFICES ASSUME DInv, [Next]_vars PROVE Places'
  OBVIOUS
<1> USE DayAssumption
<1> dayProg \in Shape /\ hourProg \in Shape
  BY DEF DInv, TypeOK
<1> dayProg' = dayProg /\ hourProg' = hourProg
  BY ProgStays
<1>0. MainType /\ PlaceType /\ ProgType /\ Places
  BY TypeParts DEF DInv
<1>1. CASE Run
  BY <1>0, <1>1 DEF Run, Places, MainType, PlaceType, ProgType, HourEnd,
     UnitEnd, Hours, Units, files, dayVars, hourVars
<1>2. CASE Skip
  BY <1>0, <1>2 DEF Skip, Places, MainType, PlaceType, ProgType, HourEnd,
     UnitEnd, Hours, Units, files, dayVars, hourVars
<1>3. CASE StartThread
  BY <1>0, <1>3 DEF StartThread, Places, MainType, PlaceType, ProgType, HourEnd,
     UnitEnd, Hours, Units, files, dayVars, hourVars
<1>4. CASE StartInline
  BY <1>0, <1>4 DEF StartInline, Places, MainType, PlaceType, ProgType, HourEnd,
     UnitEnd, Hours, Units, files, dayVars, hourVars
<1>5. CASE Inline
  BY <1>0, <1>5 DEF Inline, Places, MainType, PlaceType, ProgType, HourEnd,
     UnitEnd, Hours, Units, files, dayVars, hourVars
<1>6. CASE Remove
  BY <1>0, <1>6 DEF Remove, Places, MainType, PlaceType, ProgType, HourEnd,
     UnitEnd, Hours, Units, files, dayVars, hourVars
<1>7. CASE Wait
  BY <1>0, <1>7 DEF Wait, Places, MainType, PlaceType, ProgType, HourEnd,
     UnitEnd, Hours, Units, files, dayVars, hourVars
<1>8. CASE Collect
  BY <1>0, <1>8 DEF Collect, Places, MainType, PlaceType, ProgType, HourEnd,
     UnitEnd, Hours, Units, files, dayVars, hourVars
<1>9. CASE Reopen
  BY <1>0, <1>9 DEF Reopen, Places, MainType, PlaceType, ProgType, HourEnd,
     UnitEnd, Hours, Units, files, dayVars, hourVars
<1>10. CASE Write
  BY <1>0, <1>10 DEF Write, Places, MainType, PlaceType, ProgType, HourEnd,
     UnitEnd, Hours, Units, files, dayVars, hourVars
<1>11. CASE Crash
  BY <1>0, <1>11 DEF Crash, Places, MainType, PlaceType, ProgType, HourEnd,
     UnitEnd, Hours, Units, files, dayVars, hourVars
<1>12. ASSUME NEW h \in Hours, HourSkip(h) PROVE Places'
  BY <1>0, <1>12 DEF HourSkip, Places, MainType, PlaceType, ProgType, HourEnd,
     UnitEnd, Hours, Units, files, dayVars, hourVars
<1>13. ASSUME NEW h \in Hours, HourStart(h) PROVE Places'
  <2>1. UnitEnd = "exit" => hourProg.start = "threads"
    BY DEF UnitEnd
  <2>2. hourProg.start = "threads" \/ hourProg.start = "inline"
    BY DEF Shape
  <2>3. \A d \in Cells : upc'[d] = "exit" => hourProg.start = "threads"
    BY <1>0, <1>13, <2>1 DEF HourStart, Places, ProgType
  <2>4. hi[h] \in Units
    BY <1>13 DEF HourStart
  <2>5. CASE hourProg.start = "threads"
    <3>1. hpc' = hpc /\ \A g \in Hours : hpc[g] # "run"
      BY <1>0, <1>13, <2>5 DEF HourStart, Places
    <3> QED
      BY <1>0, <1>13, <2>3, <3>1 DEF HourStart, Places, dayVars
  <2>6. CASE hourProg.start = "inline"
    <3>1. hpc' = [hpc EXCEPT ![h] = "run"] /\ hi' = hi
      BY <1>13, <2>6 DEF HourStart
    <3> QED
      BY <1>0, <1>13, <2>3, <2>4, <2>6, <3>1 DEF HourStart, Places, PlaceType,
         dayVars
  <2> QED
    BY <2>2, <2>5, <2>6
<1>14. ASSUME NEW h \in Hours, HourInline(h) PROVE Places'
  BY <1>0, <1>14 DEF HourInline, Places, MainType, PlaceType, ProgType, HourEnd,
     UnitEnd, Hours, Units, files, dayVars, hourVars
<1>15. ASSUME NEW h \in Hours, HourOpen(h) PROVE Places'
  BY <1>0, <1>15 DEF HourOpen, Places, MainType, PlaceType, ProgType, HourEnd,
     UnitEnd, Hours, Units, files, dayVars, hourVars
<1>16. ASSUME NEW h \in Hours, HourCopy(h) PROVE Places'
  BY <1>0, <1>16 DEF HourCopy, Places, MainType, PlaceType, ProgType, HourEnd,
     UnitEnd, Hours, Units, files, dayVars, hourVars
<1>17. ASSUME NEW h \in Hours, HourClose(h) PROVE Places'
  BY <1>0, <1>17 DEF HourClose, Places, MainType, PlaceType, ProgType, HourEnd,
     UnitEnd, Hours, Units, files, dayVars, hourVars
<1>18. ASSUME NEW h \in Hours, HourMerge(h) PROVE Places'
  BY <1>0, <1>18 DEF HourMerge, Places, MainType, PlaceType, ProgType, HourEnd,
     UnitEnd, Hours, Units, files, dayVars, hourVars
<1>19. ASSUME NEW h \in Hours, HourExit(h) PROVE Places'
  BY <1>0, <1>19 DEF HourExit, Places, MainType, PlaceType, ProgType, HourEnd,
     UnitEnd, Hours, Units, files, dayVars, hourVars
<1>20. ASSUME NEW c \in Cells, UnitOpen(c) PROVE Places'
  BY <1>0, <1>20 DEF UnitOpen, Places, MainType, PlaceType, ProgType, HourEnd,
     UnitEnd, Hours, Units, files, dayVars, hourVars
<1>21. ASSUME NEW c \in Cells, UnitQuery(c) PROVE Places'
  BY <1>0, <1>21 DEF UnitQuery, Places, MainType, PlaceType, ProgType, HourEnd,
     UnitEnd, Hours, Units, files, dayVars, hourVars
<1>22. ASSUME NEW c \in Cells, UnitExit(c) PROVE Places'
  BY <1>0, <1>22 DEF UnitExit, Places, MainType, PlaceType, ProgType, HourEnd,
     UnitEnd, Hours, Units, files, dayVars, hourVars
<1>23. CASE UNCHANGED vars
  BY <1>0, <1>23 DEF vars, Places, MainType, PlaceType, ProgType, HourEnd,
     UnitEnd, Hours, Units, files, dayVars, hourVars
<1> QED
  BY <1>1, <1>2, <1>3, <1>4, <1>5, <1>6, <1>7, <1>8, <1>9, <1>10, <1>11, <1>12,
     <1>13, <1>14, <1>15, <1>16, <1>17, <1>18, <1>19, <1>20, <1>21, <1>22, <1>23
     DEF Next, DayStep, HourStep, UnitStep

LEMMA DayLiveStep == DInv /\ [Next]_vars => DayLive'
<1> SUFFICES ASSUME DInv, [Next]_vars PROVE DayLive'
  OBVIOUS
<1> USE DayAssumption
<1> dayProg \in Shape /\ hourProg \in Shape
  BY DEF DInv, TypeOK
<1> dayProg' = dayProg /\ hourProg' = hourProg
  BY ProgStays
<1>0. MainType /\ PlaceType /\ Places /\ DayLive
  BY TypeParts DEF DInv
<1>1. CASE Run
  BY <1>0, <1>1 DEF Run, DayLive, MainType, PlaceType, Places, HourEnd, Hours,
     files, dayVars, hourVars
<1>2. CASE Skip
  BY <1>0, <1>2 DEF Skip, DayLive, MainType, PlaceType, Places, HourEnd, Hours,
     files, dayVars, hourVars
<1>3. CASE StartThread
  BY <1>0, <1>3 DEF StartThread, DayLive, MainType, PlaceType, Places, HourEnd,
     Hours, files, dayVars, hourVars
<1>4. CASE StartInline
  BY <1>0, <1>4 DEF StartInline, DayLive, MainType, PlaceType, Places, HourEnd,
     Hours, files, dayVars, hourVars
<1>5. CASE Inline
  BY <1>0, <1>5 DEF Inline, DayLive, MainType, PlaceType, Places, HourEnd,
     Hours, files, dayVars, hourVars
<1>6. CASE Remove
  BY <1>0, <1>6 DEF Remove, DayLive, MainType, PlaceType, Places, HourEnd,
     Hours, files, dayVars, hourVars
<1>7. CASE Wait
  BY <1>0, <1>7, NoHourLeft DEF Wait, DayLive, hourVars
<1>8. CASE Collect
  BY <1>0, <1>8 DEF Collect, DayLive, MainType, PlaceType, Places, HourEnd,
     Hours, files, dayVars, hourVars
<1>9. CASE Reopen
  BY <1>0, <1>9 DEF Reopen, DayLive, MainType, PlaceType, Places, HourEnd,
     Hours, files, dayVars, hourVars
<1>10. CASE Write
  BY <1>0, <1>10 DEF Write, DayLive, MainType, PlaceType, Places, HourEnd,
     Hours, files, dayVars, hourVars
<1>11. CASE Crash
  BY <1>0, <1>11 DEF Crash, DayLive, MainType, PlaceType, Places, HourEnd,
     Hours, files, dayVars, hourVars
<1>12. ASSUME NEW h \in Hours, HourSkip(h) PROVE DayLive'
  BY <1>0, <1>12 DEF HourSkip, DayLive, MainType, PlaceType, Places, HourEnd,
     Hours, files, dayVars, hourVars
<1>13. ASSUME NEW h \in Hours, HourStart(h) PROVE DayLive'
  BY <1>0, <1>13 DEF HourStart, DayLive, MainType, PlaceType, Places, HourEnd,
     Hours, files, dayVars, hourVars
<1>14. ASSUME NEW h \in Hours, HourInline(h) PROVE DayLive'
  BY <1>0, <1>14 DEF HourInline, DayLive, MainType, PlaceType, Places, HourEnd,
     Hours, files, dayVars, hourVars
<1>15. ASSUME NEW h \in Hours, HourOpen(h) PROVE DayLive'
  BY <1>0, <1>15 DEF HourOpen, DayLive, MainType, PlaceType, Places, HourEnd,
     Hours, files, dayVars, hourVars
<1>16. ASSUME NEW h \in Hours, HourCopy(h) PROVE DayLive'
  BY <1>0, <1>16 DEF HourCopy, DayLive, MainType, PlaceType, Places, HourEnd,
     Hours, files, dayVars, hourVars
<1>17. ASSUME NEW h \in Hours, HourClose(h) PROVE DayLive'
  BY <1>0, <1>17 DEF HourClose, DayLive, MainType, PlaceType, Places, HourEnd,
     Hours, files, dayVars, hourVars
<1>18. ASSUME NEW h \in Hours, HourMerge(h) PROVE DayLive'
  BY <1>0, <1>18 DEF HourMerge, DayLive, MainType, PlaceType, Places, HourEnd,
     Hours, files, dayVars, hourVars
<1>19. ASSUME NEW h \in Hours, HourExit(h) PROVE DayLive'
  BY <1>0, <1>19 DEF HourExit, DayLive, MainType, PlaceType, Places, HourEnd,
     Hours, files, dayVars, hourVars
<1>20. ASSUME NEW c \in Cells, UnitOpen(c) PROVE DayLive'
  BY <1>0, <1>20 DEF UnitOpen, DayLive, MainType, PlaceType, Places, HourEnd,
     Hours, files, dayVars, hourVars
<1>21. ASSUME NEW c \in Cells, UnitQuery(c) PROVE DayLive'
  BY <1>0, <1>21 DEF UnitQuery, DayLive, MainType, PlaceType, Places, HourEnd,
     Hours, files, dayVars, hourVars
<1>22. ASSUME NEW c \in Cells, UnitExit(c) PROVE DayLive'
  BY <1>0, <1>22 DEF UnitExit, DayLive, MainType, PlaceType, Places, HourEnd,
     Hours, files, dayVars, hourVars
<1>23. CASE UNCHANGED vars
  BY <1>0, <1>23 DEF vars, DayLive, MainType, PlaceType, Places, HourEnd, Hours,
     files, dayVars, hourVars
<1> QED
  BY <1>1, <1>2, <1>3, <1>4, <1>5, <1>6, <1>7, <1>8, <1>9, <1>10, <1>11, <1>12,
     <1>13, <1>14, <1>15, <1>16, <1>17, <1>18, <1>19, <1>20, <1>21, <1>22, <1>23
     DEF Next, DayStep, HourStep, UnitStep

LEMMA HourLiveStep == DInv /\ [Next]_vars => HourLive'
<1> SUFFICES ASSUME DInv, [Next]_vars, NEW g \in Hours, NEW w \in Units
             PROVE  LiveAt(g, w)'
  BY DEF HourLive
<1> USE DayAssumption
<1> dayProg \in Shape /\ hourProg \in Shape
  BY DEF DInv, TypeOK
<1> dayProg' = dayProg /\ hourProg' = hourProg
  BY ProgStays
<1>0. PlaceType /\ ProgType /\ MainType /\ Places /\ DayLive /\ HourLive /\ LiveAt(g, w)
  BY TypeParts DEF DInv, HourLive
<1>a. <<g, w>> \in Cells /\ w \in Int /\ w >= 1
  BY DEF Cells, Units
<1>b. hpc[g] = "off" => upc[<<g, w>>] = "off"
  BY <1>0 DEF LiveAt
<1>1. CASE Run
  BY <1>0, <1>1 DEF Run, LiveAt, hourVars
<1>2. CASE Skip
  BY <1>0, <1>2 DEF Skip, LiveAt, hourVars
<1>3. CASE StartThread
  <2>1. hi' = [hi EXCEPT ![di] = 1] /\ upc' = upc
    BY <1>3 DEF StartThread
  <2>2. CASE g # di
    BY <1>0, <1>3, <2>1, <2>2 DEF StartThread, LiveAt, PlaceType
  <2>3. CASE g = di
    <3>1. upc[<<g, w>>] = "off"
      BY <1>0, <1>b, <1>3, <2>3 DEF StartThread, DayLive, MainType
    <3> QED
      BY <2>1, <3>1 DEF LiveAt
  <2> QED
    BY <2>2, <2>3
<1>4. CASE StartInline
  <2>1. hi' = [hi EXCEPT ![di] = 1] /\ upc' = upc
    BY <1>4 DEF StartInline
  <2>2. CASE g # di
    BY <1>0, <1>4, <2>1, <2>2 DEF StartInline, LiveAt, PlaceType
  <2>3. CASE g = di
    <3>1. upc[<<g, w>>] = "off"
      BY <1>0, <1>b, <1>4, <2>3 DEF StartInline, DayLive, MainType
    <3> QED
      BY <2>1, <3>1 DEF LiveAt
  <2> QED
    BY <2>2, <2>3
<1>5. CASE Inline
  BY <1>0, <1>5 DEF Inline, LiveAt, hourVars
<1>6. CASE Remove
  BY <1>0, <1>6 DEF Remove, LiveAt, hourVars
<1>7. CASE Wait
  BY <1>0, <1>7 DEF Wait, LiveAt, hourVars
<1>8. CASE Collect
  BY <1>0, <1>8 DEF Collect, LiveAt, hourVars
<1>9. CASE Reopen
  BY <1>0, <1>9 DEF Reopen, LiveAt, hourVars
<1>10. CASE Write
  BY <1>0, <1>10 DEF Write, LiveAt, hourVars
<1>11. CASE Crash
  BY <1>a, <1>11 DEF Crash, LiveAt
<1>12. ASSUME NEW h \in Hours, HourSkip(h) PROVE LiveAt(g, w)'
  <2>1. CASE g # h
    BY <1>0, <1>12, <2>1 DEF HourSkip, LiveAt, PlaceType, ProgType, files,
       dayVars, hourVars
  <2>2. CASE g = h
    BY <1>0, <1>a, <1>12, <2>2 DEF HourSkip, LiveAt, PlaceType, ProgType,
       HourEnd, Units
  <2> QED
    BY <2>1, <2>2
<1>13. ASSUME NEW h \in Hours, HourStart(h) PROVE LiveAt(g, w)'
  <2>1. CASE g # h
    <3>1. hpc'[g] = hpc[g] /\ hi'[g] = hi[g]
      BY <1>0, <1>13, <2>1 DEF HourStart, PlaceType
    <3>2. upc'[<<g, w>>] = upc[<<g, w>>]
      BY <1>0, <1>a, <1>13, <2>1 DEF HourStart, ProgType
    <3> QED
      BY <1>0, <3>1, <3>2 DEF LiveAt
  <2>2. CASE g = h
    <3>1. hpc[g] = "scan" /\ hi[g] \in Units /\ hi[g] \in Int
      BY <1>0, <1>13, <2>2 DEF HourStart, Units
    <3>2. w # hi[g] => upc'[<<g, w>>] = upc[<<g, w>>]
      BY <1>0, <1>a, <1>13, <2>2 DEF HourStart, ProgType
    <3>3. CASE hourProg.start = "threads"
      <4>1. hpc' = hpc /\ hi'[g] = hi[g] + 1
        BY <1>0, <1>13, <2>2, <3>3 DEF HourStart, PlaceType
      <4> QED
        BY <1>0, <1>a, <3>1, <3>2, <3>3, <4>1 DEF LiveAt
    <3>4. CASE hourProg.start = "inline"
      <4>1. hpc'[g] = "run" /\ hi' = hi
        BY <1>0, <1>13, <2>2, <3>4 DEF HourStart, PlaceType
      <4> QED
        BY <1>0, <1>a, <3>1, <3>2, <3>4, <4>1 DEF LiveAt
    <3> QED
      BY <3>3, <3>4 DEF Shape
  <2> QED
    BY <2>1, <2>2
<1>14. ASSUME NEW h \in Hours, HourInline(h) PROVE LiveAt(g, w)'
  <2>1. CASE g # h
    BY <1>0, <1>14, <2>1 DEF HourInline, LiveAt, PlaceType, ProgType, files,
       dayVars, hourVars
  <2>2. CASE g = h
    <3>1. upc' = upc /\ hpc'[g] = "scan" /\ hi'[g] = hi[g] + 1 /\ hi[g] \in Int
      BY <1>0, <1>14, <2>2 DEF HourInline, PlaceType
    <3>2. hpc[g] = "run" /\ upc[<<g, hi[g]>>] = "off" /\ hourProg.start = "inline"
      BY <1>0, <1>14, <2>2 DEF HourInline, Places
    <3>3. upc[<<g, w>>] = "off"
      BY <1>0, <3>2 DEF LiveAt
    <3> QED
      BY <3>1, <3>3 DEF LiveAt
  <2> QED
    BY <2>1, <2>2
<1>15. ASSUME NEW h \in Hours, HourOpen(h) PROVE LiveAt(g, w)'
  <2>1. CASE g # h
    BY <1>0, <1>15, <2>1 DEF HourOpen, LiveAt, PlaceType, ProgType, files,
       dayVars, hourVars
  <2>2. CASE g = h
    BY <1>0, <1>15, <2>2, NoUnitLeft DEF HourOpen, LiveAt
  <2> QED
    BY <2>1, <2>2
<1>16. ASSUME NEW h \in Hours, HourCopy(h) PROVE LiveAt(g, w)'
  <2>1. CASE g # h
    BY <1>0, <1>16, <2>1 DEF HourCopy, LiveAt, PlaceType, ProgType, files,
       dayVars, hourVars
  <2>2. CASE g = h
    BY <1>0, <1>a, <1>16, <2>2 DEF HourCopy, LiveAt, PlaceType, ProgType,
       HourEnd, Units
  <2> QED
    BY <2>1, <2>2
<1>17. ASSUME NEW h \in Hours, HourClose(h) PROVE LiveAt(g, w)'
  <2>1. CASE g # h
    BY <1>0, <1>17, <2>1 DEF HourClose, LiveAt, PlaceType, ProgType, files,
       dayVars, hourVars
  <2>2. CASE g = h
    BY <1>0, <1>a, <1>17, <2>2 DEF HourClose, LiveAt, PlaceType, ProgType,
       HourEnd, Units
  <2> QED
    BY <2>1, <2>2
<1>18. ASSUME NEW h \in Hours, HourMerge(h) PROVE LiveAt(g, w)'
  <2>1. CASE g # h
    BY <1>0, <1>18, <2>1 DEF HourMerge, LiveAt, PlaceType, ProgType, files,
       dayVars, hourVars
  <2>2. CASE g = h
    BY <1>0, <1>a, <1>18, <2>2 DEF HourMerge, LiveAt, PlaceType, ProgType,
       HourEnd, Units
  <2> QED
    BY <2>1, <2>2
<1>19. ASSUME NEW h \in Hours, HourExit(h) PROVE LiveAt(g, w)'
  <2>1. CASE g # h
    BY <1>0, <1>19, <2>1 DEF HourExit, LiveAt, PlaceType, ProgType, files,
       dayVars, hourVars
  <2>2. CASE g = h
    BY <1>0, <1>a, <1>19, <2>2 DEF HourExit, LiveAt, PlaceType, ProgType,
       HourEnd, Units
  <2> QED
    BY <2>1, <2>2
<1>20. ASSUME NEW c \in Cells, UnitOpen(c) PROVE LiveAt(g, w)'
  <2>1. hpc' = hpc /\ hi' = hi
    BY <1>20 DEF UnitOpen, hourVars
  <2>2. upc[<<g, w>>] = "off" => upc'[<<g, w>>] = "off"
    BY <1>0, <1>a, <1>20 DEF UnitOpen, ProgType
  <2> QED
    BY <1>0, <2>1, <2>2 DEF LiveAt
<1>21. ASSUME NEW c \in Cells, UnitQuery(c) PROVE LiveAt(g, w)'
  <2>1. hpc' = hpc /\ hi' = hi
    BY <1>21 DEF UnitQuery, hourVars
  <2>2. upc[<<g, w>>] = "off" => upc'[<<g, w>>] = "off"
    BY <1>0, <1>a, <1>21 DEF UnitQuery, ProgType
  <2> QED
    BY <1>0, <2>1, <2>2 DEF LiveAt
<1>22. ASSUME NEW c \in Cells, UnitExit(c) PROVE LiveAt(g, w)'
  <2>1. hpc' = hpc /\ hi' = hi
    BY <1>22 DEF UnitExit, hourVars
  <2>2. upc[<<g, w>>] = "off" => upc'[<<g, w>>] = "off"
    BY <1>0, <1>a, <1>22 DEF UnitExit, ProgType
  <2> QED
    BY <1>0, <2>1, <2>2 DEF LiveAt
<1>23. CASE UNCHANGED vars
  BY <1>0, <1>23 DEF vars, LiveAt, hourVars
<1> QED
  BY <1>1, <1>2, <1>3, <1>4, <1>5, <1>6, <1>7, <1>8, <1>9, <1>10, <1>11, <1>12,
     <1>13, <1>14, <1>15, <1>16, <1>17, <1>18, <1>19, <1>20, <1>21, <1>22, <1>23
     DEF Next, DayStep, HourStep, UnitStep

-----------------------------------------------------------------------------
(* The counters.                                                           *)

LEMMA DayCountStep == DInv /\ [Next]_vars => DayCount'
<1> SUFFICES ASSUME DInv, [Next]_vars PROVE DayCount'
  OBVIOUS
<1> USE DayAssumption
<1> dayProg \in Shape /\ hourProg \in Shape
  BY DEF DInv, TypeOK
<1> dayProg' = dayProg /\ hourProg' = hourProg
  BY ProgStays
<1>0. NumberType /\ MainType /\ PlaceType /\ Places /\ DayLive /\ DayCount
  BY TypeParts DEF DInv
<1>1. CASE Run
  <2>1. Live = {} /\ Live' = Live
    BY <1>0, <1>1 DEF Run, DayLive, Live, hourVars
  <2>2. Cardinality(Live') = 0
    BY <2>1, FS_EmptySet
  <2> QED
    BY <1>1, <2>2 DEF Run, DayCount
<1>2. CASE Skip
  BY <1>0, <1>2 DEF Skip, DayCount, Live, hourVars
<1>3. CASE StartThread
  <2>1. Live \in SUBSET (1 .. NHours) /\ di \in 1 .. NHours /\ di \notin Live
    BY <1>0, <1>3 DEF StartThread, DayLive, MainType, Live, Hours
  <2>2. Cardinality(Live \cup {di}) = Cardinality(Live) + 1 /\ Cardinality(Live) \in Nat
    BY <2>1, Grows, CardNat
  <2>3. CASE /\ \E x \in {"scan", "exit"} : hpc' = [hpc EXCEPT ![di] = x]
             /\ lost' = lost
    <3>1. Live' = Live \cup {di}
      BY <1>0, <2>1, <2>3 DEF Live, PlaceType, Hours
    <3> QED
      BY <1>0, <1>3, <2>2, <2>3, <3>1 DEF StartThread, Counted, DayCount,
         NumberType
  <2>4. CASE hpc' = hpc /\ lost' = lost + 1
    <3>1. Live' = Live
      BY <2>4 DEF Live
    <3> QED
      BY <1>0, <1>3, <2>2, <2>4, <3>1 DEF StartThread, Counted, DayCount,
         NumberType
  <2> QED
    BY <1>3, <2>3, <2>4 DEF StartThread
<1>4. CASE StartInline
  BY <1>4 DEF StartInline, DayCount
<1>5. CASE Inline
  BY <1>0, <1>5 DEF Inline, DayCount, Live, hourVars
<1>6. CASE Remove
  BY <1>0, <1>6 DEF Remove, DayCount, Live, hourVars
<1>7. CASE Wait
  BY <1>0, <1>7 DEF Wait, DayCount, Live, hourVars
<1>8. CASE Collect
  BY <1>0, <1>8 DEF Collect, DayCount, Live, hourVars
<1>9. CASE Reopen
  BY <1>0, <1>9 DEF Reopen, DayCount, Live, hourVars
<1>10. CASE Write
  BY <1>0, <1>10 DEF Write, DayCount, Live, hourVars
<1>11. CASE Crash
  <2>1. Live' = {}
    BY <1>11 DEF Crash, Live
  <2>2. Cardinality(Live') = 0
    BY <2>1, FS_EmptySet
  <2> QED
    BY <1>11, <2>2 DEF Crash, DayCount
<1>12. ASSUME NEW h \in Hours, HourSkip(h) PROVE DayCount'
  <2> SUFFICES ASSUME dayProg.start = "threads" PROVE DayCount'
    BY DEF DayCount
  <2>1. Live' = Live
    BY <1>0, <1>12 DEF HourSkip, Live, PlaceType, HourEnd, hourVars
  <2> QED
    BY <1>0, <1>12, <2>1 DEF HourSkip, DayCount
<1>13. ASSUME NEW h \in Hours, HourStart(h) PROVE DayCount'
  <2> SUFFICES ASSUME dayProg.start = "threads" PROVE DayCount'
    BY DEF DayCount
  <2>1. Live' = Live
    BY <1>0, <1>13 DEF HourStart, Live, PlaceType, HourEnd, hourVars
  <2> QED
    BY <1>0, <1>13, <2>1 DEF HourStart, DayCount
<1>14. ASSUME NEW h \in Hours, HourInline(h) PROVE DayCount'
  <2> SUFFICES ASSUME dayProg.start = "threads" PROVE DayCount'
    BY DEF DayCount
  <2>1. Live' = Live
    BY <1>0, <1>14 DEF HourInline, Live, PlaceType, HourEnd, hourVars
  <2> QED
    BY <1>0, <1>14, <2>1 DEF HourInline, DayCount
<1>15. ASSUME NEW h \in Hours, HourOpen(h) PROVE DayCount'
  <2> SUFFICES ASSUME dayProg.start = "threads" PROVE DayCount'
    BY DEF DayCount
  <2>1. Live' = Live
    BY <1>0, <1>15 DEF HourOpen, Live, PlaceType, HourEnd, hourVars
  <2> QED
    BY <1>0, <1>15, <2>1 DEF HourOpen, DayCount
<1>16. ASSUME NEW h \in Hours, HourCopy(h) PROVE DayCount'
  <2> SUFFICES ASSUME dayProg.start = "threads" PROVE DayCount'
    BY DEF DayCount
  <2>1. Live' = Live
    BY <1>0, <1>16 DEF HourCopy, Live, PlaceType, HourEnd, hourVars
  <2> QED
    BY <1>0, <1>16, <2>1 DEF HourCopy, DayCount
<1>17. ASSUME NEW h \in Hours, HourClose(h) PROVE DayCount'
  <2> SUFFICES ASSUME dayProg.start = "threads" PROVE DayCount'
    BY DEF DayCount
  <2>1. Live' = Live
    BY <1>0, <1>17 DEF HourClose, Live, PlaceType, HourEnd, hourVars
  <2> QED
    BY <1>0, <1>17, <2>1 DEF HourClose, DayCount
<1>18. ASSUME NEW h \in Hours, HourMerge(h) PROVE DayCount'
  <2> SUFFICES ASSUME dayProg.start = "threads" PROVE DayCount'
    BY DEF DayCount
  <2>1. Live' = Live
    BY <1>0, <1>18 DEF HourMerge, Live, PlaceType, HourEnd, hourVars
  <2> QED
    BY <1>0, <1>18, <2>1 DEF HourMerge, DayCount
<1>19. ASSUME NEW h \in Hours, HourExit(h) PROVE DayCount'
  <2>1. Live \in SUBSET (1 .. NHours) /\ h \in Live
    BY <1>19 DEF HourExit, Live, Hours
  <2>2. Live' = Live \ {h}
    BY <1>0, <1>19 DEF HourExit, Live, PlaceType
  <2>3. Cardinality(Live \ {h}) = Cardinality(Live) - 1 /\ Cardinality(Live) \in Nat
    BY <2>1, Shrinks, CardNat
  <2> QED
    BY <1>0, <1>19, <2>2, <2>3 DEF HourExit, DayCount, NumberType
<1>20. ASSUME NEW c \in Cells, UnitOpen(c) PROVE DayCount'
  BY <1>0, <1>20 DEF UnitOpen, DayCount, Live, hourVars
<1>21. ASSUME NEW c \in Cells, UnitQuery(c) PROVE DayCount'
  BY <1>0, <1>21 DEF UnitQuery, DayCount, Live, hourVars
<1>22. ASSUME NEW c \in Cells, UnitExit(c) PROVE DayCount'
  BY <1>0, <1>22 DEF UnitExit, DayCount, Live, hourVars
<1>23. CASE UNCHANGED vars
  BY <1>0, <1>23 DEF vars, DayCount, Live, files, dayVars, hourVars
<1> QED
  BY <1>1, <1>2, <1>3, <1>4, <1>5, <1>6, <1>7, <1>8, <1>9, <1>10, <1>11, <1>12,
     <1>13, <1>14, <1>15, <1>16, <1>17, <1>18, <1>19, <1>20, <1>21, <1>22, <1>23
     DEF Next, DayStep, HourStep, UnitStep

\* The same with the five-minute programs of an hour.
CountAt(h) == hpc[h] # "off" => hcount[h] = Cardinality(LiveUnits(h)) + hlost[h]

LEMMA HourCountStep == DInv /\ [Next]_vars => HourCount'
<1> SUFFICES ASSUME DInv, [Next]_vars, hourProg.start = "threads", NEW g \in Hours
             PROVE  CountAt(g)'
  BY ProgStays DEF HourCount, CountAt
<1> USE DayAssumption
<1> dayProg \in Shape /\ hourProg \in Shape
  BY DEF DInv, TypeOK
<1> dayProg' = dayProg /\ hourProg' = hourProg
  BY ProgStays
<1>0. /\ PlaceType /\ ProgType /\ CountType /\ MainType /\ DayLive /\ HourLive
      /\ CountAt(g)
  BY TypeParts DEF DInv, HourCount, CountAt
<1>a. LiveUnits(g) \in SUBSET (1 .. NUnits) /\ \A u \in Units : <<g, u>> \in Cells
  BY DEF LiveUnits, Units, Cells
<1>b. Cardinality(LiveUnits(g)) \in Nat /\ hcount[g] \in Nat /\ hlost[g] \in Nat
  BY <1>0, <1>a, CardNat DEF CountType
<1>1. CASE Run
  BY <1>0, <1>1 DEF Run, CountAt, LiveUnits, hourVars
<1>2. CASE Skip
  BY <1>0, <1>2 DEF Skip, CountAt, LiveUnits, hourVars
<1>3. CASE StartThread
  <2>1. CASE g # di
    <3>1. hpc'[g] = hpc[g] /\ hcount'[g] = hcount[g] /\ hlost'[g] = hlost[g]
      BY <1>0, <1>3, <2>1 DEF StartThread, PlaceType, CountType
    <3>2. LiveUnits(g)' = LiveUnits(g)
      BY <1>3 DEF StartThread, LiveUnits
    <3> QED
      BY <1>0, <3>1, <3>2 DEF CountAt
  <2>2. CASE g = di
    <3>1. hcount'[g] = 0 /\ hlost'[g] = 0
      BY <1>0, <1>3, <2>2 DEF StartThread, CountType
    <3>2. hpc[g] = "off"
      BY <1>0, <1>3, <2>2 DEF StartThread, DayLive, MainType
    <3>3. LiveUnits(g)' = {}
      BY <1>0, <1>3, <3>2 DEF StartThread, HourLive, LiveAt, LiveUnits
    <3>4. Cardinality(LiveUnits(g)') = 0
      BY <3>3, FS_EmptySet
    <3> QED
      BY <3>1, <3>4 DEF CountAt
  <2> QED
    BY <2>1, <2>2
<1>4. CASE StartInline
  <2>1. CASE g # di
    <3>1. hpc'[g] = hpc[g] /\ hcount'[g] = hcount[g] /\ hlost'[g] = hlost[g]
      BY <1>0, <1>4, <2>1 DEF StartInline, PlaceType, CountType
    <3>2. LiveUnits(g)' = LiveUnits(g)
      BY <1>4 DEF StartInline, LiveUnits
    <3> QED
      BY <1>0, <3>1, <3>2 DEF CountAt
  <2>2. CASE g = di
    <3>1. hcount'[g] = 0 /\ hlost'[g] = 0
      BY <1>0, <1>4, <2>2 DEF StartInline, CountType
    <3>2. hpc[g] = "off"
      BY <1>0, <1>4, <2>2 DEF StartInline, DayLive, MainType
    <3>3. LiveUnits(g)' = {}
      BY <1>0, <1>4, <3>2 DEF StartInline, HourLive, LiveAt, LiveUnits
    <3>4. Cardinality(LiveUnits(g)') = 0
      BY <3>3, FS_EmptySet
    <3> QED
      BY <3>1, <3>4 DEF CountAt
  <2> QED
    BY <2>1, <2>2
<1>5. CASE Inline
  BY <1>0, <1>5 DEF Inline, CountAt, LiveUnits, hourVars
<1>6. CASE Remove
  BY <1>0, <1>6 DEF Remove, CountAt, LiveUnits, hourVars
<1>7. CASE Wait
  BY <1>0, <1>7 DEF Wait, CountAt, LiveUnits, hourVars
<1>8. CASE Collect
  BY <1>0, <1>8 DEF Collect, CountAt, LiveUnits, hourVars
<1>9. CASE Reopen
  BY <1>0, <1>9 DEF Reopen, CountAt, LiveUnits, hourVars
<1>10. CASE Write
  BY <1>0, <1>10 DEF Write, CountAt, LiveUnits, hourVars
<1>11. CASE Crash
  BY <1>11 DEF Crash, CountAt
<1>12. ASSUME NEW h \in Hours, HourSkip(h) PROVE CountAt(g)'
  <2>1. hpc'[g] # "off" => hpc[g] # "off"
    BY <1>0, <1>12 DEF HourSkip, PlaceType, hourVars
  <2>2. LiveUnits(g)' = LiveUnits(g) /\ hcount' = hcount /\ hlost' = hlost
    BY <1>12 DEF HourSkip, LiveUnits, hourVars
  <2> QED
    BY <1>0, <2>1, <2>2 DEF CountAt
<1>13. ASSUME NEW h \in Hours, HourStart(h) PROVE CountAt(g)'
  <2>1. hpc' = hpc /\ hcount' = [hcount EXCEPT ![h] = hcount[h] + 1]
    BY <1>13 DEF HourStart
  <2>2. CASE g # h
    <3>1. hcount'[g] = hcount[g] /\ hlost'[g] = hlost[g]
      BY <1>0, <1>13, <2>1, <2>2 DEF HourStart, CountType
    <3>2. LiveUnits(g)' = LiveUnits(g)
      <4>1. \A u \in Units : upc'[<<g, u>>] = upc[<<g, u>>]
        BY <1>0, <1>a, <1>13, <2>2 DEF HourStart, ProgType
      <4> QED
        BY <4>1 DEF LiveUnits
    <3> QED
      BY <1>0, <2>1, <3>1, <3>2 DEF CountAt
  <2>3. CASE g = h
    <3>1. hpc[g] = "scan" /\ hi[g] \in Units /\ hi[g] \in 1 .. NUnits
      BY <1>13, <2>3 DEF HourStart, Units
    <3>2. hcount[g] = Cardinality(LiveUnits(g)) + hlost[g] /\ hcount'[g] = hcount[g] + 1
      BY <1>0, <2>1, <2>3, <3>1 DEF CountAt, CountType
    <3>3. hi[g] \notin LiveUnits(g)
      BY <1>0, <3>1 DEF HourLive, LiveAt, LiveUnits, Units
    <3>4. Cardinality(LiveUnits(g) \cup {hi[g]}) = Cardinality(LiveUnits(g)) + 1
      BY <1>a, <3>1, <3>3, Grows
    <3>5. CASE /\ \E x \in {"open", "exit"} : upc' = [upc EXCEPT ![<<g, hi[g]>>] = x]
               /\ hlost' = hlost
      <4>1. LiveUnits(g)' = LiveUnits(g) \cup {hi[g]}
        BY <1>0, <1>a, <3>1, <3>5 DEF LiveUnits, ProgType
      <4> QED
        BY <1>b, <3>2, <3>4, <3>5, <4>1 DEF CountAt
    <3>6. CASE upc' = upc /\ hlost' = [hlost EXCEPT ![g] = hlost[g] + 1]
      <4>1. LiveUnits(g)' = LiveUnits(g)
        BY <3>6 DEF LiveUnits
      <4>2. hlost'[g] = hlost[g] + 1
        BY <1>0, <3>6 DEF CountType
      <4> QED
        BY <1>b, <3>2, <4>1, <4>2 DEF CountAt
    <3> QED
      BY <1>13, <2>3, <3>5, <3>6 DEF HourStart, UnitEnd
  <2> QED
    BY <2>2, <2>3
<1>14. ASSUME NEW h \in Hours, HourInline(h) PROVE CountAt(g)'
  <2>1. hpc'[g] # "off" => hpc[g] # "off"
    BY <1>0, <1>14 DEF HourInline, PlaceType, hourVars
  <2>2. LiveUnits(g)' = LiveUnits(g) /\ hcount' = hcount /\ hlost' = hlost
    BY <1>14 DEF HourInline, LiveUnits, hourVars
  <2> QED
    BY <1>0, <2>1, <2>2 DEF CountAt
<1>15. ASSUME NEW h \in Hours, HourOpen(h) PROVE CountAt(g)'
  <2>1. hpc'[g] # "off" => hpc[g] # "off"
    BY <1>0, <1>15 DEF HourOpen, PlaceType, hourVars
  <2>2. LiveUnits(g)' = LiveUnits(g) /\ hcount' = hcount /\ hlost' = hlost
    BY <1>15 DEF HourOpen, LiveUnits, hourVars
  <2> QED
    BY <1>0, <2>1, <2>2 DEF CountAt
<1>16. ASSUME NEW h \in Hours, HourCopy(h) PROVE CountAt(g)'
  <2>1. hpc'[g] # "off" => hpc[g] # "off"
    BY <1>0, <1>16 DEF HourCopy, PlaceType, hourVars
  <2>2. LiveUnits(g)' = LiveUnits(g) /\ hcount' = hcount /\ hlost' = hlost
    BY <1>16 DEF HourCopy, LiveUnits, hourVars
  <2> QED
    BY <1>0, <2>1, <2>2 DEF CountAt
<1>17. ASSUME NEW h \in Hours, HourClose(h) PROVE CountAt(g)'
  <2>1. hpc'[g] # "off" => hpc[g] # "off"
    BY <1>0, <1>17 DEF HourClose, PlaceType, hourVars
  <2>2. LiveUnits(g)' = LiveUnits(g) /\ hcount' = hcount /\ hlost' = hlost
    BY <1>17 DEF HourClose, LiveUnits, hourVars
  <2> QED
    BY <1>0, <2>1, <2>2 DEF CountAt
<1>18. ASSUME NEW h \in Hours, HourMerge(h) PROVE CountAt(g)'
  <2>1. hpc'[g] # "off" => hpc[g] # "off"
    BY <1>0, <1>18 DEF HourMerge, PlaceType, hourVars
  <2>2. LiveUnits(g)' = LiveUnits(g) /\ hcount' = hcount /\ hlost' = hlost
    BY <1>18 DEF HourMerge, LiveUnits, hourVars
  <2> QED
    BY <1>0, <2>1, <2>2 DEF CountAt
<1>19. ASSUME NEW h \in Hours, HourExit(h) PROVE CountAt(g)'
  <2>1. hpc'[g] # "off" => hpc[g] # "off"
    BY <1>0, <1>19 DEF HourExit, PlaceType, hourVars
  <2>2. LiveUnits(g)' = LiveUnits(g) /\ hcount' = hcount /\ hlost' = hlost
    BY <1>19 DEF HourExit, LiveUnits, hourVars
  <2> QED
    BY <1>0, <2>1, <2>2 DEF CountAt
<1>20. ASSUME NEW c \in Cells, UnitOpen(c) PROVE CountAt(g)'
  <2>1. \A u \in Units : upc'[<<g, u>>] # "off" <=> upc[<<g, u>>] # "off"
    BY <1>0, <1>a, <1>20 DEF UnitOpen, ProgType, UnitEnd
  <2>2. LiveUnits(g)' = LiveUnits(g)
    BY <2>1 DEF LiveUnits
  <2> QED
    BY <1>0, <1>20, <2>2 DEF UnitOpen, CountAt, hourVars
<1>21. ASSUME NEW c \in Cells, UnitQuery(c) PROVE CountAt(g)'
  <2>1. \A u \in Units : upc'[<<g, u>>] # "off" <=> upc[<<g, u>>] # "off"
    BY <1>0, <1>a, <1>21 DEF UnitQuery, ProgType, UnitEnd
  <2>2. LiveUnits(g)' = LiveUnits(g)
    BY <2>1 DEF LiveUnits
  <2> QED
    BY <1>0, <1>21, <2>2 DEF UnitQuery, CountAt, hourVars
<1>22. ASSUME NEW c \in Cells, UnitExit(c) PROVE CountAt(g)'
  <2>1. PICK h \in Hours, u \in Units : c = <<h, u>>
    BY <1>22 DEF Cells
  <2>2. hcount' = [hcount EXCEPT ![h] = hcount[h] - 1] /\ hpc' = hpc /\ hlost' = hlost
    BY <1>22, <2>1 DEF UnitExit
  <2>3. upc' = [upc EXCEPT ![<<h, u>>] = "off"] /\ upc[<<h, u>>] = "exit"
    BY <1>22, <2>1 DEF UnitExit
  <2>4. CASE g # h
    <3>1. LiveUnits(g)' = LiveUnits(g)
      <4>1. \A v \in Units : upc'[<<g, v>>] = upc[<<g, v>>]
        BY <1>0, <1>a, <2>3, <2>4 DEF ProgType
      <4> QED
        BY <4>1 DEF LiveUnits
    <3> QED
      BY <1>0, <2>2, <2>4, <3>1 DEF CountAt, CountType
  <2>5. CASE g = h
    <3>1. u \in LiveUnits(g)
      BY <2>3, <2>5 DEF LiveUnits
    <3>2. LiveUnits(g)' = LiveUnits(g) \ {u}
      BY <1>0, <1>a, <2>3, <2>5 DEF LiveUnits, ProgType
    <3>3. Cardinality(LiveUnits(g) \ {u}) = Cardinality(LiveUnits(g)) - 1
      BY <1>a, <3>1, Shrinks
    <3>4. hcount'[g] = hcount[g] - 1
      BY <1>0, <2>2, <2>5 DEF CountType
    <3> QED
      BY <1>0, <1>b, <2>2, <3>2, <3>3, <3>4 DEF CountAt
  <2> QED
    BY <2>4, <2>5
<1>23. CASE UNCHANGED vars
  BY <1>0, <1>23 DEF vars, CountAt, LiveUnits, hourVars
<1> QED
  BY <1>1, <1>2, <1>3, <1>4, <1>5, <1>6, <1>7, <1>8, <1>9, <1>10, <1>11, <1>12,
     <1>13, <1>14, <1>15, <1>16, <1>17, <1>18, <1>19, <1>20, <1>21, <1>22, <1>23
     DEF Next, DayStep, HourStep, UnitStep

LEMMA DInvStep == DInv /\ [Next]_vars => DInv'
BY TypeStep, PlacesStep, DayLiveStep, DayCountStep, HourLiveStep, HourCountStep
   DEF DInv

LEMMA DInvHolds == Spec => []DInv
BY InitDInv, DInvStep, PTL DEF Spec

-----------------------------------------------------------------------------
(* Results.                                                                *)

\* In every state of a day, with any failures and crashes, the files, the
\* counters of the threads and the positions of the programs have their types:
\* lcs_count and lcs_count_thread never fall below zero.
THEOREM TypeCorrect == Spec => []TypeOK
BY DInvHolds, PTL DEF DInv

\* lcs_count of the day program and lcs_count_thread of an hour program count
\* the threads that are alive and those pthread_create failed to make.
THEOREM CountsRightHolds == Spec => []CountsRight
<1>1. DInv => CountsRight
  BY DEF DInv, DayCount, HourCount, CountsRight
<1> QED
  BY <1>1, DInvHolds, PTL

\* lcs_hcollect_sum reads the hours, and lcs_00hour_sum the five minutes, only
\* when no program that writes them is alive.
THEOREM BarrierHolds == Spec => []Barrier
<1>1. DInv => Barrier
  BY DEF DInv, DayLive, HourLive, LiveAt, Barrier, Live, LiveUnits
<1> QED
  BY <1>1, DInvHolds, PTL

LEMMA SumsStep == DInv /\ Sums /\ [Next]_vars => Sums'
<1> SUFFICES ASSUME DInv, Sums, [Next]_vars PROVE Sums'
  OBVIOUS
<1> USE DayAssumption
<1> dayProg \in Shape /\ hourProg \in Shape
  BY DEF DInv, TypeOK
<1> dayProg' = dayProg /\ hourProg' = hourProg
  BY ProgStays
<1>0. DayType /\ MainType /\ NumberType /\ Sums
  BY TypeParts DEF DInv
<1>1. CASE Run
  BY <1>0, <1>1 DEF Run, Sums, DayType, MainType, NumberType, Zero, files,
     dayVars, hourVars
<1>2. CASE Skip
  BY <1>0, <1>2 DEF Skip, Sums, DayType, MainType, NumberType, Zero, files,
     dayVars, hourVars
<1>3. CASE StartThread
  BY <1>0, <1>3 DEF StartThread, Sums, DayType, MainType, NumberType, Zero,
     files, dayVars, hourVars
<1>4. CASE StartInline
  BY <1>0, <1>4 DEF StartInline, Sums, DayType, MainType, NumberType, Zero,
     files, dayVars, hourVars
<1>5. CASE Inline
  BY <1>0, <1>5 DEF Inline, Sums, DayType, MainType, NumberType, Zero, files,
     dayVars, hourVars
<1>6. CASE Remove
  BY <1>0, <1>6 DEF Remove, Sums, DayType, MainType, NumberType, Zero, files,
     dayVars, hourVars
<1>7. CASE Wait
  <2>1. DayType /\ rounds \in Nat
    BY <1>0 DEF NumberType
  <2>2. CASE dayProg.combine = "sum"
    <3>1. \A c \in Cells : acc'[c] = 0
      BY <1>0, <1>7, <2>2 DEF Wait, Sums, Zero
    <3>2. rounds' = 1 /\ \A c \in Cells : day'[c] <= 1
      BY <1>0, <1>7, <2>1, <2>2 DEF Wait, Sums, files, DayType
    <3> QED
      BY <1>7, <2>2, <3>1, <3>2 DEF Wait, Sums
  <2>3. CASE dayProg.combine # "sum"
    <3>1. rounds' = rounds + 1 /\ \A c \in Cells : day'[c] + 1 <= rounds'
      BY <1>0, <1>7, <2>1, <2>3 DEF Wait, Sums, files, DayType
    <3>2. \A c \in Cells : day'[c] <= rounds'
      BY <1>7, <2>1, <3>1 DEF Wait, files, DayType
    <3> QED
      BY <1>7, <2>3, <3>1, <3>2 DEF Wait, Sums
  <2> QED
    BY <2>2, <2>3
<1>8. CASE Collect
  <2>1. di \in Int /\ DayType /\ rounds \in Nat
    BY <1>0 DEF MainType, NumberType
  <2>2. \A c \in Cells : c[1] \in Int
    BY DEF Cells, Hours
  <2>3. CASE dayProg.combine = "sum"
    <3>1. \A c \in Cells : acc'[c] = acc[c] \/ (c[1] = di /\ acc'[c] = acc[c] + 1)
      BY <1>8, <2>1, <2>3 DEF Collect, Plus, DayType
    <3>2. \A c \in Cells : acc'[c] <= 1 /\ (c[1] >= di + 1 => acc'[c] = 0)
      BY <1>0, <1>8, <2>1, <2>2, <2>3, <3>1 DEF Collect, Sums, DayType
    <3> QED
      BY <1>0, <1>8, <2>3, <3>2 DEF Collect, Sums
  <2>4. CASE dayProg.combine # "sum"
    <3>1. \A c \in Cells : day'[c] = day[c] \/ (c[1] = di /\ day'[c] = day[c] + 1)
      BY <1>8, <2>1, <2>4 DEF Collect, Plus, DayType
    <3>2. \A c \in Cells : day'[c] <= rounds /\ (c[1] >= di + 1 => day'[c] + 1 <= rounds)
      BY <1>0, <1>8, <2>1, <2>2, <2>4, <3>1 DEF Collect, Sums, DayType
    <3> QED
      BY <1>0, <1>8, <2>4, <3>2 DEF Collect, Sums
  <2> QED
    BY <2>3, <2>4
<1>9. CASE Reopen
  BY <1>0, <1>9 DEF Reopen, Sums, DayType, MainType, NumberType, Zero, files,
     dayVars, hourVars
<1>10. CASE Write
  BY <1>0, <1>10 DEF Write, Sums, DayType, MainType, NumberType, Zero, files,
     dayVars, hourVars
<1>11. CASE Crash
  BY <1>0, <1>11 DEF Crash, Sums, DayType, MainType, NumberType, Zero, files,
     dayVars, hourVars
<1>12. ASSUME NEW h \in Hours, HourSkip(h) PROVE Sums'
  BY <1>0, <1>12 DEF HourSkip, Sums, files, dayVars
<1>13. ASSUME NEW h \in Hours, HourStart(h) PROVE Sums'
  BY <1>0, <1>13 DEF HourStart, Sums, files, dayVars
<1>14. ASSUME NEW h \in Hours, HourInline(h) PROVE Sums'
  BY <1>0, <1>14 DEF HourInline, Sums, files, dayVars
<1>15. ASSUME NEW h \in Hours, HourOpen(h) PROVE Sums'
  BY <1>0, <1>15 DEF HourOpen, Sums, files, dayVars
<1>16. ASSUME NEW h \in Hours, HourCopy(h) PROVE Sums'
  BY <1>0, <1>16 DEF HourCopy, Sums, files, dayVars
<1>17. ASSUME NEW h \in Hours, HourClose(h) PROVE Sums'
  BY <1>0, <1>17 DEF HourClose, Sums, files, dayVars
<1>18. ASSUME NEW h \in Hours, HourMerge(h) PROVE Sums'
  BY <1>0, <1>18 DEF HourMerge, Sums, files, dayVars
<1>19. ASSUME NEW h \in Hours, HourExit(h) PROVE Sums'
  BY <1>0, <1>19 DEF HourExit, Sums, files, dayVars
<1>20. ASSUME NEW c \in Cells, UnitOpen(c) PROVE Sums'
  BY <1>0, <1>20 DEF UnitOpen, Sums, files, dayVars
<1>21. ASSUME NEW c \in Cells, UnitQuery(c) PROVE Sums'
  BY <1>0, <1>21 DEF UnitQuery, Sums, files, dayVars
<1>22. ASSUME NEW c \in Cells, UnitExit(c) PROVE Sums'
  BY <1>0, <1>22 DEF UnitExit, Sums, files, dayVars
<1>23. CASE UNCHANGED vars
  BY <1>0, <1>23 DEF vars, Sums, DayType, MainType, NumberType, Zero, files,
     dayVars, hourVars
<1> QED
  BY <1>1, <1>2, <1>3, <1>4, <1>5, <1>6, <1>7, <1>8, <1>9, <1>10, <1>11, <1>12,
     <1>13, <1>14, <1>15, <1>16, <1>17, <1>18, <1>19, <1>20, <1>21, <1>22, <1>23
     DEF Next, DayStep, HourStep, UnitStep

LEMMA FreshStep == DInv /\ Fresh /\ [Next]_vars => Fresh'
<1> SUFFICES ASSUME DInv, Fresh, [Next]_vars PROVE Fresh'
  OBVIOUS
<1> USE DayAssumption
<1> dayProg \in Shape /\ hourProg \in Shape
  BY DEF DInv, TypeOK
<1> dayProg' = dayProg /\ hourProg' = hourProg
  BY ProgStays
<1>0. UnitType /\ HourType /\ MainType /\ PlaceType /\ ProgType /\ DayLive /\ Fresh
  BY TypeParts DEF DInv
<1>1. CASE Run
  BY <1>0, <1>1 DEF Run, Fresh, UnitType, HourType, MainType, PlaceType,
     ProgType, DayLive, HourEnd, UnitEnd, files, dayVars, hourVars
<1>2. CASE Skip
  BY <1>0, <1>2 DEF Skip, Fresh, UnitType, HourType, MainType, PlaceType,
     ProgType, DayLive, HourEnd, UnitEnd, files, dayVars, hourVars
<1>3. CASE StartThread
  BY <1>0, <1>3 DEF StartThread, Fresh, UnitType, HourType, MainType, PlaceType,
     ProgType, DayLive, HourEnd, UnitEnd, files, dayVars, hourVars
<1>4. CASE StartInline
  BY <1>0, <1>4 DEF StartInline, Fresh, UnitType, HourType, MainType, PlaceType,
     ProgType, DayLive, HourEnd, UnitEnd, files, dayVars, hourVars
<1>5. CASE Inline
  BY <1>0, <1>5 DEF Inline, Fresh, UnitType, HourType, MainType, PlaceType,
     ProgType, DayLive, HourEnd, UnitEnd, files, dayVars, hourVars
<1>6. CASE Remove
  BY <1>0, <1>6 DEF Remove, Fresh, UnitType, HourType, MainType, PlaceType,
     ProgType, DayLive, HourEnd, UnitEnd, files, dayVars, hourVars
<1>7. CASE Wait
  BY <1>0, <1>7 DEF Wait, Fresh, UnitType, HourType, MainType, PlaceType,
     ProgType, DayLive, HourEnd, UnitEnd, files, dayVars, hourVars
<1>8. CASE Collect
  BY <1>0, <1>8 DEF Collect, Fresh, UnitType, HourType, MainType, PlaceType,
     ProgType, DayLive, HourEnd, UnitEnd, files, dayVars, hourVars
<1>9. CASE Reopen
  BY <1>0, <1>9 DEF Reopen, Fresh, UnitType, HourType, MainType, PlaceType,
     ProgType, DayLive, HourEnd, UnitEnd, files, dayVars, hourVars
<1>10. CASE Write
  BY <1>0, <1>10 DEF Write, Fresh, UnitType, HourType, MainType, PlaceType,
     ProgType, DayLive, HourEnd, UnitEnd, files, dayVars, hourVars
<1>11. CASE Crash
  BY <1>0, <1>11 DEF Crash, Fresh, UnitType, HourType, MainType, PlaceType,
     ProgType, DayLive, HourEnd, UnitEnd, files, dayVars, hourVars
<1>12. ASSUME NEW h \in Hours, HourSkip(h) PROVE Fresh'
  BY <1>0, <1>12 DEF HourSkip, Fresh, UnitType, HourType, MainType, PlaceType,
     ProgType, DayLive, HourEnd, UnitEnd, files, dayVars, hourVars
<1>13. ASSUME NEW h \in Hours, HourStart(h) PROVE Fresh'
  BY <1>0, <1>13 DEF HourStart, Fresh, UnitType, HourType, MainType, PlaceType,
     ProgType, DayLive, HourEnd, UnitEnd, files, dayVars, hourVars
<1>14. ASSUME NEW h \in Hours, HourInline(h) PROVE Fresh'
  BY <1>0, <1>14 DEF HourInline, Fresh, UnitType, HourType, MainType, PlaceType,
     ProgType, DayLive, HourEnd, UnitEnd, files, dayVars, hourVars
<1>15. ASSUME NEW h \in Hours, HourOpen(h) PROVE Fresh'
  BY <1>0, <1>15 DEF HourOpen, Fresh, UnitType, HourType, MainType, PlaceType,
     ProgType, DayLive, HourEnd, UnitEnd, files, dayVars, hourVars
<1>16. ASSUME NEW h \in Hours, HourCopy(h) PROVE Fresh'
  BY <1>0, <1>16 DEF HourCopy, Fresh, UnitType, HourType, MainType, PlaceType,
     ProgType, DayLive, HourEnd, UnitEnd, files, dayVars, hourVars
<1>17. ASSUME NEW h \in Hours, HourClose(h) PROVE Fresh'
  BY <1>0, <1>17 DEF HourClose, Fresh, UnitType, HourType, MainType, PlaceType,
     ProgType, DayLive, HourEnd, UnitEnd, files, dayVars, hourVars
<1>18. ASSUME NEW h \in Hours, HourMerge(h) PROVE Fresh'
  BY <1>0, <1>18 DEF HourMerge, Fresh, UnitType, HourType, MainType, PlaceType,
     ProgType, DayLive, HourEnd, UnitEnd, files, dayVars, hourVars
<1>19. ASSUME NEW h \in Hours, HourExit(h) PROVE Fresh'
  BY <1>0, <1>19 DEF HourExit, Fresh, UnitType, HourType, MainType, PlaceType,
     ProgType, DayLive, HourEnd, UnitEnd, files, dayVars, hourVars
<1>20. ASSUME NEW c \in Cells, UnitOpen(c) PROVE Fresh'
  BY <1>0, <1>20 DEF UnitOpen, Fresh, UnitType, HourType, MainType, PlaceType,
     ProgType, DayLive, HourEnd, UnitEnd, files, dayVars, hourVars
<1>21. ASSUME NEW c \in Cells, UnitQuery(c) PROVE Fresh'
  BY <1>0, <1>21 DEF UnitQuery, Fresh, UnitType, HourType, MainType, PlaceType,
     ProgType, DayLive, HourEnd, UnitEnd, files, dayVars, hourVars
<1>22. ASSUME NEW c \in Cells, UnitExit(c) PROVE Fresh'
  BY <1>0, <1>22 DEF UnitExit, Fresh, UnitType, HourType, MainType, PlaceType,
     ProgType, DayLive, HourEnd, UnitEnd, files, dayVars, hourVars
<1>23. CASE UNCHANGED vars
  BY <1>0, <1>23 DEF vars, Fresh, UnitType, HourType, MainType, PlaceType,
     ProgType, DayLive, HourEnd, UnitEnd, files, dayVars, hourVars
<1> QED
  BY <1>1, <1>2, <1>3, <1>4, <1>5, <1>6, <1>7, <1>8, <1>9, <1>10, <1>11, <1>12,
     <1>13, <1>14, <1>15, <1>16, <1>17, <1>18, <1>19, <1>20, <1>21, <1>22, <1>23
     DEF Next, DayStep, HourStep, UnitStep

\* Whatever fails, crashes or is run again, lcs_hcollect_sum has put no cell
\* into the day's file more often than the file was filled since a run that
\* started an hour removed it.
THEOREM NoOvercountHolds == Spec => []NoOvercount
<1>1. Init => DInv /\ Sums
  <2>1. Init => Sums
    BY DayAssumption DEF Init, Sums, Zero
  <2> QED
    BY <2>1, InitDInv
<1>2. (DInv /\ Sums) /\ [Next]_vars => (DInv /\ Sums)'
  BY DInvStep, SumsStep
<1>3. Sums => NoOvercount
  BY DEF Sums, NoOvercount
<1> QED
  BY <1>1, <1>2, <1>3, PTL DEF Spec

LEMMA FreshHolds == Spec => [](DInv /\ Fresh)
<1>1. Init => DInv /\ Fresh
  <2>1. Init => Fresh
    BY DEF Init, Fresh, NoHour
  <2> QED
    BY <2>1, InitDInv
<1>2. (DInv /\ Fresh) /\ [Next]_vars => (DInv /\ Fresh)'
  BY DInvStep, FreshStep
<1> QED
  BY <1>1, <1>2, PTL DEF Spec

KeptStep ==
  /\ \A c \in Cells : unit[c] = "full" => unit'[c] = "full"
  /\ \A h \in Hours :
       hour[h].exists /\ hpc[h] \in {"off", "scan", "run"} => hour'[h] = hour[h]


LEMMA OneStepKeeps == DInv /\ Fresh /\ [Next]_vars => KeptStep
<1> SUFFICES ASSUME DInv, Fresh, [Next]_vars PROVE KeptStep
  OBVIOUS
<1> USE DayAssumption
<1> dayProg \in Shape /\ hourProg \in Shape
  BY DEF DInv, TypeOK
<1> dayProg' = dayProg /\ hourProg' = hourProg
  BY ProgStays
<1>0. UnitType /\ HourType /\ PlaceType /\ ProgType /\ Fresh
  BY TypeParts DEF DInv
<1>1. CASE Run
  BY <1>0, <1>1 DEF Run, KeptStep, UnitType, HourType, PlaceType, ProgType,
     Fresh, files, dayVars, hourVars
<1>2. CASE Skip
  BY <1>0, <1>2 DEF Skip, KeptStep, UnitType, HourType, PlaceType, ProgType,
     Fresh, files, dayVars, hourVars
<1>3. CASE StartThread
  BY <1>0, <1>3 DEF StartThread, KeptStep, UnitType, HourType, PlaceType,
     ProgType, Fresh, files, dayVars, hourVars
<1>4. CASE StartInline
  BY <1>0, <1>4 DEF StartInline, KeptStep, UnitType, HourType, PlaceType,
     ProgType, Fresh, files, dayVars, hourVars
<1>5. CASE Inline
  BY <1>0, <1>5 DEF Inline, KeptStep, UnitType, HourType, PlaceType, ProgType,
     Fresh, files, dayVars, hourVars
<1>6. CASE Remove
  BY <1>0, <1>6 DEF Remove, KeptStep, UnitType, HourType, PlaceType, ProgType,
     Fresh, files, dayVars, hourVars
<1>7. CASE Wait
  BY <1>0, <1>7 DEF Wait, KeptStep, UnitType, HourType, PlaceType, ProgType,
     Fresh, files, dayVars, hourVars
<1>8. CASE Collect
  BY <1>0, <1>8 DEF Collect, KeptStep, UnitType, HourType, PlaceType, ProgType,
     Fresh, files, dayVars, hourVars
<1>9. CASE Reopen
  BY <1>0, <1>9 DEF Reopen, KeptStep, UnitType, HourType, PlaceType, ProgType,
     Fresh, files, dayVars, hourVars
<1>10. CASE Write
  BY <1>0, <1>10 DEF Write, KeptStep, UnitType, HourType, PlaceType, ProgType,
     Fresh, files, dayVars, hourVars
<1>11. CASE Crash
  BY <1>0, <1>11 DEF Crash, KeptStep, UnitType, HourType, PlaceType, ProgType,
     Fresh, files, dayVars, hourVars
<1>12. ASSUME NEW h \in Hours, HourSkip(h) PROVE KeptStep
  BY <1>0, <1>12 DEF HourSkip, KeptStep, UnitType, HourType, PlaceType,
     ProgType, Fresh, files, dayVars, hourVars
<1>13. ASSUME NEW h \in Hours, HourStart(h) PROVE KeptStep
  BY <1>0, <1>13 DEF HourStart, KeptStep, UnitType, HourType, PlaceType,
     ProgType, Fresh, files, dayVars, hourVars
<1>14. ASSUME NEW h \in Hours, HourInline(h) PROVE KeptStep
  BY <1>0, <1>14 DEF HourInline, KeptStep, UnitType, HourType, PlaceType,
     ProgType, Fresh, files, dayVars, hourVars
<1>15. ASSUME NEW h \in Hours, HourOpen(h) PROVE KeptStep
  BY <1>0, <1>15 DEF HourOpen, KeptStep, UnitType, HourType, PlaceType,
     ProgType, Fresh, files, dayVars, hourVars
<1>16. ASSUME NEW h \in Hours, HourCopy(h) PROVE KeptStep
  BY <1>0, <1>16 DEF HourCopy, KeptStep, UnitType, HourType, PlaceType,
     ProgType, Fresh, files, dayVars, hourVars
<1>17. ASSUME NEW h \in Hours, HourClose(h) PROVE KeptStep
  BY <1>0, <1>17 DEF HourClose, KeptStep, UnitType, HourType, PlaceType,
     ProgType, Fresh, files, dayVars, hourVars
<1>18. ASSUME NEW h \in Hours, HourMerge(h) PROVE KeptStep
  BY <1>0, <1>18 DEF HourMerge, KeptStep, UnitType, HourType, PlaceType,
     ProgType, Fresh, files, dayVars, hourVars
<1>19. ASSUME NEW h \in Hours, HourExit(h) PROVE KeptStep
  BY <1>0, <1>19 DEF HourExit, KeptStep, UnitType, HourType, PlaceType,
     ProgType, Fresh, files, dayVars, hourVars
<1>20. ASSUME NEW c \in Cells, UnitOpen(c) PROVE KeptStep
  BY <1>0, <1>20 DEF UnitOpen, KeptStep, UnitType, HourType, PlaceType,
     ProgType, Fresh, files, dayVars, hourVars
<1>21. ASSUME NEW c \in Cells, UnitQuery(c) PROVE KeptStep
  BY <1>0, <1>21 DEF UnitQuery, KeptStep, UnitType, HourType, PlaceType,
     ProgType, Fresh, files, dayVars, hourVars
<1>22. ASSUME NEW c \in Cells, UnitExit(c) PROVE KeptStep
  BY <1>0, <1>22 DEF UnitExit, KeptStep, UnitType, HourType, PlaceType,
     ProgType, Fresh, files, dayVars, hourVars
<1>23. CASE UNCHANGED vars
  BY <1>0, <1>23 DEF vars, KeptStep, UnitType, HourType, PlaceType, ProgType,
     Fresh, files, dayVars, hourVars
<1> QED
  BY <1>1, <1>2, <1>3, <1>4, <1>5, <1>6, <1>7, <1>8, <1>9, <1>10, <1>11, <1>12,
     <1>13, <1>14, <1>15, <1>16, <1>17, <1>18, <1>19, <1>20, <1>21, <1>22, <1>23
     DEF Next, DayStep, HourStep, UnitStep

\* A complete file of a five-minute program is never touched again, and the file
\* of an hour only by the hour program that made it, whatever crashes in between.
THEOREM KeptHolds == Spec => Kept
<1>1. DInv /\ Fresh /\ [Next]_vars => [KeptStep]_vars
  BY OneStepKeeps
<1>2. [][KeptStep]_vars => Kept
  BY PTL DEF Kept, KeptStep
<1> QED
  BY <1>1, <1>2, FreshHolds, PTL DEF Spec

-----------------------------------------------------------------------------
(* Completeness.  As long as nothing has failed: a five-minute program that *)
(* was asked for has its file or is at work on it, a finished hour has the *)
(* cells of its databases, and the day has what it has collected.          *)

DbOf(h) == {u \in Units : <<h, u>> \in Db}

Asked(h, u) ==
  \/ hpc[h] = "scan" /\ u < hi[h]
  \/ hpc[h] = "run" /\ u <= hi[h]
  \/ hpc[h] \in {"copy", "merge", "rows"}

UnitDone(h, u) ==
  /\ unit[<<h, u>>] # "none" => <<h, u>> \in Db
  /\ unit[<<h, u>>] = "part" => upc[<<h, u>>] = "sql"
  /\ <<h, u>> \in Db /\ Asked(h, u) =>
       unit[<<h, u>>] = "full" \/ upc[<<h, u>>] \in {"open", "sql"}
UnitsDone == ~faulty => \A h \in Hours, u \in Units : UnitDone(h, u)

Passed(h) ==
  \/ dpc = "scan" /\ h < di
  \/ dpc = "run" /\ h <= di
  \/ dpc \in {"wait", "collect", "write"}

HourDone(h) ==
  /\ ~hour[h].exists => hour[h].has = {}
  /\ hpc[h] \in {"copy", "rows"} => hour[h].exists
  /\ hpc[h] = "copy" => hour[h].has = {u \in DbOf(h) : u < hi[h]}
  /\ hpc[h] \in {"off", "exit"} /\ (hour[h].exists \/ Passed(h)) =>
       hour[h].has = DbOf(h)
HoursDone == ~faulty => \A h \in Hours : HourDone(h)

\* f counts every cell that has a database n times.
Counts(f, n) == \A c \in Cells : f[c] = IF c \in Db THEN n ELSE 0

DayDone ==
  ~faulty =>
    /\ ~derr
    /\ dpc = "idle" => Counts(day, rounds)
    /\ dpc = "write" => Counts(acc, rounds)
    /\ dayProg.combine = "sum" /\ dpc = "collect" =>
         \A c \in Cells : acc[c] = IF c \in Db /\ c[1] < di THEN 1 ELSE 0
    /\ dayProg.combine # "sum" /\ dpc \in {"scan", "run", "wait"} =>
         Counts(day, rounds)
    /\ dayProg.combine # "sum" /\ dpc = "collect" =>
         \A c \in Cells :
           day[c] = IF c \in Db THEN (IF c[1] < di THEN rounds ELSE rounds - 1)
                                ELSE 0

LEMMA FaultyStays == TypeOK /\ [Next]_vars /\ ~faulty' => ~faulty
BY DEF Next, DayStep, HourStep, UnitStep, Run, Skip, StartThread,
       StartInline, Inline, Remove, Wait, Collect, Reopen, Write, Crash,
       HourSkip, HourStart, HourInline, HourOpen, HourCopy, HourClose,
       HourMerge, HourExit, UnitOpen, UnitQuery, UnitExit, vars, TypeOK

LEMMA UnitsDoneStep == DInv /\ DInv' /\ Fresh /\ UnitsDone /\ [Next]_vars => UnitsDone'
<1> SUFFICES ASSUME DInv, DInv', Fresh, UnitsDone, [Next]_vars, ~faulty',
                    NEW k \in Hours, NEW v \in Units
             PROVE  UnitDone(k, v)'
  BY DEF UnitsDone
<1> DEFINE d == <<k, v>>
<1> USE DayAssumption
<1>0. /\ UnitDone(k, v) /\ ~faulty /\ d \in Cells
      /\ UnitType /\ PlaceType /\ ProgType /\ LiveAt(k, v) /\ LiveAt(k, v)'
      /\ UnitType' /\ PlaceType' /\ ProgType'
  BY FaultyStays, TypeParts DEF UnitsDone, Cells, DInv, HourLive, TypeOK,
     UnitType, PlaceType, ProgType
<1>s. ASSUME unit'[d] = unit[d], upc'[d] = upc[d], hpc'[k] = hpc[k], hi'[k] = hi[k]
      PROVE  UnitDone(k, v)'
  BY <1>0, <1>s DEF UnitDone, Asked
<1>e. ASSUME unit'[d] = unit[d], upc'[d] = upc[d],
             hpc'[k] \notin {"scan", "run", "copy", "merge", "rows"}
      PROVE  UnitDone(k, v)'
  BY <1>0, <1>e DEF UnitDone, Asked
<1>1. CASE Run \/ Skip \/ Inline \/ Remove \/ Wait \/ Collect \/ Reopen \/ Write
  BY <1>s, <1>1 DEF Run, Skip, Inline, Remove, Wait, Collect, Reopen, Write,
     files, hourVars
<1>2. CASE StartThread \/ StartInline
  <2>1. unit' = unit /\ upc' = upc
    BY <1>2 DEF StartThread, StartInline, files
  <2>2. CASE k = di
    <3>1. hi'[k] = 1 /\ hpc'[k] \in {"off", "scan", "exit"}
      BY <1>0, <1>2, <2>2 DEF StartThread, StartInline, PlaceType, DInv, DayLive
    <3>2. ~Asked(k, v)'
      BY <3>1 DEF Asked, Units
    <3> QED
      BY <1>0, <2>1, <3>2 DEF UnitDone
  <2>3. CASE k # di
    BY <1>s, <1>0, <1>2, <2>1, <2>3 DEF StartThread, StartInline, PlaceType
  <2> QED
    BY <2>2, <2>3
<1>3. CASE Crash
  BY <1>3 DEF Crash
<1>4. ASSUME NEW h \in Hours, HourSkip(h) PROVE UnitDone(k, v)'
  <2>1. unit' = unit /\ upc' = upc /\ hpc' = hpc
    BY <1>4 DEF HourSkip, files
  <2>2. CASE h = k
    <3>1. hpc[k] = "scan" /\ unit[<<k, hi[k]>>] # "none" /\ hi'[k] = hi[k] + 1
      BY <1>0, <1>4, <2>2 DEF HourSkip, PlaceType
    <3>2. CASE v = hi[k]
      BY <1>0, <2>1, <3>1, <3>2 DEF UnitDone, UnitType
    <3>3. CASE v # hi[k]
      <4>1. Asked(k, v)' => Asked(k, v)
        BY <1>0, <2>1, <3>1, <3>3 DEF Asked, PlaceType, Units
      <4> QED
        BY <1>0, <2>1, <4>1 DEF UnitDone
    <3> QED
      BY <3>2, <3>3
  <2>3. CASE h # k
    BY <1>s, <1>0, <1>4, <2>1, <2>3 DEF HourSkip, PlaceType
  <2> QED
    BY <2>2, <2>3
<1>5. ASSUME NEW h \in Hours, HourStart(h) PROVE UnitDone(k, v)'
  <2>1. unit' = unit /\ hi[h] \in Units /\ unit[<<h, hi[h]>>] = "none"
    BY <1>5 DEF HourStart, files
  <2>2. upc' = [upc EXCEPT ![<<h, hi[h]>>] = "open"]
    BY <1>0, <1>5 DEF HourStart
  <2>3. CASE h = k
    <3>1. CASE v = hi[k]
      BY <1>0, <2>1, <2>2, <2>3, <3>1 DEF UnitDone, ProgType
    <3>2. CASE v # hi[k]
      <4>1. upc'[d] = upc[d]
        BY <1>0, <2>2, <2>3, <3>2 DEF ProgType
      <4>2. hpc[k] = "scan"
        BY <1>5, <2>3 DEF HourStart
      <4>3. \/ hpc'[k] = "run" /\ hi'[k] = hi[k]
            \/ hpc'[k] = "scan" /\ hi'[k] = hi[k] + 1
        BY <1>0, <1>5, <2>3 DEF HourStart, PlaceType
      <4>4. Asked(k, v)' => Asked(k, v)
        BY <1>0, <3>2, <4>2, <4>3 DEF Asked, PlaceType, Units
      <4> QED
        BY <1>0, <2>1, <4>1, <4>4 DEF UnitDone
    <3> QED
      BY <3>1, <3>2
  <2>4. CASE h # k
    <3>1. upc'[d] = upc[d]
      BY <1>0, <2>2, <2>4 DEF ProgType
    <3>2. hpc'[k] = hpc[k] /\ hi'[k] = hi[k]
      BY <1>0, <1>5, <2>4 DEF HourStart, PlaceType
    <3> QED
      BY <1>s, <2>1, <3>1, <3>2
  <2> QED
    BY <2>3, <2>4
<1>6. ASSUME NEW h \in Hours, HourInline(h) PROVE UnitDone(k, v)'
  <2>1. unit' = unit /\ upc' = upc
    BY <1>6 DEF HourInline, files
  <2>2. CASE h = k
    <3>1. hpc[k] = "run" /\ hpc'[k] = "scan" /\ hi'[k] = hi[k] + 1
      BY <1>0, <1>6, <2>2 DEF HourInline, PlaceType
    <3>2. Asked(k, v)' => Asked(k, v)
      BY <1>0, <3>1 DEF Asked, PlaceType, Units
    <3> QED
      BY <1>0, <2>1, <3>2 DEF UnitDone
  <2>3. CASE h # k
    BY <1>s, <1>0, <1>6, <2>1, <2>3 DEF HourInline, PlaceType
  <2> QED
    BY <2>2, <2>3
<1>7. ASSUME NEW h \in Hours, HourOpen(h) PROVE UnitDone(k, v)'
  <2>1. unit' = unit /\ upc' = upc
    BY <1>7 DEF HourOpen, files
  <2>2. CASE h = k
    <3>1. hpc[k] = "scan" /\ hi[k] \notin Units
      BY <1>7, <2>2 DEF HourOpen
    <3>2. Asked(k, v)
      BY <1>0, <3>1 DEF Asked, PlaceType, Units
    <3> QED
      BY <1>0, <2>1, <3>2 DEF UnitDone
  <2>3. CASE h # k
    BY <1>s, <1>0, <1>7, <2>1, <2>3 DEF HourOpen, PlaceType
  <2> QED
    BY <2>2, <2>3
<1>8. ASSUME NEW h \in Hours, HourCopy(h) \/ HourClose(h) \/ HourMerge(h) \/ HourExit(h)
      PROVE  UnitDone(k, v)'
  <2>1. unit' = unit /\ upc' = upc
    BY <1>8 DEF HourCopy, HourClose, HourMerge, HourExit, files
  <2>2. CASE h = k
    <3>1. Asked(k, v)' => Asked(k, v)
      BY <1>0, <1>8, <2>2 DEF HourCopy, HourClose, HourMerge, HourExit, HourEnd,
         Asked, PlaceType
    <3> QED
      BY <1>0, <2>1, <3>1 DEF UnitDone
  <2>3. CASE h # k
    <3>1. hpc'[k] = hpc[k] /\ hi'[k] = hi[k]
      BY <1>0, <1>8, <2>3 DEF HourCopy, HourClose, HourMerge, HourExit, PlaceType
    <3> QED
      BY <1>s, <2>1, <3>1
  <2> QED
    BY <2>2, <2>3
<1>9. ASSUME NEW c \in Cells, UnitStep(c) PROVE UnitDone(k, v)'
  <2>1. hpc' = hpc /\ hi' = hi
    BY <1>9 DEF UnitStep, UnitOpen, UnitQuery, UnitExit, hourVars
  <2>2. CASE c = d
    <3>1. CASE UnitOpen(d)
      BY <1>0, <2>1, <3>1 DEF UnitOpen, UnitDone, Asked, UnitType, ProgType
    <3>2. CASE UnitQuery(d)
      BY <1>0, <2>1, <3>2 DEF UnitQuery, UnitDone, Asked, UnitType, ProgType, Fresh
    <3>3. CASE UnitExit(d)
      BY <1>0, <2>1, <3>3 DEF UnitExit, UnitDone, Asked, UnitType, ProgType, files
    <3> QED
      BY <1>9, <2>2, <3>1, <3>2, <3>3 DEF UnitStep
  <2>3. CASE c # d
    <3>1. unit'[d] = unit[d] /\ upc'[d] = upc[d]
      BY <1>0, <1>9, <2>3 DEF UnitStep, UnitOpen, UnitQuery, UnitExit, UnitType,
         ProgType, files
    <3> QED
      BY <1>s, <2>1, <3>1
  <2> QED
    BY <2>2, <2>3
<1>10. CASE UNCHANGED vars
  BY <1>s, <1>10 DEF vars, files, hourVars
<1> QED
  BY <1>1, <1>2, <1>3, <1>4, <1>5, <1>6, <1>7, <1>8, <1>9, <1>10
     DEF Next, DayStep, HourStep

\* An hour whose five minutes are all done has the files of its databases.
LEMMA DoneIsDb ==
  ASSUME DInv, UnitsDone, ~faulty, NEW h \in Hours, hpc[h] \in {"copy", "merge", "rows"}
  PROVE  Done(h) = DbOf(h)
<1> SUFFICES ASSUME NEW u \in Units PROVE unit[<<h, u>>] = "full" <=> <<h, u>> \in Db
  BY DEF Done, DbOf
<1>1. UnitDone(h, u) /\ LiveAt(h, u)
  BY DEF UnitsDone, DInv, HourLive
<1>2. upc[<<h, u>>] = "off"
  BY <1>1 DEF LiveAt
<1> QED
  BY <1>1, <1>2 DEF UnitDone, Asked

LEMMA HoursDoneStep ==
  DInv /\ DInv' /\ Fresh /\ UnitsDone /\ HoursDone /\ DayDone /\ [Next]_vars => HoursDone'
<1> SUFFICES ASSUME DInv, DInv', Fresh, UnitsDone, HoursDone, DayDone, [Next]_vars,
                    ~faulty', NEW k \in Hours
             PROVE  HourDone(k)'
  BY DEF HoursDone
<1> USE DayAssumption
<1>0. /\ HourDone(k) /\ ~faulty /\ ~derr
      /\ HourType /\ PlaceType /\ MainType /\ DayLive /\ Places
      /\ MainType' /\ PlaceType' /\ DayLive'
      /\ dayProg \in Shape /\ dayProg' = dayProg
  BY FaultyStays, ProgStays, TypeParts
     DEF HoursDone, DayDone, DInv, TypeOK, MainType, PlaceType
<1>s. ASSUME hour'[k] = hour[k], hpc'[k] = hpc[k], hi'[k] = hi[k],
             Passed(k)' => Passed(k)
      PROVE  HourDone(k)'
  BY <1>0, <1>s DEF HourDone
<1>f. ASSUME hour'[k] = hour[k], hpc'[k] = hpc[k], hi'[k] = hi[k],
             hpc[k] \in {"off", "exit"} => hour[k].has = DbOf(k)
      PROVE  HourDone(k)'
  BY <1>0, <1>f DEF HourDone
<1>1. CASE Run
  <2>1. ~Passed(k)'
    BY <1>1 DEF Run, Passed, Hours
  <2> QED
    BY <1>s, <1>1, <2>1 DEF Run, files, hourVars
<1>2. CASE Skip
  <2>1. k = di => (hpc[k] \in {"off", "exit"} => hour[k].has = DbOf(k))
    BY <1>0, <1>2 DEF Skip, HourDone
  <2>2. k # di => (Passed(k)' => Passed(k))
    BY <1>0, <1>2 DEF Skip, Passed, MainType, Hours
  <2> QED
    BY <1>s, <1>f, <1>2, <2>1, <2>2 DEF Skip, files, hourVars
<1>3. CASE StartThread
  <2>1. hour' = hour
    BY <1>3 DEF StartThread, files
  <2>2. CASE k = di
    <3>1. hpc'[k] = "scan"
      BY <1>0, <1>3, <2>2 DEF StartThread, PlaceType
    <3> QED
      BY <1>0, <2>1, <3>1 DEF HourDone
  <2>3. CASE k # di
    <3>1. Passed(k)' => Passed(k)
      BY <1>0, <1>3, <2>3 DEF StartThread, Passed, MainType, Hours
    <3>2. hpc'[k] = hpc[k] /\ hi'[k] = hi[k]
      BY <1>0, <1>3, <2>3 DEF StartThread, PlaceType
    <3> QED
      BY <1>s, <2>1, <3>1, <3>2
  <2> QED
    BY <2>2, <2>3
<1>4. CASE StartInline
  <2>1. hour' = hour
    BY <1>4 DEF StartInline, files
  <2>0. hpc' = [hpc EXCEPT ![di] = "scan"] /\ dpc' = "run" /\ di' = di
    BY <1>0, <1>4 DEF StartInline
  <2>2. CASE k = di
    <3>1. hpc'[k] = "scan"
      BY <1>0, <2>0, <2>2 DEF PlaceType
    <3> QED
      BY <1>0, <2>1, <3>1 DEF HourDone
  <2>3. CASE k # di
    <3>1. Passed(k)' => Passed(k)
      BY <1>0, <1>4, <2>0, <2>3 DEF StartInline, Passed, MainType, Hours
    <3>2. hpc'[k] = hpc[k] /\ hi'[k] = hi[k]
      BY <1>0, <1>4, <2>0, <2>3 DEF StartInline, PlaceType
    <3> QED
      BY <1>s, <2>1, <3>1, <3>2
  <2> QED
    BY <2>2, <2>3
<1>5. CASE Inline
  <2>1. Passed(k)' => Passed(k)
    BY <1>0, <1>5 DEF Inline, Passed, MainType, Hours
  <2> QED
    BY <1>s, <1>5, <2>1 DEF Inline, files, hourVars
<1>6. CASE Remove
  <2>1. Passed(k)
    BY <1>0, <1>6 DEF Remove, Passed, MainType, Hours
  <2> QED
    BY <1>s, <1>6, <2>1 DEF Remove, hourVars
<1>7. CASE Wait \/ Collect \/ Reopen \/ Write
  <2>1. Passed(k)
    BY <1>7 DEF Wait, Collect, Reopen, Write, Passed
  <2> QED
    BY <1>s, <1>7, <2>1 DEF Wait, Collect, Reopen, Write, files, hourVars
<1>8. CASE Crash
  BY <1>8 DEF Crash
<1>9. ASSUME NEW h \in Hours, HourStep(h), h # k PROVE HourDone(k)'
  <2>1. Passed(k)' = Passed(k)
    BY <1>9 DEF HourStep, HourSkip, HourStart, HourInline, HourOpen, HourCopy,
       HourClose, HourMerge, HourExit, dayVars, Passed
  <2>2. hpc'[k] = hpc[k] /\ hi'[k] = hi[k]
    BY <1>0, <1>9 DEF HourStep, HourSkip, HourStart, HourInline, HourOpen,
       HourCopy, HourClose, HourMerge, HourExit, PlaceType
  <2>3. hour'[k] = hour[k]
    BY <1>0, <1>9 DEF HourStep, HourSkip, HourStart, HourInline, HourOpen,
       HourCopy, HourClose, HourMerge, HourExit, files, HourType
  <2> QED
    BY <1>s, <2>1, <2>2, <2>3
<1>10. CASE HourSkip(k) \/ HourStart(k) \/ HourInline(k)
  <2>1. hour' = hour /\ hpc'[k] \in {"scan", "run"}
    BY <1>0, <1>10 DEF HourSkip, HourStart, HourInline, files, PlaceType
  <2> QED
    BY <1>0, <2>1 DEF HourDone
<1>11. CASE HourOpen(k)
  <2>1. /\ hour'[k] = [exists |-> TRUE, has |-> {}]
        /\ hpc'[k] = "copy" /\ hi'[k] = 1
    BY <1>0, <1>11 DEF HourOpen, HourType, PlaceType
  <2>2. {u \in DbOf(k) : u < 1} = {}
    BY DEF DbOf, Units
  <2> QED
    BY <2>1, <2>2 DEF HourDone
<1>12. CASE HourCopy(k)
  <2>1. hpc[k] = "copy" /\ hpc'[k] = "copy" /\ hi[k] \in Units
    BY <1>12 DEF HourCopy
  <2>2. Done(k) = DbOf(k)
    BY <1>0, <2>1, DoneIsDb
  <2>3. hour[k].exists /\ hour[k].has = {u \in DbOf(k) : u < hi[k]}
    BY <1>0, <2>1 DEF HourDone
  <2>4. CASE hourProg.combine = "sum"
    <3>1. hour'[k].exists /\ hour'[k].has = DbOf(k) /\ hi'[k] = NUnits + 1
      BY <1>0, <1>12, <2>2, <2>3, <2>4 DEF HourCopy, HourType, PlaceType
    <3>2. DbOf(k) = {u \in DbOf(k) : u < NUnits + 1}
      BY DEF DbOf, Units
    <3> QED
      BY <2>1, <3>1, <3>2 DEF HourDone
  <2>5. CASE hourProg.combine # "sum"
    <3>1. /\ hour'[k].exists /\ hi'[k] = hi[k] + 1
          /\ hour'[k].has = {u \in DbOf(k) : u < hi[k]} \cup ({hi[k]} \cap DbOf(k))
      BY <1>0, <1>12, <2>2, <2>3, <2>5 DEF HourCopy, HourType, PlaceType
    <3>2. {u \in DbOf(k) : u < hi[k] + 1}
            = {u \in DbOf(k) : u < hi[k]} \cup ({hi[k]} \cap DbOf(k))
      BY <2>1 DEF DbOf, Units
    <3> QED
      BY <2>1, <3>1, <3>2 DEF HourDone
  <2> QED
    BY <2>4, <2>5
<1>13. CASE HourClose(k)
  <2>1. hpc[k] = "copy" /\ hi[k] = NUnits + 1
    BY <1>0, <1>13 DEF HourClose, PlaceType, Units
  <2>2. Done(k) = DbOf(k)
    BY <1>0, <2>1, DoneIsDb
  <2>3. hour[k].exists /\ hour[k].has = DbOf(k)
    <3>1. DbOf(k) = {u \in DbOf(k) : u < NUnits + 1}
      BY DEF DbOf, Units
    <3> QED
      BY <1>0, <2>1, <3>1 DEF HourDone
  <2>4. CASE hourProg.combine # "merge"
    <3>1. hour' = hour /\ hpc'[k] \in {"off", "exit"}
      BY <1>0, <1>13, <2>4 DEF HourClose, HourEnd, PlaceType
    <3> QED
      BY <2>3, <3>1 DEF HourDone
  <2>5. CASE hourProg.combine = "merge" /\ \A u \in Units : unit[<<k, u>>] # "full"
    <3>1. DbOf(k) = {}
      BY <2>2, <2>5 DEF Done
    <3>2. hour'[k].exists = FALSE /\ hour'[k].has = {}
      BY <1>0, <1>13, <2>5 DEF HourClose, NoHour, HourType
    <3>3. hpc'[k] \notin {"copy", "rows"}
      BY <1>0, <1>13, <2>5 DEF HourClose, HourEnd, PlaceType
    <3> QED
      BY <3>1, <3>2, <3>3 DEF HourDone
  <2>6. CASE hourProg.combine = "merge" /\ \E u \in Units : unit[<<k, u>>] = "full"
    <3>1. hour'[k].exists = FALSE /\ hour'[k].has = {} /\ hpc'[k] = "merge"
      BY <1>0, <1>13, <2>6 DEF HourClose, NoHour, HourType, PlaceType
    <3> QED
      BY <3>1 DEF HourDone
  <2> QED
    BY <2>4, <2>5, <2>6
<1>14. CASE HourMerge(k)
  <2>1. CASE hpc[k] = "merge"
    <3>1. hour'[k].exists /\ hpc'[k] = "rows"
      BY <1>0, <1>14, <2>1 DEF HourMerge, HourType, PlaceType
    <3> QED
      BY <3>1 DEF HourDone
  <2>2. CASE hpc[k] = "rows"
    <3>1. Done(k) = DbOf(k)
      BY <1>0, <2>2, DoneIsDb
    <3>2. hour'[k].has = DbOf(k) /\ hpc'[k] \in {"off", "exit"}
      BY <1>0, <1>14, <2>2, <3>1 DEF HourMerge, HourType, PlaceType, HourEnd
    <3>3. hour'[k].exists
      BY <1>0, <1>14, <2>2 DEF HourMerge, HourType, HourDone
    <3> QED
      BY <1>0, <3>2, <3>3 DEF HourDone
  <2> QED
    BY <1>14, <2>1, <2>2 DEF HourMerge
<1>15. CASE HourExit(k)
  <2>1. hour' = hour /\ hpc[k] = "exit" /\ hpc'[k] = "off"
    BY <1>0, <1>15 DEF HourExit, files, PlaceType
  <2>2. Passed(k)' = Passed(k)
    BY <1>15 DEF HourExit, dayVars, Passed
  <2> QED
    BY <1>0, <2>1, <2>2 DEF HourDone
<1>16. ASSUME NEW c \in Cells, UnitStep(c) PROVE HourDone(k)'
  <2>1. hour' = hour /\ hpc' = hpc /\ hi' = hi /\ Passed(k)' = Passed(k)
    BY <1>16 DEF UnitStep, UnitOpen, UnitQuery, UnitExit, hourVars, dayVars,
       files, Passed
  <2> QED
    BY <1>s, <2>1
<1>17. CASE UNCHANGED vars
  <2>1. hour' = hour /\ hpc' = hpc /\ hi' = hi /\ Passed(k)' = Passed(k)
    BY <1>17 DEF vars, files, hourVars, dayVars, Passed
  <2> QED
    BY <1>s, <2>1
<1>18. ASSUME NEW h \in Hours, HourStep(h) PROVE HourDone(k)'
  BY <1>9, <1>10, <1>11, <1>12, <1>13, <1>14, <1>15, <1>18 DEF HourStep
<1> QED
  BY <1>1, <1>2, <1>3, <1>4, <1>5, <1>6, <1>7, <1>8, <1>16, <1>17, <1>18
     DEF Next, DayStep

LEMMA DayDoneStep ==
  DInv /\ DInv' /\ Sums /\ Sums' /\ HoursDone /\ DayDone /\ [Next]_vars => DayDone'
<1> SUFFICES ASSUME DInv, DInv', Sums, Sums', HoursDone, DayDone, [Next]_vars, ~faulty
             PROVE  DayDone'
  BY FaultyStays DEF DayDone, DInv
<1> USE DayAssumption
<1>0. /\ DayType /\ MainType /\ NumberType /\ DayType' /\ ~derr
      /\ dayProg \in Shape /\ dayProg' = dayProg
  BY ProgStays, TypeParts DEF DayDone, DInv, TypeOK, DayType
<1>s. ASSUME UNCHANGED <<dayVars, day, rounds>> PROVE DayDone'
  BY <1>0, <1>s DEF DayDone, dayVars, Counts
<1>1. CASE Run
  BY <1>0, <1>1 DEF Run, DayDone, files, Counts
<1>2. CASE Skip \/ StartThread \/ StartInline \/ Inline
  <2>1. dpc \in {"scan", "run"} /\ day' = day /\ rounds' = rounds
    BY <1>2 DEF Skip, StartThread, StartInline, Inline, files
  <2>2. dpc' \in {"scan", "run"} /\ (faulty' \/ ~derr')
    BY <1>0, <1>2 DEF Skip, StartThread, StartInline, Inline
  <2> QED
    BY <1>0, <2>1, <2>2 DEF DayDone, Counts
<1>3. CASE Remove
  <2>1. \A c \in Cells : Zero[c] = IF c \in Db THEN 0 ELSE 0
    BY DEF Zero
  <2>2. dayProg.combine # "sum" => Counts(day, rounds)
    BY <1>3 DEF Remove, DayDone
  <2>3. dayProg.combine # "sum" => Counts(day', rounds')
    BY <1>3, <2>1, <2>2 DEF Remove, Counts
  <2> QED
    BY <1>0, <1>3, <2>3 DEF Remove, DayDone, Counts
<1>4. CASE Wait
  <2>1. dpc' = "collect" /\ di' = 1 /\ day' = day /\ acc' = acc /\ derr' = derr
    BY <1>4 DEF Wait, files
  <2>2. \A c \in Cells : ~(c[1] < di')
    BY <2>1 DEF Cells, Hours
  <2>3. CASE dayProg.combine = "sum"
    <3>1. \A c \in Cells : acc'[c] = 0
      BY <1>4, <2>1, <2>3 DEF Wait, Sums, Zero
    <3> QED
      BY <1>0, <2>1, <2>2, <2>3, <3>1 DEF DayDone
  <2>4. CASE dayProg.combine # "sum"
    <3>1. rounds' - 1 = rounds /\ rounds \in Nat
      BY <1>0, <1>4, <2>4 DEF Wait, NumberType
    <3>2. Counts(day, rounds)
      BY <1>4, <2>4 DEF Wait, DayDone
    <3> QED
      BY <1>0, <2>1, <2>2, <2>4, <3>1, <3>2 DEF DayDone, Counts
  <2> QED
    BY <2>3, <2>4
<1>5. CASE Collect
  <2>1. /\ dpc = "collect" /\ dpc' = "collect" /\ di \in Hours /\ di' = di + 1
        /\ derr' = derr /\ rounds' = rounds /\ rounds \in Nat
    BY <1>0, <1>5 DEF Collect, NumberType
  <2>2. hour[di].has = DbOf(di)
    <3>1. HourDone(di) /\ Passed(di) /\ hpc[di] = "off"
      BY <2>1 DEF HoursDone, Passed, DInv, DayLive
    <3> QED
      BY <3>1 DEF HourDone
  <2>3. \A c \in Cells : c[1] = di => (c[2] \in hour[di].has <=> c \in Db)
    BY <2>2 DEF DbOf, Cells
  <2>4. \A c \in Cells : c[1] \in Nat
    BY DEF Cells, Hours
  <2>5. CASE dayProg.combine = "sum"
    <3>1. acc' = Plus(acc)
      BY <1>5, <2>5 DEF Collect
    <3>2. \A c \in Cells : acc[c] = IF c \in Db /\ c[1] < di THEN 1 ELSE 0
      BY <2>1, <2>5 DEF DayDone
    <3>3. \A c \in Cells : acc'[c] = IF c \in Db /\ c[1] < di + 1 THEN 1 ELSE 0
      BY <2>1, <2>3, <2>4, <3>1, <3>2 DEF Plus, Hours
    <3> QED
      BY <1>0, <2>1, <2>5, <3>3 DEF DayDone
  <2>6. CASE dayProg.combine # "sum"
    <3>1. day' = Plus(day)
      BY <1>5, <2>6 DEF Collect
    <3>2. \A c \in Cells :
            day[c] = IF c \in Db THEN (IF c[1] < di THEN rounds ELSE rounds - 1)
                                 ELSE 0
      BY <2>1, <2>6 DEF DayDone
    <3>3. \A c \in Cells :
            day'[c] = IF c \in Db THEN (IF c[1] < di + 1 THEN rounds ELSE rounds - 1)
                                  ELSE 0
      BY <2>1, <2>3, <2>4, <3>1, <3>2 DEF Plus, Hours
    <3> QED
      BY <1>0, <2>1, <2>6, <3>3 DEF DayDone
  <2> QED
    BY <2>5, <2>6
<1>6. CASE Reopen
  <2>1. dpc = "collect" /\ di = NHours + 1
    BY <1>0, <1>6 DEF Reopen, MainType, Hours
  <2>2. \A c \in Cells : c[1] < di
    BY <2>1 DEF Cells, Hours
  <2>3. dayProg.combine = "sum" => Counts(acc, 1) /\ rounds = 1
    BY <2>1, <2>2 DEF DayDone, Counts, Sums
  <2>4. dayProg.combine # "sum" => Counts(day, rounds)
    BY <2>1, <2>2 DEF DayDone, Counts
  <2>5. ~faulty' =>
          \/ dpc' = "idle" /\ day' = day /\ dayProg.combine # "sum"
          \/ dpc' = "write" /\ acc' = IF dayProg.combine = "sum" THEN acc ELSE day
    BY <1>0, <1>6 DEF Reopen
  <2>6. rounds' = rounds /\ derr' = derr
    BY <1>6 DEF Reopen
  <2> QED
    BY <1>0, <2>3, <2>4, <2>5, <2>6 DEF DayDone, Counts
<1>7. CASE Write
  BY <1>0, <1>7 DEF Write, DayDone, Counts
<1>8. CASE Crash
  BY <1>8 DEF Crash, DayDone
<1>9. ASSUME NEW h \in Hours, HourStep(h) PROVE DayDone'
  BY <1>s, <1>9 DEF HourStep, HourSkip, HourStart, HourInline, HourOpen,
     HourCopy, HourClose, HourMerge, HourExit, files
<1>10. ASSUME NEW c \in Cells, UnitStep(c) PROVE DayDone'
  BY <1>s, <1>10 DEF UnitStep, UnitOpen, UnitQuery, UnitExit, files
<1>11. CASE UNCHANGED vars
  BY <1>s, <1>11 DEF vars, files
<1> QED
  BY <1>1, <1>2, <1>3, <1>4, <1>5, <1>6, <1>7, <1>8, <1>9, <1>10, <1>11
     DEF Next, DayStep

\* A day in which nothing failed is complete when its program ends: every cell
\* that has a database has been queried, written by its hour program and
\* collected by lcs_hcollect_sum, once for each time the day's file was filled,
\* whatever the order of the threads and however often the day is run.
THEOREM CompleteHolds == Spec => []Complete
<1> DEFINE CInv == DInv /\ Sums /\ Fresh /\ UnitsDone /\ HoursDone /\ DayDone
<1>1. Init => CInv
  <2>1. Init => Sums /\ Fresh
    BY DEF Init, Sums, Fresh, Zero, NoHour
  <2>2. Init => UnitsDone
    BY DEF Init, UnitsDone, UnitDone, Asked, Cells
  <2>3. Init => HoursDone
    BY DEF Init, HoursDone, HourDone, Passed, NoHour
  <2>4. Init => DayDone
    BY DEF Init, DayDone, Counts, Zero
  <2> QED
    BY <2>1, <2>2, <2>3, <2>4, InitDInv
<1>2. CInv /\ [Next]_vars => CInv'
  BY DInvStep, SumsStep, FreshStep, UnitsDoneStep, HoursDoneStep, DayDoneStep
<1>3. CInv => Complete
  BY DEF DayDone, Complete, Counts
<1> QED
  BY <1>1, <1>2, <1>3, PTL DEF Spec
=============================================================================
