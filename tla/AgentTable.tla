----------------------------- MODULE AgentTable -----------------------------
(***************************************************************************)
(* The table of a day's agents in shared memory.  shmcreate counts the     *)
(* rows of a query, makes the regions <key>.agent.num and <key>.agent.data *)
(* and enters every row into the bucket of its hash; the five-minute       *)
(* programs A_000007 to A_000010 map the regions and look agents up; the   *)
(* manager removes the regions when the analysis has ended.                *)
(*                                                                         *)
(* An agent's number is a text; Numbers are the texts in which             *)
(* sscanf("%d") reads a number, Num, and in the others it reads nothing    *)
(* and leaves its variable alone.                                          *)
(*                                                                         *)
(* The table of dials of shmcreate_audd is made and removed by the same    *)
(* steps.  Its ids are read by %llu and hashed without a sign: of the      *)
(* indices below it has those of the numbers that fit.  Where the data     *)
(* region is there already, shmcreate_audd dies in memset and does not     *)
(* end; its steps end there either way.                                    *)
(***************************************************************************)
EXTENDS Integers, Sequences, FiniteSets

CONSTANTS
  Keys, Numbers, Num,
  Slots,      \* LCS_AGENTS_HASH_ARR_N, LCS_AUDD_HASH_ARR_N
  IntMax,     \* INT_MAX
  Names,      \* 62, the names for which lcs_comm_list_files has room
  OtherFiles, \* how many files of others there may be in /dev/shm
  MaxRows, MaxRuns, MaxLookups, MaxDeaths

ASSUME TableAssumption ==
  /\ Numbers \subseteq Keys /\ Num \in [Numbers -> Int]
  /\ Names \in Nat /\ OtherFiles \subseteq Nat
  /\ IntMax \in Nat /\ Slots \in Nat \ {0}
  /\ MaxRows \in Nat /\ MaxRuns \in Nat /\ MaxLookups \in Nat /\ MaxDeaths \in Nat

NoKey == "empty text"

VARIABLES
  num,       \* the region .agent.num: "none", "empty" (no bytes) or "made", with n
  data,      \* the region .agent.data, with the rows and buckets it has room for
  stage,     \* the thread of the manager and the program it runs
  rows, i,   \* the result of the query, the rows entered
  found, query, lookups,  \* the last lookup of a five-minute program
  listed,    \* the regions in the listing that are still to be removed
  late,      \* five-minute programs run on whose analysis was killed
  runs, deaths,
  \* ghosts: the regions are this run's and were filled to the end, the agents
  \* entered outside of the table, the last run ended with lcs_man_shm_unlink,
  \* a late program has made a region since the listing
  clean, outside, ended, stray

regions == <<num, data>>
reader == <<found, query, lookups>>
removal == <<listed, late, stray>>
tableVars ==
  <<regions, stage, rows, i, reader, removal, runs, deaths, clean, outside, ended>>

NoNum == [state |-> "none", n |-> 0]
NoData == [state |-> "none", key |-> <<>>, h |-> <<>>]
Tables == UNION {[1 .. m -> Keys] : m \in 0 .. MaxRows}

TableInit ==
  /\ num = NoNum /\ data = NoData
  /\ stage = "idle" /\ rows = <<>> /\ i = 0
  /\ found = "none" /\ query = NoKey /\ lookups = 0
  /\ runs = 0 /\ deaths = 0
  /\ clean = FALSE /\ outside = {} /\ ended = TRUE
  /\ listed = {} /\ late = FALSE /\ stray = FALSE

-----------------------------------------------------------------------------
(* lcs_comm_hash                                                           *)

\* sscanf keeps the lower bits of a number that does not fit.
Wrapped(v) == ((v + IntMax + 1) % (2 * (IntMax + 1))) - (IntMax + 1)
Scan(x, before) == IF x \in Numbers THEN Wrapped(Num[x]) ELSE before

\* The remainder of C has the sign of the dividend.
Rem(a, n) == IF a >= 0 THEN a % n ELSE -((-a) % n)

WriteIndex(x, n) == Rem(Scan(x, 0), n)
Mutant_ReadIndex(x, n) == Scan(x, -1)
ReadIndex(x, n) == Rem(Scan(x, -1), n)

-----------------------------------------------------------------------------
(* shmcreate: lcs_shm_load                                                 *)

\* The table of the day is counted and selected in one transaction; without
\* rows nothing is made.
Count ==
  /\ stage = "idle" /\ runs < MaxRuns
  /\ rows' \in Tables
  /\ stage' = IF rows' = <<>> THEN "analysis" ELSE "num"
  /\ runs' = runs + 1
  /\ clean' = (num.state = "none" /\ data.state = "none")
  /\ ended' = FALSE
  /\ UNCHANGED <<regions, i, reader, deaths, outside, removal>>

\* lcs_create_shmagent makes no region that is there already: the program ends.
CreateNum ==
  /\ stage = "num"
  /\ \/ num.state # "none" /\ stage' = "analysis" /\ num' = num
     \/ num.state = "none" /\ stage' = "n" /\ num' = [state |-> "made", n |-> 0]
  /\ UNCHANGED <<data, rows, i, reader, runs, deaths, clean, outside, ended, removal>>

SetN ==
  /\ stage = "n"
  /\ num' = [num EXCEPT !.n = Len(rows)] /\ stage' = "data"
  /\ UNCHANGED <<data, rows, i, reader, runs, deaths, clean, outside, ended, removal>>

\* The region is cleared: every slot is 0, the number of the first row.
CreateData ==
  /\ stage = "data"
  /\ \/ data.state # "none" /\ stage' = "analysis" /\ data' = data
     \/ /\ data.state = "none" /\ stage' = "slots"
        /\ data' = [state |-> "made",
                    key |-> [k \in 0 .. Len(rows) |-> NoKey],
                    h |-> [b \in 0 .. Len(rows) |-> [t \in 1 .. Slots |-> 0]]]
  /\ UNCHANGED <<num, rows, i, reader, runs, deaths, clean, outside, ended, removal>>

SetSlots ==
  /\ stage = "slots"
  /\ data' = [data EXCEPT !.h = [b \in DOMAIN @ |->
                IF b < Len(rows) THEN [t \in 1 .. Slots |-> -1] ELSE @[b]]]
  /\ stage' = "write"
  /\ UNCHANGED <<num, rows, i, reader, runs, deaths, clean, outside, ended, removal>>

\* The loop over the slots of a bucket: the first that is free, if one is.
Mutant_Entered(slots, k) ==
  LET free == {t \in 1 .. Slots : slots[t] < 0}
  IN IF free = {} THEN [slots EXCEPT ![Slots] = k]
     ELSE [slots EXCEPT ![CHOOSE t \in free : \A u \in free : t <= u] = k]
Entered(slots, k) ==
  LET free == {t \in 1 .. Slots : slots[t] < 0}
  IN IF free = {} THEN slots
     ELSE [slots EXCEPT ![CHOOSE t \in free : \A u \in free : t <= u] = k]

\* lcs_shm_write for one row.  A negative index lies outside of the region:
\* the program dies, or the row is entered nowhere.
lcs_shm_write ==
  /\ stage = "write" /\ i < Len(rows)
  /\ LET x == rows[i + 1]
         b == WriteIndex(x, num.n)
         D == [data EXCEPT !.key[i] = x]
     IN \/ /\ b \in DOMAIN data.h
           /\ data' = [D EXCEPT !.h[b] = Entered(@, i)]
           /\ i' = i + 1 /\ UNCHANGED <<stage, clean, outside>>
        \/ /\ b \notin DOMAIN data.h
           /\ data' = D /\ i' = i + 1 /\ outside' = outside \cup {x} /\ UNCHANGED <<stage, clean>>
        \/ /\ b \notin DOMAIN data.h
           /\ stage' = "analysis" /\ clean' = FALSE /\ outside' = outside \cup {x}
           /\ UNCHANGED <<data, i>>
  /\ UNCHANGED <<num, rows, reader, runs, deaths, ended, removal>>

Written ==
  /\ stage = "write" /\ i = Len(rows)
  /\ stage' = "analysis"
  /\ UNCHANGED <<regions, rows, i, reader, runs, deaths, clean, outside, ended, removal>>

\* shmcreate is killed, or /dev/shm is full: lcs_bash_cmd does not look at how
\* a program ended, and the analysis is started all the same.
Dies ==
  /\ stage \in {"num", "n", "data", "slots", "write"} /\ deaths < MaxDeaths
  /\ stage' = "analysis" /\ clean' = FALSE /\ deaths' = deaths + 1
  /\ UNCHANGED <<regions, rows, i, reader, runs, outside, ended, removal>>

-----------------------------------------------------------------------------
(* A five-minute program: lcs_load_shmagent, then a lookup for each row.   *)

\* lcs_read_shmagent makes a region that is missing, without a byte: its
\* descriptor is read only, and ftruncate fails.  Reading it kills the program.
lcs_read_shmagent ==
  /\ num' = IF num.state = "none" THEN [NoNum EXCEPT !.state = "empty"] ELSE num
  /\ data' = IF num'.state # "empty" /\ data.state = "none"
               THEN [NoData EXCEPT !.state = "empty"] ELSE data

Load ==
  /\ stage = "analysis" /\ lookups < MaxLookups
  /\ lcs_read_shmagent
  /\ IF num'.state = "empty"
       THEN found' = "dead" /\ lookups' = lookups + 1 /\ stage' = stage
       ELSE stage' = "lookup" /\ UNCHANGED <<found, lookups>>
  /\ query' = NoKey
  /\ UNCHANGED <<rows, i, runs, deaths, clean, outside, ended, removal>>

\* The first slot of the bucket that has the key, up to the first free one.
Hit(x, slots, t) ==
  /\ slots[t] >= 0 /\ slots[t] \in DOMAIN data.key /\ data.key[slots[t]] = x
  /\ \A u \in 1 .. t : slots[u] >= 0
  /\ \A u \in 1 .. t - 1 : slots[u] \in DOMAIN data.key => data.key[slots[u]] # x

\* strcmp of lcs_exec_cbtrue with every agent of the bucket.  The remainder by
\* 0 and a bucket that is not in the region kill the program; what is behind
\* the end of a region but in its last page reads as zeros.
Lookup(x) ==
  /\ stage = "lookup"
  /\ query' = x /\ lookups' = lookups + 1 /\ stage' = "analysis"
  /\ \/ num.n = 0 /\ found' = "dead"
     \/ /\ num.n # 0
        /\ LET b == ReadIndex(x, num.n)
           IN \/ b < 0 /\ found' = "missed"
              \/ /\ b >= 0 /\ b \in DOMAIN data.h
                 /\ found' = IF \E t \in 1 .. Slots : Hit(x, data.h[b], t)
                               THEN "hit" ELSE "missed"
              \/ b >= 0 /\ b \notin DOMAIN data.h /\ found' \in {"dead", "missed"}
  /\ UNCHANGED <<regions, rows, i, runs, deaths, clean, outside, ended, removal>>

-----------------------------------------------------------------------------
(* The manager.                                                            *)

AnalysisEnds ==
  /\ stage = "analysis" /\ stage' = "unlink"
  /\ UNCHANGED <<regions, rows, i, reader, removal, runs, deaths, clean, outside, ended>>

\* The program of the day or of an hour is killed: lcs_bash_cmd takes this for
\* the end of the analysis, and the five-minute programs run on.
ParentDies ==
  /\ stage \in {"analysis", "lookup"} /\ deaths < MaxDeaths
  /\ stage' = "unlink" /\ late' = TRUE /\ deaths' = deaths + 1
  /\ UNCHANGED <<regions, rows, i, reader, listed, runs, clean, outside, ended, stray>>

\* One of them opens the regions, at whatever moment; more may follow.
LateLoad ==
  /\ late /\ late' \in BOOLEAN
  /\ lcs_read_shmagent
  /\ clean' = (clean /\ regions' = regions)
  /\ stray' = (stray \/ regions' # regions)
  /\ UNCHANGED <<stage, rows, i, reader, listed, runs, deaths, outside, ended>>

\* What the programs held ends with them.
Forget ==
  /\ rows' = <<>> /\ i' = 0
  /\ found' = "none" /\ query' = NoKey /\ lookups' = 0

Regions ==
  {r \in {"num"} : num.state # "none"} \cup {r \in {"data"} : data.state # "none"}

lcs_comm_list_files ==
  /\ stage = "unlink" /\ stage' = "removing"
  /\ listed' = Regions /\ stray' = FALSE
  /\ Forget
  /\ UNCHANGED <<regions, late, runs, deaths, clean, outside, ended>>

\* The list has room for Names pointers, the last of which ends it: with more
\* files it is written and read behind its end.  That may do no harm, as above,
\* or the manager dies with every region in place.
ListOverrun ==
  /\ stage = "unlink" /\ \E f \in OtherFiles : f + Cardinality(Regions) >= Names
  /\ stage' = "idle" /\ clean' = FALSE
  /\ Forget
  /\ UNCHANGED <<regions, removal, runs, deaths, outside, ended>>

Mutant_lcs_man_shm_unlink ==
  /\ stage = "removing"
  /\ \/ "num" \in listed /\ num' = NoNum /\ UNCHANGED data
     \/ "data" \in listed /\ data' = NoData /\ UNCHANGED num
     \/ listed = {} /\ UNCHANGED regions
  /\ listed' = {} /\ stage' = "idle" /\ ended' = TRUE
  /\ UNCHANGED <<rows, i, reader, late, runs, deaths, clean, outside, stray>>

\* One pass over the listing, in the order of the directory: every region whose
\* name contains the key is removed, and the directory is not read again.
lcs_man_shm_unlink ==
  /\ stage = "removing"
  /\ \/ /\ "num" \in listed /\ num' = NoNum /\ listed' = listed \ {"num"}
        /\ UNCHANGED <<data, stage, ended>>
     \/ /\ "data" \in listed /\ data' = NoData /\ listed' = listed \ {"data"}
        /\ UNCHANGED <<num, stage, ended>>
     \/ /\ listed = {} /\ stage' = "idle" /\ ended' = TRUE
        /\ UNCHANGED <<regions, listed>>
  /\ UNCHANGED <<rows, i, reader, late, runs, deaths, clean, outside, stray>>

\* The manager and its programs are killed; the regions stay.
Kill ==
  /\ stage # "idle" /\ deaths < MaxDeaths
  /\ stage' = "idle" /\ deaths' = deaths + 1 /\ clean' = FALSE /\ listed' = {}
  /\ Forget
  /\ UNCHANGED <<regions, late, runs, outside, ended, stray>>

TableNext ==
  \/ Count \/ CreateNum \/ SetN \/ CreateData \/ SetSlots \/ lcs_shm_write \/ Written
  \/ Dies \/ Load \/ (\E x \in Keys : Lookup(x)) \/ AnalysisEnds
  \/ ParentDies \/ LateLoad \/ lcs_comm_list_files \/ ListOverrun \/ lcs_man_shm_unlink \/ Kill

TableSpec == TableInit /\ [][TableNext]_tableVars

-----------------------------------------------------------------------------
(* Properties.                                                             *)

Fits(x) == x \in Numbers /\ Num[x] \in 0 .. IntMax

\* The agents that share a bucket with the k-th row and come before it.
Before(k) ==
  {j \in 1 .. k - 1 : WriteIndex(rows[j], Len(rows)) = WriteIndex(rows[k], Len(rows))}

\* In a table that was filled undisturbed an agent is found when it is one of
\* the first Slots of its bucket, and never otherwise: a further one is lost.
\* None is entered outside of the table unless its number is negative or too
\* large for an int.
LookupRight ==
  /\ \A x \in outside : x \in Numbers /\ ~Fits(x)
  /\ clean /\ rows # <<>> /\ query # NoKey =>
    /\ found = "hit" => \E k \in 1 .. Len(rows) : rows[k] = query /\ Cardinality(Before(k)) < Slots
    /\ Fits(query) =>
         \A k \in 1 .. Len(rows) :
           rows[k] = query /\ Cardinality(Before(k)) < Slots => found = "hit"

\* A five-minute program dies only when the table is empty, was not filled to
\* its end or was there before, from a run that did not end.
DeadOnlyIf == found = "dead" => ~clean \/ rows = <<>>

\* A run that came to the end of lcs_man_shm_unlink has removed every table,
\* half filled or whole, its own or one that it found, and every region that a
\* five-minute program made before the directory was listed.  A region is there
\* only when a program that outlived its analysis has made it since, and then it
\* is without a byte.
Healed ==
  stage = "idle" /\ ended /\ (num.state # "none" \/ data.state # "none") =>
    stray /\ num.state # "made" /\ data.state # "made"
=============================================================================
