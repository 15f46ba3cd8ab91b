--------------------------- MODULE MCDayAnalysis ---------------------------
(***************************************************************************)
(* Two hours of two cells, one of which has no database, and the nine      *)
(* analyses, which have four shapes.                                       *)
(***************************************************************************)
EXTENDS DayAnalysis

SomeDb == Cells \ {<<2, 2>>}

Analyses ==
  {<<A_000001_day, A_000001_hour>>,
   <<A_000002_day, A_000002_hour>>,
   <<A_000003_day, A_000003_hour>>,
   <<A_000004_day, A_000004_hour>>,
   <<A_000005_day, A_000005_hour>>,
   <<A_000006_day, A_000006_hour>>,
   <<A_000007_day, A_000007_hour>>,
   <<A_000008_day, A_000008_hour>>,
   <<A_000009_day, A_000009_hour>>}
=============================================================================
