--------------------------- MODULE MCDownloader ---------------------------
(***************************************************************************)
(* Days for the downloader: CalmDay has its calls in one window, BusyDay   *)
(* one at the start of the next, which is also the last second of the day. *)
(***************************************************************************)
EXTENDS Downloader, TLC

Row(id, call, time) == [id |-> id, linkedid |-> call, time |-> time]

CalmDay == [cdr |-> {Row(1, "a", 3), Row(2, "b", 2)},
            queue_log |-> {Row(1, "a", 3)},
            monitor_recording |-> {Row(1, "b", 4)},
            wrapup |-> {Row(1, "-", 1), Row(2, "-", 3)}]

BusyDay == [cdr |-> {Row(1, "a", 1), Row(2, "a", 2), Row(3, "b", 2)},
            queue_log |-> {Row(1, "b", 3)},
            monitor_recording |-> {},
            wrapup |-> {Row(1, "-", 1), Row(2, "-", 3)}]

\* What a process killed in its second window has left of BusyDay, and one
\* killed in its first window of CalmDay, before its last call.
BusyLeft == BusyDay @@
  [linkedid_tmp |-> {"a"}, cdr_tmp |-> {Row(1, "a", 1), Row(2, "a", 2)},
   queue_tmp |-> {}, monitor_tmp |-> {}]
CalmLeft == [CalmDay EXCEPT !.cdr = {Row(2, "b", 2)}] @@
  [linkedid_tmp |-> {"b"}, cdr_tmp |-> {Row(2, "b", 2)}, queue_tmp |-> {}, monitor_tmp |-> {}]

MCDays == {[rows |-> CalmDay, left |-> CalmLeft], [rows |-> BusyDay, left |-> BusyLeft]}
=============================================================================
