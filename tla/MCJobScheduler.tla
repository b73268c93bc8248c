--------------------------- MODULE MCJobScheduler ---------------------------
(* Small instances of JobScheduler.  One unit of time is the first backoff *)
(* and the cap of the timer alike; Backoffs has two steps instead of       *)
(* three, so that three errors in a row leave the retries behind.          *)
EXTENDS JobScheduler, TLC

CONSTANTS j1, j2, r1, r2, r3

Backoffs == <<1, 2>>

InOneUnit  == [kind |-> "at", rel |-> TRUE, n |-> 1, times |-> {}]
AtInstant2 == [kind |-> "at", rel |-> FALSE, n |-> 2, times |-> {}]
EveryTwo   == [kind |-> "every", rel |-> FALSE, n |-> 2, times |-> {}]
CronOdd    == [kind |-> "cron", rel |-> FALSE, n |-> 0, times |-> {1, 3, 5, 7}]
CronOnce   == [kind |-> "cron", rel |-> FALSE, n |-> 0, times |-> {1}]
Malformed  == [kind |-> "bad", rel |-> FALSE, n |-> 0, times |-> {}]

Recurring == {EveryTwo, CronOdd, CronOnce}
Mixed     == {InOneUnit, AtInstant2, EveryTwo, Malformed}

Symmetry == Permutations(JobIds) \cup Permutations(RunIds)
=============================================================================
