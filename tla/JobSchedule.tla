---------------------------- MODULE JobSchedule ----------------------------
(***************************************************************************)
(* The pure part of the job system: when a schedule fires next, and how    *)
(* long a failing job backs off.  Instants and durations are naturals; a   *)
(* cron expression is the set of minutes it matches.                       *)
(***************************************************************************)
EXTENDS Integers, Sequences

CONSTANTS
  None,      \* the nil *time.Time
  Err,       \* a schedule that does not parse or never fires
  Horizon,   \* how far ahead a cron expression is searched (366 days)
  Backoff    \* transientBackoffs, the delay after the n-th error in a row

ASSUME ScheduleAssumption ==
  /\ None \notin Nat /\ Err \notin Nat /\ None # Err
  /\ Horizon \in Nat
  /\ Backoff \in Seq(Nat) /\ Len(Backoff) > 0
-----------------------------------------------------------------------------
(* rel separates the two forms of an "at" schedule: a Go duration counted  *)
(* from now, or an RFC 3339 instant.  "bad" stands for every schedule the  *)
(* parser refuses.                                                         *)
Schedule == [kind  : {"at", "every", "cron", "bad"},
             rel   : BOOLEAN,
             n     : Nat,
             times : SUBSET Nat]

Instant == Nat \cup {None}

Before(a, b) == a # None /\ b # None /\ a < b

Earliest(S) == CHOOSE t \in S : \A u \in S : t <= u

NextAt(s, t) ==
  IF s.rel THEN IF s.n > 0 THEN t + s.n ELSE Err
           ELSE IF s.n > t THEN s.n ELSE None

NextEvery(s, t, last) ==
  IF s.n = 0 THEN Err
  ELSE IF last = None THEN t ELSE last + s.n

NextCron(s, t) ==
  LET matches == {m \in s.times : t < m /\ m < t + Horizon}
  IN  IF matches = {} THEN Err ELSE Earliest(matches)

ComputeNextRun(s, t, last) ==
  CASE s.kind = "at"    -> NextAt(s, t)
    [] s.kind = "every" -> NextEvery(s, t, last)
    [] s.kind = "cron"  -> NextCron(s, t)
    [] OTHER            -> Err

MaxRetries == Len(Backoff)

(* Consecutive errors past the last backoff are all alike to the code, so  *)
(* the counter saturates there.                                            *)
OneMoreError(errs) == IF errs > MaxRetries THEN errs ELSE errs + 1
=============================================================================
