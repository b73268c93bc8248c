------------------------- MODULE JobSchedulerProofs -------------------------
(***************************************************************************)
(* Theorems about JobScheduler, for every set of jobs, runs and schedules  *)
(* and every bound.                                                        *)
(***************************************************************************)
EXTENDS JobScheduler, FiniteSetTheorems, TLAPS

-----------------------------------------------------------------------------
(* The schedule arithmetic, for every schedule and instant.                *)

(* A nonempty set of instants has an earliest member: among the initial    *)
(* segments 0..t, which are finite sets, one is minimal for inclusion.     *)
LEMMA EarliestMember ==
  ASSUME NEW S, S \subseteq Nat, S # {}
  PROVE  Earliest(S) \in S /\ \A u \in S : Earliest(S) <= u
<1> DEFINE Segments == {0 .. t : t \in S}
<1>1. Segments \subseteq FiniteSubsetsOf(Nat)
  <2>1. ASSUME NEW t \in S PROVE 0 .. t \in FiniteSubsetsOf(Nat)
    <3>1. t \in Int /\ 0 \in Int /\ 0 .. t \subseteq Nat
      OBVIOUS
    <3>2. IsFiniteSet(0 .. t)
      BY ONLY <3>1, FS_Interval
    <3> QED
      BY <3>1, <3>2 DEF FiniteSubsetsOf
  <2> QED
    BY <2>1
<1>2. Segments # {}
  OBVIOUS
<1>3. PICK x \in Segments :
         \A y \in Segments : ~(<<y, x>> \in StrictSubsetOrdering(Nat))
  <2> HIDE DEF Segments
  <2> QED
    BY <1>1, <1>2, FS_StrictSubsetOrderingWellFounded, WFMin
<1>4. PICK t \in S : x = 0 .. t
  BY <1>3
<1>5. ASSUME NEW u \in S, u < t PROVE FALSE
  <2>1. 0 .. u \in Segments /\ 0 .. u \subseteq 0 .. t /\ t \notin 0 .. u
    BY <1>5
  <2>2. 0 .. u # 0 .. t /\ 0 .. u \subseteq Nat /\ 0 .. t \subseteq Nat
    BY <2>1
  <2>3. <<0 .. u, x>> \in StrictSubsetOrdering(Nat)
    BY <2>1, <2>2, <1>4 DEF StrictSubsetOrdering
  <2> QED
    BY <2>1, <2>3, <1>3
<1>6. \A u \in S : t <= u
  BY <1>5
<1> QED
  BY <1>6 DEF Earliest

(* ComputeNextRun returns an instant, nil or an error.                     *)
LEMMA NextRunType ==
  ASSUME NEW s \in Schedule, NEW t \in Nat, NEW last \in Instant
  PROVE  ComputeNextRun(s, t, last) \in Instant \cup {Err}
<1>1. NextAt(s, t) \in Instant \cup {Err}
  BY DEF NextAt, Schedule, Instant
<1>2. NextEvery(s, t, last) \in Instant \cup {Err}
  BY DEF NextEvery, Schedule, Instant
<1>3. NextCron(s, t) \in Instant \cup {Err}
  <2> DEFINE matches == {m \in s.times : t < m /\ m < t + Horizon}
  <2>1. matches \subseteq Nat
    BY DEF Schedule
  <2>2. matches # {} => Earliest(matches) \in Nat
    <3> HIDE DEF matches
    <3> QED
      BY <2>1, EarliestMember
  <2> QED
    BY <2>2 DEF NextCron, Instant
<1> QED
  BY <1>1, <1>2, <1>3 DEF ComputeNextRun

(* A recurring schedule that has just run is never due again before its    *)
(* run ended.                                                              *)
LEMMA RecurringMovesOn ==
  ASSUME NEW s \in Schedule, s.kind # "at", NEW t \in Nat,
         ComputeNextRun(s, t, t) # Err
  PROVE  ComputeNextRun(s, t, t) \in Nat /\ ComputeNextRun(s, t, t) > t
<1>1. CASE s.kind = "every"
  BY <1>1, ScheduleAssumption DEF ComputeNextRun, NextEvery, Schedule
<1>2. CASE s.kind = "cron"
  <2> DEFINE matches == {m \in s.times : t < m /\ m < t + Horizon}
  <2>1. matches \subseteq Nat /\ matches # {}
    BY <1>2 DEF Schedule, ComputeNextRun, NextCron
  <2>2. Earliest(matches) \in matches
    <3> HIDE DEF matches
    <3> QED
      BY <2>1, EarliestMember
  <2> QED
    BY <1>2, <2>1, <2>2 DEF ComputeNextRun, NextCron
<1> QED
  BY <1>1, <1>2 DEF ComputeNextRun, Schedule

-----------------------------------------------------------------------------
(* Typing.                                                                 *)

LEMMA BackoffType ==
  ASSUME NEW n \in 1 .. MaxRetries
  PROVE  Backoff[n] \in Nat
BY ScheduleAssumption DEF MaxRetries

LEMMA RetriesType == MaxRetries \in Nat
BY ScheduleAssumption DEF MaxRetries

LEMMA NewJobType ==
  ASSUME now \in Nat, NEW s \in Schedule, NEW dar \in BOOLEAN,
         ComputeNextRun(s, now, None) # Err
  PROVE  NewJob(s, dar) \in Job
<1>1. ComputeNextRun(s, now, None) \in Instant
  BY NextRunType DEF Instant
<1> QED
  BY <1>1, RetriesType DEF NewJob, Job, Instant

LEMMA ClearedType ==
  ASSUME now \in Nat, NEW job \in Job, NEW errs \in 0 .. MaxRetries + 1
  PROVE  [job EXCEPT !.running = FALSE, !.last = now, !.errs = errs] \in Job
<1> DEFINE a == [job EXCEPT !.running = FALSE]
           b == [a EXCEPT !.last = now]
           c == [b EXCEPT !.errs = errs]
<1>1. a \in Job
  BY DEF Job
<1> HIDE DEF a
<1>2. b \in Job
  BY <1>1 DEF Job, Instant
<1> HIDE DEF b
<1>3. c \in Job
  BY <1>2 DEF Job
<1>4. c = [job EXCEPT !.running = FALSE, !.last = now, !.errs = errs]
  BY DEF a, b, Job
<1> QED
  BY <1>3, <1>4

LEMMA AfterSuccessType ==
  ASSUME now \in Nat, NEW job \in Job
  PROVE  AfterSuccess(job) \in Job
<1> DEFINE next == ComputeNextRun(job.sched, now, now)
           done == [job EXCEPT !.running = FALSE, !.last = now, !.errs = 0]
<1>1. next \in Instant \cup {Err}
  BY NextRunType DEF Job, Instant
<1>a. 0 \in 0 .. MaxRetries + 1
  BY RetriesType
<1>2. done \in Job
  BY <1>a, ClearedType, Zenon
<1> HIDE DEF next, done
<1>3. [done EXCEPT !.enabled = FALSE, !.next = None] \in Job
  BY <1>2 DEF Job, Instant
<1>4. [done EXCEPT !.enabled = FALSE] \in Job
  BY <1>2 DEF Job
<1>5. next # Err => [done EXCEPT !.next = next] \in Job
  BY <1>1, <1>2 DEF Job
<1> QED
  BY <1>3, <1>4, <1>5 DEF AfterSuccess, next, done

LEMMA AfterErrorType ==
  ASSUME now \in Nat, NEW job \in Job
  PROVE  AfterError(job) \in Job
<1> DEFINE errs   == OneMoreError(job.errs)
           next   == ComputeNextRun(job.sched, now, now)
           failed == [job EXCEPT !.running = FALSE, !.last = now, !.errs = errs]
<1>1. next \in Instant \cup {Err}
  BY NextRunType DEF Job, Instant
<1>2. errs \in 1 .. MaxRetries + 1
  BY RetriesType DEF OneMoreError, Job
<1>3. errs <= MaxRetries => now + Backoff[errs] \in Instant
  BY <1>2, BackoffType, RetriesType DEF Instant
<1> HIDE DEF errs
<1>a. errs \in 0 .. MaxRetries + 1
  BY <1>2, RetriesType
<1>4. failed \in Job
  BY <1>a, ClearedType, Zenon
<1> HIDE DEF next, failed
<1>5. ASSUME NEW t \in Instant PROVE [failed EXCEPT !.next = t] \in Job
  BY <1>4 DEF Job
<1>6. [failed EXCEPT !.enabled = FALSE] \in Job
  BY <1>4 DEF Job
<1>7. [failed EXCEPT !.enabled = FALSE, !.next = None] \in Job
  BY <1>4 DEF Job, Instant
<1>8. next # Err => [failed EXCEPT !.next = next] \in Job
  BY <1>1, <1>5
<1>9. errs <= MaxRetries => [failed EXCEPT !.next = now + Backoff[errs]] \in Job
  BY <1>3, <1>5
<1> QED
  BY <1>6, <1>7, <1>8, <1>9 DEF AfterError, errs, next, failed

LEMMA RecomputedType ==
  ASSUME now \in Nat, NEW job \in Job
  PROVE  Recomputed(job) \in Job
<1> DEFINE next == ComputeNextRun(job.sched, now, job.last)
<1>1. next \in Instant \cup {Err}
  BY NextRunType DEF Job
<1> HIDE DEF next
<1>2. next # Err => [job EXCEPT !.next = next] \in Job
  BY <1>1 DEF Job
<1> QED
  BY <1>2 DEF Recomputed, next

LEMMA MarkedType ==
  ASSUME NEW job \in Job
  PROVE  [job EXCEPT !.running = TRUE] \in Job
BY DEF Job

LEMMA RescheduledType ==
  ASSUME NEW job \in Job, NEW s \in Schedule, NEW e \in BOOLEAN
  PROVE  [job EXCEPT !.sched = s, !.enabled = e] \in Job
BY DEF Job

LEMMA UpdateType ==
  ASSUME TypeOK, NEW id \in JobIds, NEW job \in Job, Update(id, job)
  PROVE  jobs' \in JobMap /\ disk' \in JobMap /\ saveFails' \in Nat
BY DEF TypeOK, JobMap, Update, Persist, PersistFails

LEMMA RemoveType ==
  ASSUME TypeOK, NEW id \in JobIds, Remove(id) \/ KeepOnFailure
  PROVE  jobs' \in JobMap /\ disk' \in JobMap /\ saveFails' \in Nat
BY DEF TypeOK, JobMap, Remove, KeepOnFailure, Persist, PersistFails

LEMMA SpendType ==
  ASSUME TypeOK, NEW c \in Cost, Spend(c)
  PROVE  spent' \in [Cost -> Nat]
BY DEF TypeOK, Spend

LEMMA SpawnType ==
  ASSUME TypeOK, NEW id \in JobIds, NEW b \in BOOLEAN, jobs[id] # NoJob,
         Spawn(id, b)
  PROVE  runs' \in [RunIds -> Run \cup {NoRun}]
<1>1. jobs[id].dar \in BOOLEAN
  BY DEF TypeOK, JobMap, Job
<1>2. [job |-> id, dar |-> jobs[id].dar, timer |-> b] \in Run
  BY <1>1 DEF Run
<1> QED
  BY <1>2 DEF TypeOK, Spawn

LEMMA SleepType ==
  ASSUME TypeOK, NEW m, Sleep(m)
  PROVE  timer' = "sleep" /\ wakeAt' \in Nat
BY SchedulerAssumption DEF TypeOK, Sleep

(* What the actions that update or drop a job do to the store.             *)
LEMMA RescheduleEffect ==
  ASSUME TypeOK, NEW id \in JobIds, NEW s \in Schedules, Reschedule(id, s)
  PROVE  /\ jobs[id] # NoJob
         /\ \E job \in Job : /\ job.running = jobs[id].running
                            /\ job.sched.kind # "at"
                            /\ Update(id, job)
<1> DEFINE e == IF s.kind = "cron" THEN TRUE ELSE jobs[id].enabled
           job == [jobs[id] EXCEPT !.sched = s, !.enabled = e]
<1>1. jobs[id] \in Job /\ jobs[id] # NoJob
  BY DEF Reschedule, TypeOK, JobMap
<1>2. e \in BOOLEAN /\ s \in Schedule
  BY <1>1, SchedulerAssumption DEF Job
<1>3. Update(id, job) /\ s.kind # "at"
  BY DEF Reschedule
<1> HIDE DEF e
<1>4. job \in Job
  BY <1>1, <1>2, RescheduledType, Zenon
<1>5. job.running = jobs[id].running /\ job.sched = s
  BY <1>1 DEF Job
<1> HIDE DEF job
<1> QED
  BY <1>1, <1>3, <1>4, <1>5

LEMMA FireEffect ==
  ASSUME TypeOK, NEW id \in JobIds, FireNext(id), jobs[id] # NoJob
  PROVE  \E job \in Job : job.running = TRUE /\ Update(id, job)
<1> DEFINE job == [jobs[id] EXCEPT !.running = TRUE]
<1>1. jobs[id] \in Job
  BY DEF TypeOK, JobMap
<1>2. job \in Job
  BY <1>1, MarkedType, Zenon
<1>3. Update(id, job) /\ job.running = TRUE
  BY <1>1 DEF FireNext, Update, Job
<1> HIDE DEF job
<1> QED
  BY <1>2, <1>3

LEMMA AppliedClears ==
  ASSUME NEW job \in Job
  PROVE  AfterSuccess(job).running = FALSE /\ AfterError(job).running = FALSE
<1>1. AfterSuccess(job).running = FALSE
  BY DEF AfterSuccess, Job
<1>2. AfterError(job).running = FALSE
  BY DEF AfterError, Job
<1> QED
  BY <1>1, <1>2

LEMMA FinishEffect ==
  ASSUME TypeOK, NEW r \in RunIds, NEW outcome, Finish(r, outcome)
  PROVE  LET id == runs[r].job
         IN  /\ id \in JobIds
             /\ \/ jobs[id] = NoJob /\ UNCHANGED <<memory, saveFails>>
                \/ /\ jobs[id] # NoJob
                   /\ \/ Remove(id) /\ outcome # "error"
                      \/ KeepOnFailure
                      \/ \E job \in Job : job.running = FALSE /\ Update(id, job)
<1> DEFINE id == runs[r].job
<1>1. id \in JobIds
  BY DEF Finish, TypeOK, Run
<1>2. CASE jobs[id] = NoJob
  BY <1>1, <1>2 DEF Finish, ApplySuccess, ApplyError
<1>3. CASE jobs[id] # NoJob
  <2>1. jobs[id] \in Job
    BY <1>1, <1>3 DEF TypeOK, JobMap
  <2>2. AfterSuccess(jobs[id]) \in Job /\ AfterError(jobs[id]) \in Job
    BY <2>1, AfterSuccessType, AfterErrorType DEF TypeOK
  <2>3. \/ Remove(id) /\ outcome # "error"
        \/ KeepOnFailure
        \/ Update(id, AfterSuccess(jobs[id]))
        \/ Update(id, AfterError(jobs[id]))
    BY <1>3 DEF Finish, ApplySuccess, ApplyError
  <2> QED
    BY <1>1, <1>3, <2>1, <2>2, <2>3, AppliedClears
<1> QED
  BY <1>2, <1>3

(* The initial state is well typed.                                        *)
LEMMA InitType == Init => TypeOK
BY DEF Init, TypeOK, JobMap, Instant, Fate, Cost

(* Every step keeps the state well typed.                                  *)
LEMMA NextType == TypeOK /\ [Next]_vars => TypeOK'
<1> SUFFICES ASSUME TypeOK, [Next]_vars PROVE TypeOK'
  OBVIOUS
<1> USE DEF memory, loop
<1>1. ASSUME NEW id \in JobIds, NEW s \in Schedules, NEW dar \in BOOLEAN,
             AddJob(id, s, dar)
      PROVE  TypeOK'
  <2>1. NewJob(s, dar) \in Job
    BY <1>1, NewJobType, SchedulerAssumption DEF AddJob, TypeOK
  <2>2. jobs' \in JobMap /\ disk' \in JobMap /\ saveFails' \in Nat
    BY <1>1, <2>1
    DEF AddJob, TypeOK, JobMap, Persist, KeepOnFailure, PersistFails
  <2>3. spent' \in [Cost -> Nat]
    BY <1>1, SpendType DEF AddJob, Cost
  <2>4. fate' \in [JobIds -> Fate]
    BY <1>1 DEF AddJob, TypeOK, Fate
  <2> QED
    BY <1>1, <2>2, <2>3, <2>4 DEF AddJob, TypeOK
<1>2. ASSUME NEW id \in JobIds, RemoveJob(id) PROVE TypeOK'
  <2>1. jobs' \in JobMap /\ disk' \in JobMap /\ saveFails' \in Nat
    BY <1>2, RemoveType DEF RemoveJob
  <2>2. spent' \in [Cost -> Nat]
    BY <1>2, SpendType DEF RemoveJob, Cost
  <2>3. fate' \in [JobIds -> Fate]
    BY <1>2 DEF RemoveJob, TypeOK, Fate
  <2> QED
    BY <1>2, <2>1, <2>2, <2>3 DEF RemoveJob, TypeOK
<1>3. ASSUME NEW id \in JobIds, NEW s \in Schedules, Reschedule(id, s)
      PROVE  TypeOK'
  <2>1. jobs' \in JobMap /\ disk' \in JobMap /\ saveFails' \in Nat
    BY <1>3, RescheduleEffect, UpdateType
  <2>2. spent' \in [Cost -> Nat]
    BY <1>3, SpendType DEF Reschedule, Cost
  <2> QED
    BY <1>3, <2>1, <2>2 DEF Reschedule, TypeOK
<1>4. ASSUME NEW id \in JobIds, RunImmediate(id) PROVE TypeOK'
  <2>1. runs' \in [RunIds -> Run \cup {NoRun}]
    BY <1>4, SpawnType DEF RunImmediate
  <2>2. spent' \in [Cost -> Nat]
    BY <1>4, SpendType DEF RunImmediate, Cost
  <2> QED
    BY <1>4, <2>1, <2>2 DEF RunImmediate, TypeOK
<1>5. CASE TickStart
  <2>1. due' \in [JobIds -> Instant]
    BY <1>5 DEF TickStart, IsDue, TypeOK, JobMap, Job, Instant
  <2> QED
    BY <1>5, <2>1 DEF TickStart, TypeOK
<1>6. ASSUME NEW id \in JobIds, FireNext(id) PROVE TypeOK'
  <2>1. due' \in [JobIds -> Instant]
    BY <1>6 DEF FireNext, TypeOK, Instant
  <2>2. CASE jobs[id] = NoJob
    BY <1>6, <2>1, <2>2 DEF FireNext, TypeOK
  <2>3. CASE jobs[id] # NoJob
    <3>3. jobs' \in JobMap /\ disk' \in JobMap /\ saveFails' \in Nat
      BY <1>6, <2>3, FireEffect, UpdateType
    <3>4. runs' \in [RunIds -> Run \cup {NoRun}]
      BY <1>6, <2>3, SpawnType DEF FireNext, TypeOK
    <3> QED
      BY <1>6, <2>1, <3>3, <3>4 DEF FireNext, TypeOK
  <2> QED
    BY <2>2, <2>3
<1>7. CASE TickEnd
  BY <1>7, SleepType DEF TickEnd, TypeOK
<1>8. ASSUME NEW r \in RunIds, NEW outcome \in Outcomes, Finish(r, outcome)
      PROVE  TypeOK'
  <2>2. jobs' \in JobMap /\ disk' \in JobMap /\ saveFails' \in Nat
    BY <1>8, FinishEffect, RemoveType, UpdateType DEF TypeOK
  <2>3. fate' \in [JobIds -> Fate]
    BY <1>8 DEF Finish, Answers, TypeOK, Fate
  <2>4. runs' \in [RunIds -> Run \cup {NoRun}]
    BY <1>8 DEF Finish, TypeOK
  <2> QED
    BY <1>8, <2>2, <2>3, <2>4 DEF Finish, TypeOK
<1>9. CASE Load
  <2>1. jobs' \in JobMap
    <3>1. ASSUME NEW j \in JobIds, disk[j] # NoJob
          PROVE  [disk[j] EXCEPT !.running = FALSE] \in Job
      BY <3>1 DEF TypeOK, JobMap, Job
    <3> QED
      BY <1>9, <3>1 DEF Load, JobMap
  <2>2. disk' \in JobMap /\ saveFails' \in Nat
    <3>1. Persist \/ PersistFails
      BY <1>9 DEF Load
    <3> QED
      BY <2>1, <3>1 DEF TypeOK, Persist, PersistFails
  <2>3. UNCHANGED <<now, timer, wakeAt, due, runs, fate, spent>>
    BY <1>9 DEF Load
  <2>4. daemon' = "starting"
    BY <1>9 DEF Load
  <2> QED
    BY <2>1, <2>2, <2>3, <2>4 DEF TypeOK
<1>10. CASE Recompute
  <2>1. jobs' \in JobMap
    <3>1. ASSUME NEW j \in JobIds, jobs[j] # NoJob
          PROVE  Recomputed(jobs[j]) \in Job
      BY <3>1, RecomputedType DEF TypeOK, JobMap
    <3> QED
      BY <1>10, <3>1 DEF Recompute, JobMap
  <2>2. disk' \in JobMap /\ saveFails' \in Nat
    BY <1>10, <2>1 DEF Recompute, TypeOK, Persist, PersistFails
  <2>3. timer' = "sleep" /\ wakeAt' \in Nat
    <3>1. Sleep(jobs')
      BY <1>10 DEF Recompute
    <3> QED
      BY <3>1, SchedulerAssumption DEF Sleep, TypeOK
  <2> QED
    BY <1>10, <2>1, <2>2, <2>3 DEF Recompute, TypeOK
<1>11. CASE Shutdown
  BY <1>11, SpendType DEF Shutdown, TypeOK, Cost
<1>12. CASE LoopExit
  BY <1>12 DEF LoopExit, TypeOK
<1>13. ASSUME Die, spent' \in [Cost -> Nat] PROVE TypeOK'
  BY <1>13 DEF Die, TypeOK, JobMap, Instant
<1>14. CASE Stopped
  BY <1>13, <1>14 DEF Stopped, TypeOK
<1>15. CASE Crash
  BY <1>13, <1>15, SpendType DEF Crash, Cost
<1>16. CASE Clock
  BY <1>16 DEF Clock, TypeOK
<1>17. CASE UNCHANGED vars
  BY <1>17 DEF vars, TypeOK
<1> QED
  BY <1>1, <1>2, <1>3, <1>4, <1>5, <1>6, <1>7, <1>8, <1>9, <1>10, <1>11,
     <1>12, <1>14, <1>15, <1>16, <1>17
  DEF Next, Call, TimerLoop, EndRun, Lifecycle

(* The state of the job system stays well typed.                           *)
THEOREM TypeCorrect == Spec => []TypeOK
BY InitType, NextType, PTL DEF Spec
-----------------------------------------------------------------------------
(* Memory and disk.                                                        *)

(* An update of a job that is present changes no key of the map.           *)
LEMMA UpdateKeepsKeys ==
  ASSUME TypeOK, NEW id \in JobIds, jobs[id] # NoJob, NEW job \in Job,
         jobs' = [jobs EXCEPT ![id] = job]
  PROVE  Stored(jobs') = Stored(jobs)
<1>1. job # NoJob
  BY AbsentAssumption
<1> QED
  BY <1>1 DEF Stored, TypeOK, JobMap

(* Whatever a step does to the store, it saves the new map, or fails to    *)
(* save one with the same keys, or leaves memory and disk alone.           *)
StoreStep ==
  \/ Die
  \/ Persist
  \/ /\ PersistFails
     /\ Stored(jobs') = IF daemon = "down" THEN Stored(disk) ELSE Stored(jobs)
  \/ UNCHANGED <<memory, saveFails>> /\ (daemon = "down" => daemon' = "down")

(* Nothing runs before the store is loaded and recomputed, nor after the   *)
(* daemon went down.                                                       *)
IdleUnlessServing == ~Serving => timer = "off" /\ Active = {}

LEMMA IdleInit == Init => IdleUnlessServing
BY DEF Init, IdleUnlessServing, Active

LEMMA IdleNext == TypeOK /\ IdleUnlessServing /\ [Next]_vars => IdleUnlessServing'
<1> SUFFICES ASSUME TypeOK, IdleUnlessServing, [Next]_vars, ~Serving'
             PROVE  timer' = "off" /\ Active' = {}
  BY DEF IdleUnlessServing
<1>1. CASE Die
  BY <1>1 DEF Die, Active
<1>2. CASE Load \/ Recompute \/ Shutdown
  BY <1>2 DEF Load, Recompute, Shutdown, Serving, IdleUnlessServing, Active, loop
<1>3. ASSUME UNCHANGED daemon, Serving PROVE FALSE
  BY <1>3 DEF Serving
<1>4. ASSUME NEW r \in RunIds, NEW outcome \in Outcomes, Finish(r, outcome)
      PROVE  Serving /\ UNCHANGED daemon
  BY <1>4 DEF Finish, IdleUnlessServing, Active
<1>5. CASE TimerLoop \/ LoopExit
  BY <1>3, <1>5 DEF TimerLoop, TickStart, FireNext, TickEnd, LoopExit,
                    IdleUnlessServing, Serving
<1>6. CASE Call
  BY <1>3, <1>6 DEF Call, AddJob, RemoveJob, Reschedule, RunImmediate
<1>7. CASE Clock \/ UNCHANGED vars
  BY <1>7 DEF Clock, vars, loop, IdleUnlessServing, Serving, Active
<1> QED
  BY <1>1, <1>2, <1>3, <1>4, <1>5, <1>6, <1>7
  DEF Next, EndRun, Lifecycle, Stopped, Crash

LEMMA EveryStoreStep ==
  ASSUME TypeOK, IdleUnlessServing, [Next]_vars PROVE StoreStep
<1> USE DEF memory, StoreStep
<1>1. ASSUME NEW id \in JobIds, daemon # "down", jobs[id] # NoJob,
             NEW job \in Job, Update(id, job)
      PROVE  StoreStep
  BY <1>1, UpdateKeepsKeys DEF Update
<1>2. ASSUME NEW id \in JobIds, daemon # "down", Remove(id) \/ KeepOnFailure
      PROVE  StoreStep
  BY <1>2 DEF Remove, KeepOnFailure
<1>3. ASSUME NEW id \in JobIds, NEW s \in Schedules, NEW dar \in BOOLEAN,
             AddJob(id, s, dar)
      PROVE  StoreStep
  BY <1>3 DEF AddJob, KeepOnFailure, Serving
<1>4. ASSUME NEW id \in JobIds, RemoveJob(id) PROVE StoreStep
  BY <1>2, <1>4 DEF RemoveJob, Serving
<1>5. ASSUME NEW id \in JobIds, NEW s \in Schedules, Reschedule(id, s)
      PROVE  StoreStep
  BY <1>1, <1>5, RescheduleEffect DEF Reschedule, Serving
<1>6. ASSUME NEW id \in JobIds, RunImmediate(id) PROVE StoreStep
  BY <1>6 DEF RunImmediate
<1>7. ASSUME NEW id \in JobIds, FireNext(id) PROVE StoreStep
  <2>1. CASE jobs[id] = NoJob
    BY <1>7, <2>1 DEF FireNext
  <2>2. CASE jobs[id] # NoJob
    <3>1. daemon # "down"
      BY <1>7 DEF FireNext, IdleUnlessServing, Serving
    <3> QED
      BY <1>1, <1>7, <2>2, <3>1, FireEffect
  <2> QED
    BY <2>1, <2>2
<1>8. ASSUME NEW r \in RunIds, NEW outcome \in Outcomes, Finish(r, outcome)
      PROVE  StoreStep
  <2>1. daemon # "down" /\ UNCHANGED daemon
    BY <1>8 DEF Finish, IdleUnlessServing, Serving, Active
  <2>2. PICK id \in JobIds :
          \/ jobs[id] = NoJob /\ UNCHANGED <<memory, saveFails>>
          \/ /\ jobs[id] # NoJob
             /\ \/ Remove(id) \/ KeepOnFailure
                \/ \E job \in Job : Update(id, job)
    BY <1>8, FinishEffect, Zenon
  <2> QED
    BY <1>1, <1>2, <2>1, <2>2
<1>9. CASE Load
  <2>1. ASSUME NEW j \in JobIds, disk[j] # NoJob
        PROVE  [disk[j] EXCEPT !.running = FALSE] # NoJob
    BY <2>1, AbsentAssumption DEF TypeOK, JobMap, Job
  <2>2. Stored(jobs') = Stored(disk)
    BY <1>9, <2>1 DEF Load, Stored
  <2> QED
    BY <1>9, <2>2 DEF Load
<1>10. CASE Recompute
  <2>1. ASSUME NEW j \in JobIds, jobs[j] # NoJob
        PROVE  Recomputed(jobs[j]) # NoJob
    BY <2>1, RecomputedType, AbsentAssumption DEF TypeOK, JobMap
  <2>2. Stored(jobs') = Stored(jobs)
    BY <1>10, <2>1 DEF Recompute, Stored
  <2> QED
    BY <1>10, <2>2 DEF Recompute
<1>11. CASE TickStart \/ TickEnd
  BY <1>11 DEF TickStart, TickEnd
<1>12. CASE Shutdown \/ LoopExit \/ Clock \/ UNCHANGED vars
  BY <1>12 DEF Shutdown, LoopExit, Clock, vars
<1> QED
  BY <1>3, <1>4, <1>5, <1>6, <1>7, <1>8, <1>9, <1>10, <1>11, <1>12
  DEF Next, Call, TimerLoop, EndRun, Lifecycle, Stopped, Crash

(* Memory and jobs.json hold the same jobs whatever saves fail, and the    *)
(* same records as long as none did.                                       *)
StoreInv == TypeOK /\ IdleUnlessServing /\ SameJobsOnDisk /\ DiskIsCurrent

LEMMA StoreInvInit == Init => StoreInv
BY InitType, IdleInit DEF Init, StoreInv, SameJobsOnDisk, DiskIsCurrent

LEMMA StoreInvNext == StoreInv /\ [Next]_vars => StoreInv'
<1> SUFFICES ASSUME StoreInv, [Next]_vars PROVE SameJobsOnDisk' /\ DiskIsCurrent'
  BY NextType, IdleNext DEF StoreInv
<1>1. StoreStep
  BY EveryStoreStep DEF StoreInv
<1>2. CASE Die
  BY <1>2 DEF Die, SameJobsOnDisk, DiskIsCurrent
<1>3. CASE Persist
  BY <1>3 DEF Persist, SameJobsOnDisk, DiskIsCurrent, Stored
<1>4. CASE /\ PersistFails
           /\ Stored(jobs') = IF daemon = "down" THEN Stored(disk) ELSE Stored(jobs)
  BY <1>4 DEF PersistFails, SameJobsOnDisk, DiskIsCurrent, StoreInv, TypeOK, Stored
<1>5. CASE UNCHANGED <<memory, saveFails>> /\ (daemon = "down" => daemon' = "down")
  BY <1>5 DEF memory, SameJobsOnDisk, DiskIsCurrent, StoreInv, Stored
<1> QED
  BY <1>1, <1>2, <1>3, <1>4, <1>5 DEF StoreStep

(* Add and Remove roll the memory back when the save fails and Update only *)
(* changes jobs both sides hold: whatever saves fail, the jobs in memory   *)
(* are the jobs in jobs.json.                                              *)
THEOREM MemoryMatchesDisk == Spec => []SameJobsOnDisk
BY StoreInvInit, StoreInvNext, PTL DEF Spec, StoreInv

(* Every change of the store is saved before the lock is released: while   *)
(* no save has failed, jobs.json is the memory of a running daemon.        *)
THEOREM EveryChangeIsSaved == Spec => []DiskIsCurrent
BY StoreInvInit, StoreInvNext, PTL DEF Spec, StoreInv

(* Both halves of MemoryOnDisk, for every value of the constants: jobs.json *)
(* names the jobs of the daemon's memory, and holds what they are unless a  *)
(* save failed (jobstore.go, save).                                        *)
THEOREM StoreIsOnDisk == Spec => []MemoryOnDisk
BY MemoryMatchesDisk, EveryChangeIsSaved, PTL DEF MemoryOnDisk

-----------------------------------------------------------------------------
(* Markers.                                                                *)

LEMMA SaveFailsGrows ==
  ASSUME StoreInv, [Next]_vars, saveFails' = 0 PROVE saveFails = 0
BY EveryStoreStep
DEF StoreInv, StoreStep, TypeOK, Die, Persist, PersistFails

LEMMA MarkerNext == StoreInv /\ MarkerHasRun /\ [Next]_vars => MarkerHasRun'
<1> SUFFICES ASSUME StoreInv, MarkerHasRun, [Next]_vars, saveFails' = 0,
                    NEW j \in JobIds, jobs'[j] # NoJob, jobs'[j].running
             PROVE  \E r \in RunIds : /\ runs'[r] # NoRun
                                     /\ runs'[r].job = j /\ runs'[r].timer
  BY DEF MarkerHasRun, Stored, TimerRunsOf, Active
<1> USE DEF memory, loop
<1>0. saveFails = 0 /\ TypeOK
  BY SaveFailsGrows DEF StoreInv
<1>1. ASSUME jobs[j] # NoJob, jobs[j].running
      PROVE  \E r \in RunIds : /\ runs[r] # NoRun
                              /\ runs[r].job = j /\ runs[r].timer
  BY <1>0, <1>1 DEF MarkerHasRun, Stored, TimerRunsOf, Active
<1>2. CASE jobs[j] # NoJob /\ jobs[j].running /\ UNCHANGED runs
  BY <1>1, <1>2
<1>3. ASSUME NEW id \in JobIds, NEW s \in Schedules, NEW dar \in BOOLEAN,
             AddJob(id, s, dar)
      PROVE  jobs[j] # NoJob /\ jobs[j].running /\ UNCHANGED runs
  BY <1>0, <1>3 DEF AddJob, NewJob, KeepOnFailure, TypeOK, JobMap
<1>4. ASSUME NEW id \in JobIds, RemoveJob(id)
      PROVE  jobs[j] # NoJob /\ jobs[j].running /\ UNCHANGED runs
  BY <1>0, <1>4 DEF RemoveJob, Remove, KeepOnFailure, TypeOK, JobMap
<1>5. ASSUME NEW id \in JobIds, NEW s \in Schedules, Reschedule(id, s)
      PROVE  jobs[j] # NoJob /\ jobs[j].running /\ UNCHANGED runs
  <2>1. UNCHANGED runs
    BY <1>5 DEF Reschedule
  <2> QED
    BY <1>0, <1>5, <2>1, RescheduleEffect DEF Update, TypeOK, JobMap
<1>6. ASSUME NEW id \in JobIds, RunImmediate(id)
      PROVE  \E r \in RunIds : /\ runs'[r] # NoRun
                              /\ runs'[r].job = j /\ runs'[r].timer
  BY <1>0, <1>1, <1>6 DEF RunImmediate, Spawn, TypeOK
<1>7. ASSUME NEW id \in JobIds, FireNext(id)
      PROVE  \E r \in RunIds : /\ runs'[r] # NoRun
                              /\ runs'[r].job = j /\ runs'[r].timer
  <2>1. CASE jobs[id] = NoJob
    BY <1>1, <1>7, <2>1 DEF FireNext
  <2>2. CASE jobs[id] # NoJob
    <3>a. ~PersistFails
      BY <1>0 DEF PersistFails
    <3>1. Spawn(id, TRUE)
      BY <1>7, <2>2, <3>a, Zenon DEF FireNext
    <3>2. PICK r \in RunIds :
            /\ runs[r] = NoRun
            /\ runs' = [runs EXCEPT ![r] = [job |-> id, dar |-> jobs[id].dar,
                                            timer |-> TRUE]]
      BY <3>1 DEF Spawn
    <3>3. CASE j = id
      <4>1. runs'[r] \in Run /\ runs'[r].job = id /\ runs'[r].timer
        BY <1>0, <2>2, <3>2 DEF TypeOK, JobMap, Job, Run
      <4> QED
        BY <3>3, <4>1, AbsentAssumption
    <3>4. CASE j # id
      <4>1. jobs[j] # NoJob /\ jobs[j].running
        BY <1>0, <1>7, <2>2, <3>4 DEF FireNext, TypeOK, JobMap
      <4> QED
        BY <1>0, <1>1, <3>2, <4>1 DEF TypeOK
    <3> QED
      BY <3>3, <3>4
  <2> QED
    BY <2>1, <2>2
<1>8. ASSUME NEW q \in RunIds, NEW outcome \in Outcomes, Finish(q, outcome)
      PROVE  \E r \in RunIds : /\ runs'[r] # NoRun
                              /\ runs'[r].job = j /\ runs'[r].timer
  <2>1. jobs[j] # NoJob /\ jobs[j].running /\ j # runs[q].job
    <3> DEFINE id == runs[q].job
    <3>1. /\ id \in JobIds
          /\ \/ jobs[id] = NoJob /\ UNCHANGED <<memory, saveFails>>
             \/ /\ jobs[id] # NoJob
                /\ \/ Remove(id) \/ KeepOnFailure
                   \/ \E job \in Job : job.running = FALSE /\ Update(id, job)
      BY <1>0, <1>8, FinishEffect, Zenon
    <3> HIDE DEF id
    <3>2. CASE jobs[id] = NoJob /\ UNCHANGED <<memory, saveFails>>
      BY <3>2 DEF id
    <3>3. CASE Remove(id) \/ KeepOnFailure
      BY <1>0, <3>1, <3>3 DEF Remove, KeepOnFailure, PersistFails, TypeOK, JobMap, id
    <3>4. CASE \E job \in Job : job.running = FALSE /\ Update(id, job)
      BY <1>0, <3>1, <3>4 DEF Update, TypeOK, JobMap, id
    <3> QED
      BY <3>1, <3>2, <3>3, <3>4
  <2>2. runs' = [runs EXCEPT ![q] = NoRun]
    BY <1>8 DEF Finish
  <2> QED
    BY <1>0, <1>1, <2>1, <2>2 DEF TypeOK
<1>9. CASE Load
  <2>1. disk[j] # NoJob /\ jobs'[j] = [disk[j] EXCEPT !.running = FALSE]
    BY <1>9 DEF Load
  <2> QED
    BY <1>0, <2>1 DEF TypeOK, JobMap, Job
<1>10. CASE Recompute
  <2>1. jobs[j] # NoJob /\ jobs'[j] = Recomputed(jobs[j])
    BY <1>10 DEF Recompute
  <2>2. jobs[j] \in Job
    BY <1>0, <2>1 DEF TypeOK, JobMap
  <2>3. Recomputed(jobs[j]).running = jobs[j].running
    BY <2>2 DEF Recomputed, Job
  <2> QED
    BY <1>2, <1>10, <2>1, <2>3 DEF Recompute
<1>11. CASE Die
  BY <1>11 DEF Die
<1>12. CASE TickStart \/ TickEnd \/ Shutdown \/ LoopExit \/ Clock \/ UNCHANGED vars
  BY <1>2, <1>12 DEF TickStart, TickEnd, Shutdown, LoopExit, Clock, vars
<1> QED
  BY <1>2, <1>3, <1>4, <1>5, <1>6, <1>7, <1>8, <1>9, <1>10, <1>11, <1>12
  DEF Next, Call, TimerLoop, EndRun, Lifecycle, Stopped, Crash

MarkerInv == StoreInv /\ MarkerHasRun

LEMMA MarkerInvInit == Init => MarkerInv
BY StoreInvInit DEF Init, MarkerInv, MarkerHasRun, Stored

LEMMA MarkerInvNext == MarkerInv /\ [Next]_vars => MarkerInv'
BY StoreInvNext, MarkerNext DEF MarkerInv

(* While no save has failed, a job marked as running has a run in flight   *)
(* that will clear the marker: none is shut out of NextDue.                *)
THEOREM MarkersAreLive == Spec => []MarkerHasRun
BY MarkerInvInit, MarkerInvNext, PTL DEF Spec, MarkerInv

(* Stop waits for every run the timer spawned, so the jobs.json it leaves  *)
(* has no running marker, as long as no save has failed: after one that    *)
(* did, it may have one (jobexec.go:109).                                  *)
THEOREM StopLeavesNoMarker == Spec => GracefulStopIsClean
<1>1. MarkerInv /\ [Next]_vars =>
        [Stopped /\ saveFails = 0 =>
           \A j \in Stored(disk') : ~disk'[j].running]_vars
  <2> SUFFICES ASSUME MarkerInv, Stopped, saveFails = 0,
                      NEW j \in Stored(disk'), disk'[j].running
               PROVE  FALSE
    OBVIOUS
  <2>1. disk' = disk /\ disk = jobs
    BY DEF MarkerInv, StoreInv, DiskIsCurrent, Stopped, Die
  <2>2. TimerRunsOf(j) # {}
    BY <2>1 DEF MarkerInv, MarkerHasRun, Stored
  <2> QED
    BY <2>2 DEF Stopped, TimerRunsOf
<1> QED
  BY <1>1, MarkerInvInit, MarkerInvNext, PTL DEF Spec, GracefulStopIsClean

(* A RunningAt marker tells the truth while the daemon lives and after it   *)
(* stopped, for every value of the constants (jobexec.go:170, :109).        *)
THEOREM MarkersTellTheTruth == Spec => MarkersAreTrue
BY MarkersAreLive, StopLeavesNoMarker, PTL DEF MarkersAreTrue

-----------------------------------------------------------------------------
(* Accepted jobs.                                                          *)

LEMMA KeptNext ==
  ASSUME ~Cancels
  PROVE  StoreInv /\ AcceptedJobKept /\ [Next]_vars => AcceptedJobKept'
<1> SUFFICES ASSUME StoreInv, AcceptedJobKept, [Next]_vars,
                    NEW j \in JobIds, fate'[j] = "open"
             PROVE  disk'[j] # NoJob
  BY DEF AcceptedJobKept
<1> USE DEF memory, loop
<1>0. TypeOK /\ IdleUnlessServing
  BY DEF StoreInv
<1>1. ASSUME fate[j] = "open"
      PROVE  disk[j] # NoJob /\ (daemon # "down" => jobs[j] # NoJob)
  BY <1>1 DEF AcceptedJobKept, StoreInv, SameJobsOnDisk, Stored
<1>3. ASSUME fate[j] = "open", Persist \/ PersistFails, jobs'[j] # NoJob
      PROVE  disk'[j] # NoJob
  BY <1>1, <1>3 DEF Persist, PersistFails
<1>4. ASSUME NEW id \in JobIds, NEW s \in Schedules, NEW dar \in BOOLEAN,
             AddJob(id, s, dar)
      PROVE  disk'[j] # NoJob
  <2>1. CASE KeepOnFailure /\ UNCHANGED fate
    BY <1>1, <2>1 DEF KeepOnFailure, PersistFails
  <2>2. CASE /\ jobs' = [jobs EXCEPT ![id] = NewJob(s, dar)]
             /\ Persist /\ fate' = [fate EXCEPT ![id] = "open"]
    <3>1. NewJob(s, dar) # NoJob
      BY <1>0, <1>4, NewJobType, SchedulerAssumption, AbsentAssumption
      DEF AddJob, TypeOK
    <3>2. daemon # "down"
      BY <1>4 DEF AddJob, Serving
    <3> QED
      BY <1>0, <1>1, <2>2, <3>1, <3>2 DEF Persist, TypeOK, JobMap
  <2> QED
    BY <1>4, <2>1, <2>2 DEF AddJob
<1>5. ASSUME NEW id \in JobIds, RemoveJob(id) PROVE disk'[j] # NoJob
  <2>1. CASE KeepOnFailure /\ UNCHANGED fate
    BY <1>1, <2>1 DEF KeepOnFailure, PersistFails
  <2>2. CASE Remove(id) /\ fate' = [fate EXCEPT ![id] = "withdrawn"]
    <3>1. j # id /\ fate[j] = "open" /\ daemon # "down"
      BY <1>0, <1>5, <2>2 DEF TypeOK, RemoveJob, Serving
    <3> QED
      BY <1>0, <1>1, <2>2, <3>1 DEF Remove, Persist, TypeOK, JobMap
  <2> QED
    BY <1>5, <2>1, <2>2 DEF RemoveJob
<1>6. ASSUME NEW id \in JobIds, NEW job \in Job, Update(id, job),
             fate[j] = "open", daemon # "down"
      PROVE  disk'[j] # NoJob
  BY <1>0, <1>1, <1>6, AbsentAssumption
  DEF Update, Persist, PersistFails, TypeOK, JobMap
<1>7. ASSUME NEW id \in JobIds, NEW s \in Schedules, Reschedule(id, s)
      PROVE  disk'[j] # NoJob
  BY <1>0, <1>6, <1>7, RescheduleEffect DEF Reschedule, Serving
<1>8. ASSUME NEW id \in JobIds, FireNext(id) PROVE disk'[j] # NoJob
  <2>1. CASE jobs[id] = NoJob
    BY <1>1, <1>8, <2>1 DEF FireNext
  <2>2. CASE jobs[id] # NoJob
    <3>1. daemon # "down" /\ UNCHANGED fate
      BY <1>0, <1>8 DEF FireNext, IdleUnlessServing, Serving
    <3> QED
      BY <1>0, <1>6, <1>8, <2>2, <3>1, FireEffect
  <2> QED
    BY <2>1, <2>2
<1>9. ASSUME NEW r \in RunIds, NEW outcome \in Outcomes, Finish(r, outcome)
      PROVE  disk'[j] # NoJob
  <2> DEFINE id == runs[r].job
  <2>1. fate[j] = "open" /\ (outcome = "ok" => j # id)
    BY <1>0, <1>9 DEF Finish, Answers, TypeOK
  <2>2. daemon # "down"
    BY <1>0, <1>9 DEF Finish, IdleUnlessServing, Serving, Active
  <2>3. /\ id \in JobIds
        /\ \/ jobs[id] = NoJob /\ UNCHANGED <<memory, saveFails>>
           \/ Remove(id) /\ outcome # "error"
           \/ KeepOnFailure
           \/ \E job \in Job : Update(id, job)
    BY <1>0, <1>9, FinishEffect, Zenon
  <2> HIDE DEF id
  <2>4. CASE Remove(id) /\ outcome # "error"
    <3>1. j # id
      BY <2>1, <2>4 DEF Outcomes
    <3> QED
      BY <1>0, <1>1, <2>1, <2>2, <2>3, <2>4, <3>1 DEF Remove, Persist, TypeOK, JobMap
  <2>5. CASE UNCHANGED <<memory, saveFails>> \/ KeepOnFailure
    BY <1>1, <2>1, <2>5 DEF KeepOnFailure, PersistFails
  <2>6. CASE \E job \in Job : Update(id, job)
    BY <1>6, <2>1, <2>2, <2>3, <2>6
  <2> QED
    BY <2>3, <2>4, <2>5, <2>6
<1>10. CASE Load
  <2>1. fate[j] = "open" /\ (Persist \/ PersistFails)
    BY <1>10 DEF Load
  <2>2. jobs'[j] = [disk[j] EXCEPT !.running = FALSE] /\ disk[j] \in Job
    BY <1>0, <1>1, <1>10, <2>1 DEF Load, TypeOK, JobMap
  <2>3. jobs'[j] # NoJob
    BY <2>2, AbsentAssumption DEF Job
  <2> QED
    BY <1>3, <2>1, <2>3
<1>11. CASE Recompute
  <2>1. fate[j] = "open" /\ (Persist \/ PersistFails) /\ daemon # "down"
    BY <1>11 DEF Recompute
  <2>2. jobs'[j] = Recomputed(jobs[j]) /\ jobs[j] \in Job
    BY <1>0, <1>1, <1>11, <2>1 DEF Recompute, TypeOK, JobMap
  <2>3. jobs'[j] # NoJob
    BY <1>0, <2>2, AbsentAssumption, RecomputedType DEF TypeOK
  <2> QED
    BY <1>3, <2>1, <2>3
<1>12. CASE Die
  BY <1>1, <1>12 DEF Die
<1>13. CASE \/ \E id \in JobIds : RunImmediate(id)
            \/ TickStart \/ TickEnd \/ Shutdown \/ LoopExit \/ Clock
            \/ UNCHANGED vars
  BY <1>1, <1>13
  DEF RunImmediate, TickStart, TickEnd, Shutdown, LoopExit, Clock, vars
<1> QED
  BY <1>4, <1>5, <1>7, <1>8, <1>9, <1>10, <1>11, <1>12, <1>13
  DEF Next, Call, TimerLoop, EndRun, Lifecycle, Stopped, Crash

(* No crash, stop or failed save loses a job that Add accepted, as long as *)
(* no run is cancelled: only an answer or a removal takes it off the disk. *)
THEOREM AcceptedJobsSurvive ==
  ASSUME ~Cancels
  PROVE  Spec => []AcceptedJobKept
<1>1. Init => StoreInv /\ AcceptedJobKept
  BY StoreInvInit DEF Init, AcceptedJobKept
<1>2. StoreInv /\ AcceptedJobKept /\ [Next]_vars => (StoreInv /\ AcceptedJobKept)'
  BY StoreInvNext, KeptNext
<1> QED
  BY <1>1, <1>2, PTL DEF Spec

-----------------------------------------------------------------------------
(* One run of the timer at a time.  An id with a run in flight was         *)
(* accepted, is not in the batch, and is marked as running if it is still  *)
(* in the store; an id is never accepted twice.                            *)
OnlyTimerRuns == \A r \in Active : runs[r].timer

KnownIds ==
  /\ \A r \in Active : fate[runs[r].job] # "none"
  /\ \A j \in JobIds :
       jobs[j] # NoJob \/ disk[j] # NoJob \/ due[j] # None => fate[j] # "none"

RunsAreMarked ==
  \A r \in Active : LET j == runs[r].job
                    IN  jobs[j] # NoJob => jobs[j].running

DueIsIdle == \A r \in Active : due[runs[r].job] = None

OneRunEach == \A r, s \in Active : runs[r].job = runs[s].job => r = s

RunsInv == OnlyTimerRuns /\ KnownIds /\ RunsAreMarked /\ DueIsIdle /\ OneRunEach

LEMMA RunsInit == Init => RunsInv
BY DEF Init, RunsInv, OnlyTimerRuns, KnownIds, RunsAreMarked, DueIsIdle,
       OneRunEach, Active

LEMMA RunsNext ==
  ASSUME MaxManual = 0, NamedIds = {}
  PROVE  StoreInv /\ RunsInv /\ [Next]_vars => RunsInv'
<1> SUFFICES ASSUME StoreInv, RunsInv, [Next]_vars PROVE RunsInv'
  OBVIOUS
<1> USE DEF memory, loop, RunsInv
<1>0. TypeOK /\ IdleUnlessServing
  BY DEF StoreInv
<1>1. CASE UNCHANGED <<memory, runs, due, fate>>
  BY <1>1 DEF OnlyTimerRuns, KnownIds, RunsAreMarked, DueIsIdle, OneRunEach, Active
<1>2. CASE TickStart
  <2>1. UNCHANGED <<memory, runs, fate>>
    BY <1>2 DEF TickStart
  <2>2. ASSUME NEW j \in JobIds, due'[j] # None
        PROVE  jobs[j] # NoJob /\ ~jobs[j].running
    BY <1>2, <2>2 DEF TickStart, IsDue
  <2>3. KnownIds'
    BY <2>1, <2>2 DEF KnownIds, Active
  <2>4. DueIsIdle'
    BY <1>0, <2>1, <2>2 DEF DueIsIdle, RunsAreMarked, Active, TypeOK, Run
  <2> QED
    BY <2>1, <2>3, <2>4 DEF OnlyTimerRuns, RunsAreMarked, OneRunEach, Active
<1>3. ASSUME NEW id \in JobIds, NEW s \in Schedules, NEW dar \in BOOLEAN,
             AddJob(id, s, dar)
      PROVE  RunsInv'
  <2>1. UNCHANGED <<runs, due>> /\ fate[id] = "none"
    BY <1>3 DEF AddJob
  <2>2. CASE KeepOnFailure /\ UNCHANGED fate
    BY <1>1, <2>1, <2>2 DEF KeepOnFailure, PersistFails
  <2>3. CASE /\ jobs' = [jobs EXCEPT ![id] = NewJob(s, dar)]
             /\ Persist /\ fate' = [fate EXCEPT ![id] = "open"]
    <3>1. \A j \in JobIds : fate[j] # "none" => fate'[j] # "none" /\ jobs'[j] = jobs[j]
      BY <1>0, <2>1, <2>3 DEF TypeOK, JobMap
    <3>2. daemon # "down"
      BY <1>3 DEF AddJob, Serving
    <3>3. KnownIds'
      BY <1>0, <2>1, <2>3, <3>1, <3>2
      DEF KnownIds, Active, Persist, StoreInv, SameJobsOnDisk, Stored, TypeOK,
          JobMap, Run
    <3>4. RunsAreMarked'
      BY <1>0, <2>1, <3>1 DEF RunsAreMarked, KnownIds, Active, TypeOK, Run
    <3> QED
      BY <2>1, <3>3, <3>4 DEF OnlyTimerRuns, DueIsIdle, OneRunEach, Active
  <2> QED
    BY <1>3, <2>2, <2>3 DEF AddJob
<1>4. ASSUME NEW id \in JobIds, RemoveJob(id) PROVE RunsInv'
  <2>1. UNCHANGED <<runs, due>>
    BY <1>4 DEF RemoveJob
  <2>2. CASE KeepOnFailure /\ UNCHANGED fate
    BY <1>1, <2>1, <2>2 DEF KeepOnFailure, PersistFails
  <2>3. CASE Remove(id) /\ fate' = [fate EXCEPT ![id] = "withdrawn"]
    <3>1. \A j \in JobIds :
            /\ fate[j] # "none" => fate'[j] # "none"
            /\ jobs'[j] # NoJob => jobs'[j] = jobs[j]
            /\ disk'[j] = jobs'[j]
      BY <1>0, <2>3 DEF TypeOK, JobMap, Remove, Persist
    <3>a. \A r \in Active' :
            r \in Active /\ runs'[r] = runs[r] /\ runs[r].job \in JobIds
      BY <1>0, <2>1 DEF Active, TypeOK, Run
    <3>b. \A j \in JobIds : due'[j] = due[j]
      BY <2>1
    <3>2. KnownIds'
      BY <3>1, <3>a, <3>b DEF KnownIds
    <3>3. RunsAreMarked'
      BY <3>1, <3>a DEF RunsAreMarked
    <3> QED
      BY <2>1, <3>2, <3>3 DEF OnlyTimerRuns, DueIsIdle, OneRunEach, Active
  <2> QED
    BY <1>4, <2>2, <2>3 DEF RemoveJob
<1>5. ASSUME NEW id \in JobIds, NEW s \in Schedules, Reschedule(id, s)
      PROVE  FALSE
  BY <1>5 DEF Reschedule
<1>6. ASSUME NEW id \in JobIds, RunImmediate(id) PROVE FALSE
  BY <1>0, <1>6 DEF RunImmediate, Spend, Limit, TypeOK, Cost
<1>7. ASSUME NEW id \in JobIds, FireNext(id) PROVE RunsInv'
  <2>1. /\ due' = [due EXCEPT ![id] = None]
        /\ due[id] # None /\ fate[id] # "none" /\ UNCHANGED fate
    BY <1>7 DEF FireNext, KnownIds
  <2>2. \A j \in JobIds : due[j] = None => due'[j] = None
    BY <1>0, <2>1 DEF TypeOK
  <2>3. CASE UNCHANGED <<memory, runs>>
    BY <1>0, <2>1, <2>2, <2>3
    DEF OnlyTimerRuns, KnownIds, RunsAreMarked, DueIsIdle, OneRunEach, Active,
        TypeOK, Run
  <2>4. CASE /\ jobs[id] # NoJob
             /\ jobs' = [jobs EXCEPT ![id].running = TRUE]
             /\ (Persist /\ Spawn(id, TRUE)) \/ (PersistFails /\ UNCHANGED runs)
    <3>1. jobs'[id].running
      BY <1>0, <2>4 DEF TypeOK, JobMap, Job
    <3>2. \A j \in JobIds : j # id => jobs'[j] = jobs[j]
      BY <1>0, <2>4 DEF TypeOK, JobMap
    <3>3. \A j \in JobIds : disk'[j] = jobs'[j] \/ disk'[j] = disk[j]
      BY <2>4 DEF Persist, PersistFails
    <3>4. \A r \in Active' :
            \/ r \in Active /\ runs'[r] = runs[r]
            \/ /\ runs'[r].job = id /\ runs'[r].timer
               /\ \A s \in Active' : s # r => s \in Active /\ runs'[s] = runs[s]
      BY <1>0, <2>4 DEF Active, Spawn, TypeOK
    <3>5. \A r \in Active : runs[r].job \in JobIds /\ runs[r].job # id
      BY <1>0, <2>1 DEF DueIsIdle, Active, TypeOK, Run
    <3>6. OnlyTimerRuns'
      BY <3>4 DEF OnlyTimerRuns
    <3>7. KnownIds'
      BY <2>1, <2>2, <3>2, <3>3, <3>4, <3>5 DEF KnownIds
    <3>8. RunsAreMarked'
      BY <3>1, <3>2, <3>4, <3>5 DEF RunsAreMarked
    <3>9. DueIsIdle'
      <4>1. due'[id] = None
        BY <1>0, <2>1 DEF TypeOK
      <4> QED
        BY <2>2, <3>4, <3>5, <4>1 DEF DueIsIdle
    <3>10. OneRunEach'
      BY <3>4, <3>5 DEF OneRunEach
    <3> QED
      BY <3>6, <3>7, <3>8, <3>9, <3>10
  <2>5. \/ UNCHANGED <<memory, runs>>
        \/ /\ jobs[id] # NoJob
           /\ jobs' = [jobs EXCEPT ![id].running = TRUE]
           /\ (Persist /\ Spawn(id, TRUE)) \/ (PersistFails /\ UNCHANGED runs)
    <3>1. CASE jobs[id] = NoJob
      BY <1>7, <3>1 DEF FireNext
    <3>2. CASE jobs[id] # NoJob
      BY <1>7, <3>2, Zenon DEF FireNext
    <3> QED
      BY <3>1, <3>2, Zenon
  <2> QED
    BY <2>3, <2>4, <2>5
<1>8. ASSUME NEW q \in RunIds, NEW outcome \in Outcomes, Finish(q, outcome)
      PROVE  RunsInv'
  <2> DEFINE id == runs[q].job
  <2>1. /\ id \in JobIds
        /\ \/ jobs[id] = NoJob /\ UNCHANGED <<memory, saveFails>>
           \/ Remove(id) \/ KeepOnFailure
           \/ jobs[id] # NoJob /\ (\E job \in Job : Update(id, job))
    BY <1>0, <1>8, FinishEffect, Zenon
  <2>2. \A r \in Active' : r \in Active /\ r # q /\ runs'[r] = runs[r]
    BY <1>0, <1>8 DEF Finish, Active, TypeOK
  <2>3. q \in Active /\ UNCHANGED due
    BY <1>8 DEF Finish, Active
  <2>4. \A j \in JobIds : fate[j] # "none" => fate'[j] # "none"
    BY <1>0, <1>8 DEF Finish, Answers, TypeOK
  <2>5. \A r \in Active : runs[r].job \in JobIds
    BY <1>0 DEF Active, TypeOK, Run
  <2>6. \A r \in Active' : runs[r].job # id
    BY <2>2, <2>3 DEF OneRunEach
  <2> HIDE DEF id
  <2>7. \A j \in JobIds :
          /\ j # id => jobs'[j] = jobs[j]
          /\ jobs'[j] # NoJob => jobs[j] # NoJob
          /\ disk'[j] = jobs'[j] \/ disk'[j] = disk[j]
    <3>1. CASE UNCHANGED <<memory, saveFails>> \/ Remove(id) \/ KeepOnFailure
      BY <1>0, <2>1, <3>1
      DEF Remove, KeepOnFailure, Persist, PersistFails, TypeOK, JobMap
    <3>2. CASE jobs[id] # NoJob /\ (\E job \in Job : Update(id, job))
      BY <1>0, <2>1, <3>2
      DEF Update, Persist, PersistFails, TypeOK, JobMap
    <3> QED
      BY <2>1, <3>1, <3>2
  <2>8. KnownIds'
    BY <2>2, <2>3, <2>4, <2>5, <2>7 DEF KnownIds
  <2>9. RunsAreMarked'
    BY <2>2, <2>5, <2>6, <2>7 DEF RunsAreMarked
  <2> QED
    BY <2>2, <2>3, <2>8, <2>9 DEF OnlyTimerRuns, DueIsIdle, OneRunEach
<1>9. CASE Load \/ Recompute
  <2>1. Active = {} /\ Active' = {} /\ UNCHANGED <<due, fate>>
    BY <1>0, <1>9 DEF Load, Recompute, IdleUnlessServing, Serving, Active
  <2>2. \A j \in JobIds :
          /\ jobs'[j] # NoJob => jobs[j] # NoJob \/ disk[j] # NoJob
          /\ disk'[j] = jobs'[j] \/ disk'[j] = disk[j]
    BY <1>9 DEF Load, Recompute, Persist, PersistFails
  <2>3. KnownIds'
    BY <2>1, <2>2 DEF KnownIds
  <2> QED
    BY <2>1, <2>3 DEF OnlyTimerRuns, RunsAreMarked, DueIsIdle, OneRunEach
<1>10. CASE Die
  <2>1. Active' = {} /\ \A j \in JobIds : jobs'[j] = NoJob /\ due'[j] = None
    BY <1>10 DEF Die, Active
  <2>2. UNCHANGED <<disk, fate>>
    BY <1>10 DEF Die
  <2> QED
    BY <2>1, <2>2
    DEF OnlyTimerRuns, KnownIds, RunsAreMarked, DueIsIdle, OneRunEach
<1>11. CASE TickEnd \/ Shutdown \/ LoopExit \/ Clock \/ UNCHANGED vars
  BY <1>1, <1>11 DEF TickEnd, Shutdown, LoopExit, Clock, vars
<1> QED
  BY <1>2, <1>3, <1>4, <1>5, <1>6, <1>7, <1>8, <1>9, <1>10, <1>11
  DEF Next, Call, TimerLoop, EndRun, Lifecycle, Stopped, Crash

(* Marking a job before its goroutine starts is enough to prevent a double *)
(* fire as long as nobody triggers jobs by hand or reuses an id.           *)
THEOREM TimerNeverDoubleFires ==
  ASSUME MaxManual = 0, NamedIds = {}
  PROVE  Spec => []NoDoubleFire
<1>1. Init => StoreInv /\ RunsInv
  BY StoreInvInit, RunsInit
<1>2. StoreInv /\ RunsInv /\ [Next]_vars => (StoreInv /\ RunsInv)'
  BY StoreInvNext, RunsNext
<1>3. RunsInv => NoDoubleFire
  BY DEF RunsInv, OneRunEach, NoDoubleFire
<1> QED
  BY <1>1, <1>2, <1>3, PTL DEF Spec

-----------------------------------------------------------------------------
(* The ledger.                                                             *)

(* A withdrawn job is off the disk: its file entry went first.             *)
WithdrawnIsGone ==
  \A j \in JobIds : fate[j] = "withdrawn" => disk[j] = NoJob

LedgerInv == StoreInv /\ RunsInv /\ AcceptedJobKept /\ WithdrawnIsGone

Busy(j) == \E r \in RunIds : runs[r] # NoRun /\ runs[r].job = j

(* What a step of the daemon is for the ledger: nothing, or one change at  *)
(* one job.                                                                *)
SameKeys == \A j \in JobIds : disk'[j] = NoJob <=> disk[j] = NoJob
SameRuns == \A j \in JobIds : Busy(j)' <=> Busy(j)

KeysBut(id) == \A j \in JobIds \ {id} : disk'[j] = NoJob <=> disk[j] = NoJob
RunsBut(id) == \A j \in JobIds \ {id} : Busy(j)' <=> Busy(j)

LEMMA PointUpdate ==
  ASSUME NEW S, NEW F(_), NEW G(_), NEW i \in S, NEW v, G(i) = v,
         \A j \in S \ {i} : G(j) = F(j)
  PROVE  [j \in S |-> G(j)] = [[j \in S |-> F(j)] EXCEPT ![i] = v]
OBVIOUS

(* With one run of the timer per job, the phase is what the disk and the   *)
(* run say.                                                                *)
PhaseOnDisk ==
  \A j \in JobIds :
    Phase(j) = IF disk[j] = NoJob THEN "absent"
               ELSE IF Busy(j) THEN "running" ELSE "waiting"

LEMMA PhaseIs == RunsInv => PhaseOnDisk
<1> SUFFICES ASSUME RunsInv, NEW j \in JobIds
             PROVE  Phase(j) = IF disk[j] = NoJob THEN "absent"
                               ELSE IF Busy(j) THEN "running" ELSE "waiting"
  BY DEF PhaseOnDisk
<1>1. TimerRunsOf(j) = {r \in RunIds : runs[r] # NoRun /\ runs[r].job = j}
  BY DEF RunsInv, OnlyTimerRuns, TimerRunsOf, Active
<1>2. CASE ~Busy(j)
  BY <1>1, <1>2 DEF Phase, Busy
<1>3. CASE Busy(j)
  <2>1. PICK r \in RunIds : runs[r] # NoRun /\ runs[r].job = j
    BY <1>3 DEF Busy
  <2>2. TimerRunsOf(j) = {r}
    BY <1>1, <2>1 DEF RunsInv, OneRunEach, Active
  <2> QED
    BY <1>3, <2>1, <2>2 DEF Phase
<1> QED
  BY <1>2, <1>3

LEMMA PhaseIsNext == RunsInv' => PhaseOnDisk'
BY PhaseIs, PTL

LEMMA LedgerStutter ==
  ASSUME RunsInv, RunsInv', UNCHANGED fate, SameKeys,
         \A j \in JobIds : disk[j] # NoJob => (Busy(j)' <=> Busy(j))
  PROVE  UNCHANGED Ledger!ledger
<1>1. \A j \in JobIds : Phase(j)' = Phase(j)
  BY PhaseIs, PhaseIsNext DEF PhaseOnDisk, SameKeys
<1> QED
  BY <1>1 DEF Ledger!ledger

LEMMA LedgerAccept ==
  ASSUME RunsInv, RunsInv', NEW id \in JobIds, KeysBut(id), SameRuns,
         fate[id] = "none", fate' = [fate EXCEPT ![id] = "open"],
         disk'[id] # NoJob, ~Busy(id)
  PROVE  Ledger!Accept(id)
<1>1. Phase(id)' = "waiting" /\ \A j \in JobIds \ {id} : Phase(j)' = Phase(j)
  BY PhaseIs, PhaseIsNext DEF PhaseOnDisk, KeysBut, SameRuns
<1> QED
  BY <1>1 DEF Ledger!Accept

LEMMA LedgerWithdraw ==
  ASSUME RunsInv, RunsInv', NEW id \in JobIds, KeysBut(id), SameRuns,
         fate' = [fate EXCEPT ![id] = "withdrawn"],
         disk[id] # NoJob, disk'[id] = NoJob
  PROVE  Ledger!Withdraw(id)
<1>1. /\ Phase(id)' = "absent" /\ Phase(id) # "absent"
      /\ \A j \in JobIds \ {id} : Phase(j)' = Phase(j)
  BY PhaseIs, PhaseIsNext DEF PhaseOnDisk, KeysBut, SameRuns
<1> QED
  BY <1>1 DEF Ledger!Withdraw

LEMMA LedgerStart ==
  ASSUME RunsInv, RunsInv', NEW id \in JobIds, SameKeys, RunsBut(id),
         UNCHANGED fate, disk[id] # NoJob, ~Busy(id), Busy(id)'
  PROVE  Ledger!Start(id)
<1>1. /\ Phase(id)' = "running" /\ Phase(id) = "waiting"
      /\ \A j \in JobIds \ {id} : Phase(j)' = Phase(j)
  BY PhaseIs, PhaseIsNext DEF PhaseOnDisk, SameKeys, RunsBut
<1> QED
  BY <1>1 DEF Ledger!Start

LEMMA LedgerFail ==
  ASSUME RunsInv, RunsInv', NEW id \in JobIds, SameKeys, RunsBut(id),
         UNCHANGED fate, disk[id] # NoJob, Busy(id), ~Busy(id)'
  PROVE  Ledger!Fail(id)
<1>1. /\ Phase(id)' = "waiting" /\ Phase(id) = "running"
      /\ \A j \in JobIds \ {id} : Phase(j)' = Phase(j)
  BY PhaseIs, PhaseIsNext DEF PhaseOnDisk, SameKeys, RunsBut
<1> QED
  BY <1>1 DEF Ledger!Fail

LEMMA LedgerAnswer ==
  ASSUME RunsInv, RunsInv', NEW id \in JobIds, KeysBut(id), RunsBut(id),
         fate' = [fate EXCEPT ![id] = "answered"],
         disk[id] # NoJob, Busy(id), ~Busy(id)'
  PROVE  Ledger!Answer(id)
<1>1. /\ Phase(id)' \in {"waiting", "absent"} /\ Phase(id) = "running"
      /\ \A j \in JobIds \ {id} : Phase(j)' = Phase(j)
  BY PhaseIs, PhaseIsNext DEF PhaseOnDisk, KeysBut, RunsBut
<1> QED
  BY <1>1 DEF Ledger!Answer

LEMMA LedgerInterrupt ==
  ASSUME RunsInv, RunsInv', SameKeys, UNCHANGED fate,
         \A j \in JobIds : ~Busy(j)'
  PROVE  Ledger!Interrupt
<1>1. \A j \in JobIds :
        Phase(j)' = IF Phase(j) = "running" THEN "waiting" ELSE Phase(j)
  BY PhaseIs, PhaseIsNext DEF PhaseOnDisk, SameKeys
<1> QED
  BY <1>1 DEF Ledger!Interrupt

-----------------------------------------------------------------------------
(* Only Add and Remove change which jobs are in jobs.json.                 *)

LEMMA KeptKeys ==
  ASSUME StoreInv, daemon # "down", Persist \/ PersistFails,
         Stored(jobs') = Stored(jobs)
  PROVE  SameKeys
BY DEF StoreInv, SameJobsOnDisk, Persist, PersistFails, Stored, SameKeys

LEMMA UpdatedKeys ==
  ASSUME StoreInv, daemon # "down", NEW id \in JobIds, jobs[id] # NoJob,
         NEW job \in Job, Update(id, job)
  PROVE  SameKeys
BY KeptKeys, UpdateKeepsKeys DEF Update, StoreInv

LEMMA RemovedKeys ==
  ASSUME StoreInv, daemon # "down", NEW id \in JobIds, Remove(id)
  PROVE  KeysBut(id) /\ disk'[id] = NoJob
BY DEF StoreInv, TypeOK, JobMap, SameJobsOnDisk, Stored, Remove, Persist, KeysBut

LEMMA FiredKeys ==
  ASSUME StoreInv, NEW id \in JobIds, FireNext(id)
  PROVE  SameKeys
<1>1. daemon # "down" /\ TypeOK
  BY DEF StoreInv, IdleUnlessServing, FireNext, Serving
<1>2. CASE jobs[id] = NoJob
  BY <1>2 DEF FireNext, memory, SameKeys
<1>3. CASE jobs[id] # NoJob
  BY <1>1, <1>3, FireEffect, UpdatedKeys
<1> QED
  BY <1>2, <1>3

LEMMA FinishedKeys ==
  ASSUME StoreInv, NEW r \in RunIds, NEW outcome, Finish(r, outcome)
  PROVE  \E id \in JobIds :
           /\ id = runs[r].job
           /\ \/ SameKeys
              \/ /\ outcome # "error" /\ disk[id] # NoJob
                 /\ KeysBut(id) /\ disk'[id] = NoJob
<1>1. daemon # "down" /\ TypeOK
  BY DEF StoreInv, IdleUnlessServing, Finish, Serving, Active
<1>2. PICK id \in JobIds :
        /\ id = runs[r].job
        /\ \/ jobs[id] = NoJob /\ UNCHANGED <<memory, saveFails>>
           \/ /\ jobs[id] # NoJob
              /\ \/ Remove(id) /\ outcome # "error"
                 \/ KeepOnFailure
                 \/ \E job \in Job : Update(id, job)
  BY <1>1, FinishEffect, Zenon
<1>3. CASE UNCHANGED <<memory, saveFails>> \/ KeepOnFailure
  BY <1>2, <1>3 DEF memory, KeepOnFailure, PersistFails, SameKeys
<1>4. CASE jobs[id] # NoJob /\ Remove(id) /\ outcome # "error"
  <2>1. disk[id] # NoJob
    BY <1>1, <1>2, <1>4 DEF StoreInv, SameJobsOnDisk, Stored
  <2> QED
    BY <1>1, <1>2, <1>4, <2>1, RemovedKeys
<1>5. CASE jobs[id] # NoJob /\ (\E job \in Job : Update(id, job))
  BY <1>1, <1>2, <1>5, UpdatedKeys
<1> QED
  BY <1>2, <1>3, <1>4, <1>5

LEMMA StartedKeys ==
  ASSUME StoreInv, Load \/ Recompute
  PROVE  SameKeys
<1>0. TypeOK
  BY DEF StoreInv
<1>1. CASE Load
  <2>1. ASSUME NEW j \in JobIds, disk[j] # NoJob
        PROVE  [disk[j] EXCEPT !.running = FALSE] # NoJob
    BY <1>0, <2>1, AbsentAssumption DEF TypeOK, JobMap, Job
  <2>2. \A j \in JobIds : jobs'[j] = NoJob <=> disk[j] = NoJob
    BY <1>1, <2>1 DEF Load
  <2>3. disk' = jobs' \/ disk' = disk
    BY <1>1 DEF Load, Persist, PersistFails
  <2> QED
    BY <2>2, <2>3 DEF SameKeys
<1>2. CASE Recompute
  <2>1. ASSUME NEW j \in JobIds, jobs[j] # NoJob
        PROVE  Recomputed(jobs[j]) # NoJob
    BY <1>0, <2>1, RecomputedType, AbsentAssumption DEF TypeOK, JobMap
  <2>2. Stored(jobs') = Stored(jobs)
    BY <1>2, <2>1 DEF Recompute, Stored
  <2> QED
    BY <1>2, <2>2, KeptKeys DEF Recompute
<1> QED
  BY <1>1, <1>2

LEMMA QuietKeys ==
  ASSUME \/ \E id \in JobIds : RunImmediate(id)
         \/ TickStart \/ TickEnd \/ Shutdown \/ LoopExit \/ Clock
         \/ Die \/ UNCHANGED vars
  PROVE  SameKeys
BY DEF RunImmediate, TickStart, TickEnd, Shutdown, LoopExit, Clock, Die, vars,
       memory, SameKeys

-----------------------------------------------------------------------------
LEMMA WithdrawnNext ==
  StoreInv /\ RunsInv /\ WithdrawnIsGone /\ [Next]_vars => WithdrawnIsGone'
<1> SUFFICES ASSUME StoreInv, RunsInv, WithdrawnIsGone, [Next]_vars,
                    NEW j \in JobIds, fate'[j] = "withdrawn"
             PROVE  disk'[j] = NoJob
  BY DEF WithdrawnIsGone
<1> USE DEF memory, loop
<1>0. TypeOK /\ IdleUnlessServing
  BY DEF StoreInv
<1>1. ASSUME NEW id \in JobIds, NEW s \in Schedules, NEW dar \in BOOLEAN,
             AddJob(id, s, dar)
      PROVE  disk'[j] = NoJob
  <2>1. daemon # "down"
    BY <1>1 DEF AddJob, Serving
  <2>2. CASE KeepOnFailure /\ UNCHANGED fate
    BY <2>2 DEF KeepOnFailure, PersistFails, WithdrawnIsGone
  <2>3. CASE /\ jobs' = [jobs EXCEPT ![id] = NewJob(s, dar)]
             /\ Persist /\ fate' = [fate EXCEPT ![id] = "open"]
    <3>1. j # id /\ fate[j] = "withdrawn"
      BY <1>0, <2>3 DEF TypeOK
    <3>2. jobs[j] = NoJob
      BY <2>1, <3>1 DEF WithdrawnIsGone, StoreInv, SameJobsOnDisk, Stored
    <3> QED
      BY <1>0, <2>3, <3>1, <3>2 DEF Persist, TypeOK, JobMap
  <2> QED
    BY <1>1, <2>2, <2>3 DEF AddJob
<1>2. ASSUME NEW id \in JobIds, RemoveJob(id) PROVE disk'[j] = NoJob
  <2>1. daemon # "down"
    BY <1>2 DEF RemoveJob, Serving
  <2>2. CASE KeepOnFailure /\ UNCHANGED fate
    BY <2>2 DEF KeepOnFailure, PersistFails, WithdrawnIsGone
  <2>3. CASE Remove(id) /\ fate' = [fate EXCEPT ![id] = "withdrawn"]
    <3>1. j = id \/ jobs[j] = NoJob
      BY <1>0, <2>1, <2>3
      DEF TypeOK, WithdrawnIsGone, StoreInv, SameJobsOnDisk, Stored
    <3> QED
      BY <1>0, <2>3, <3>1 DEF Remove, Persist, TypeOK, JobMap
  <2> QED
    BY <1>2, <2>2, <2>3 DEF RemoveJob
<1>3. ASSUME NEW id \in JobIds, NEW s \in Schedules, Reschedule(id, s)
      PROVE  disk'[j] = NoJob
  <2>1. daemon # "down" /\ UNCHANGED fate
    BY <1>3 DEF Reschedule, Serving
  <2> QED
    BY <1>0, <1>3, <2>1, RescheduleEffect, UpdatedKeys
    DEF SameKeys, WithdrawnIsGone
<1>4. ASSUME NEW id \in JobIds, FireNext(id) PROVE disk'[j] = NoJob
  BY <1>4, FiredKeys DEF FireNext, SameKeys, WithdrawnIsGone
<1>5. ASSUME NEW r \in RunIds, NEW outcome \in Outcomes, Finish(r, outcome)
      PROVE  disk'[j] = NoJob
  <2>1. disk[j] = NoJob
    BY <1>0, <1>5 DEF Finish, Answers, TypeOK, WithdrawnIsGone
  <2> QED
    BY <1>5, <2>1, FinishedKeys DEF SameKeys, KeysBut
<1>6. CASE Load \/ Recompute
  BY <1>6, StartedKeys DEF Load, Recompute, SameKeys, WithdrawnIsGone
<1>7. CASE \/ \E id \in JobIds : RunImmediate(id)
           \/ TickStart \/ TickEnd \/ Shutdown \/ LoopExit \/ Clock
           \/ Die \/ UNCHANGED vars
  <2>1. UNCHANGED fate
    BY <1>7 DEF RunImmediate, TickStart, TickEnd, Shutdown, LoopExit, Clock, Die,
                vars
  <2> QED
    BY <1>7, <2>1, QuietKeys DEF SameKeys, WithdrawnIsGone
<1> QED
  BY <1>1, <1>2, <1>3, <1>4, <1>5, <1>6, <1>7
  DEF Next, Call, TimerLoop, EndRun, Lifecycle, Stopped, Crash

-----------------------------------------------------------------------------
(* Every step is a step of the ledger or nothing to it.                    *)
LEMMA LedgerStep ==
  ASSUME MaxManual = 0, NamedIds = {}, ~Cancels,
         LedgerInv, LedgerInv', [Next]_vars
  PROVE  [Ledger!Next]_(Ledger!ledger)
<1> USE DEF memory, loop
<1>0. TypeOK /\ IdleUnlessServing /\ RunsInv /\ RunsInv' /\ StoreInv
  BY DEF LedgerInv, StoreInv
<1>1. UNCHANGED runs => SameRuns
  BY DEF SameRuns, Busy
<1>2. ASSUME SameKeys, UNCHANGED <<runs, fate>> PROVE UNCHANGED Ledger!ledger
  BY <1>0, <1>1, <1>2, LedgerStutter DEF SameRuns
<1>3. ASSUME NEW id \in JobIds, NEW s \in Schedules, NEW dar \in BOOLEAN,
             AddJob(id, s, dar)
      PROVE  [Ledger!Next]_(Ledger!ledger)
  <2>1. daemon # "down" /\ UNCHANGED runs /\ fate[id] = "none"
    BY <1>3 DEF AddJob, Serving
  <2>2. CASE KeepOnFailure /\ UNCHANGED fate
    <3>1. SameKeys
      BY <2>2 DEF KeepOnFailure, PersistFails, SameKeys
    <3> QED
      BY <1>2, <2>1, <2>2, <3>1
  <2>3. CASE /\ jobs' = [jobs EXCEPT ![id] = NewJob(s, dar)]
             /\ Persist /\ fate' = [fate EXCEPT ![id] = "open"]
    <3>1. NewJob(s, dar) # NoJob
      BY <1>0, <1>3, NewJobType, SchedulerAssumption, AbsentAssumption
      DEF AddJob, TypeOK
    <3>2. KeysBut(id) /\ disk'[id] # NoJob
      BY <1>0, <2>1, <2>3, <3>1
      DEF Persist, KeysBut, TypeOK, JobMap, StoreInv, SameJobsOnDisk, Stored
    <3>3. ~Busy(id)
      BY <1>0, <2>1 DEF Busy, RunsInv, KnownIds, Active
    <3>4. Ledger!Accept(id)
      BY <1>0, <1>1, <2>1, <2>3, <3>2, <3>3, LedgerAccept
    <3> QED
      BY <3>4 DEF Ledger!Next
  <2> QED
    BY <1>3, <2>2, <2>3 DEF AddJob
<1>4. ASSUME NEW id \in JobIds, RemoveJob(id)
      PROVE  [Ledger!Next]_(Ledger!ledger)
  <2>1. daemon # "down" /\ UNCHANGED runs /\ jobs[id] # NoJob
    BY <1>4 DEF RemoveJob, Serving
  <2>2. CASE KeepOnFailure /\ UNCHANGED fate
    <3>1. SameKeys
      BY <2>2 DEF KeepOnFailure, PersistFails, SameKeys
    <3> QED
      BY <1>2, <2>1, <2>2, <3>1
  <2>3. CASE Remove(id) /\ fate' = [fate EXCEPT ![id] = "withdrawn"]
    <3>1. disk[id] # NoJob
      BY <1>0, <2>1 DEF StoreInv, SameJobsOnDisk, Stored
    <3>2. Ledger!Withdraw(id)
      BY <1>0, <1>1, <2>1, <2>3, <3>1, RemovedKeys, LedgerWithdraw
    <3> QED
      BY <3>2 DEF Ledger!Next
  <2> QED
    BY <1>4, <2>2, <2>3 DEF RemoveJob
<1>5. ASSUME NEW id \in JobIds, NEW s \in Schedules, Reschedule(id, s)
      PROVE  FALSE
  BY <1>5 DEF Reschedule
<1>6. ASSUME NEW id \in JobIds, RunImmediate(id) PROVE FALSE
  BY <1>0, <1>6 DEF RunImmediate, Spend, Limit, TypeOK, Cost
<1>7. ASSUME NEW id \in JobIds, FireNext(id)
      PROVE  [Ledger!Next]_(Ledger!ledger)
  <2>1. SameKeys /\ UNCHANGED fate /\ due[id] # None
    BY <1>0, <1>7, FiredKeys DEF FireNext
  <2>2. CASE UNCHANGED runs
    BY <1>2, <2>1, <2>2
  <2>3. CASE jobs[id] # NoJob /\ Spawn(id, TRUE)
    <3>1. PICK r \in RunIds :
            /\ runs[r] = NoRun
            /\ runs' = [runs EXCEPT ![r] = [job |-> id, dar |-> jobs[id].dar,
                                            timer |-> TRUE]]
      BY <2>3 DEF Spawn
    <3>2. runs'[r] # NoRun /\ runs'[r].job = id
      <4>1. runs'[r] \in Run /\ runs'[r].job = id
        BY <1>0, <2>3, <3>1 DEF TypeOK, JobMap, Job, Run
      <4> QED
        BY <4>1, AbsentAssumption
    <3>3. RunsBut(id) /\ Busy(id)'
      BY <1>0, <3>1, <3>2 DEF RunsBut, Busy, TypeOK
    <3>4. ~Busy(id)
      BY <1>0, <2>1 DEF RunsInv, DueIsIdle, Busy, Active
    <3>5. disk[id] # NoJob
      BY <1>0, <1>7, <2>3
      DEF StoreInv, SameJobsOnDisk, Stored, FireNext, Serving, IdleUnlessServing
    <3>6. Ledger!Start(id)
      BY <1>0, <2>1, <3>3, <3>4, <3>5, LedgerStart
    <3> QED
      BY <3>6 DEF Ledger!Next
  <2>4. UNCHANGED runs \/ (jobs[id] # NoJob /\ Spawn(id, TRUE))
    BY <1>7 DEF FireNext
  <2> QED
    BY <2>2, <2>3, <2>4
<1>8. ASSUME NEW r \in RunIds, NEW outcome \in Outcomes, Finish(r, outcome)
      PROVE  [Ledger!Next]_(Ledger!ledger)
  <2>1. PICK id \in JobIds :
          /\ id = runs[r].job
          /\ \/ SameKeys
             \/ /\ outcome # "error" /\ disk[id] # NoJob
                /\ KeysBut(id) /\ disk'[id] = NoJob
    BY <1>0, <1>8, FinishedKeys
  <2>2. /\ fate' = [fate EXCEPT ![id] =
                      IF outcome = "ok" /\ @ = "open" THEN "answered" ELSE @]
        /\ runs' = [runs EXCEPT ![r] = NoRun] /\ runs[r] # NoRun
    BY <1>8, <2>1 DEF Finish, Answers
  <2>3. Busy(id)
    BY <2>1, <2>2 DEF Busy
  <2>4. ~Busy(id)'
    BY <1>0, <2>1, <2>2 DEF Busy, RunsInv, OneRunEach, Active, TypeOK
  <2>5. RunsBut(id)
    BY <1>0, <2>1, <2>2 DEF Busy, RunsBut, TypeOK
  <2>6. KeysBut(id)
    BY <2>1 DEF SameKeys, KeysBut
  <2>7. outcome \in {"ok", "error"}
    BY DEF Outcomes
  <2>8. CASE disk[id] = NoJob
    <3>1. SameKeys
      BY <2>1, <2>8
    <3>2. UNCHANGED fate
      BY <1>0, <2>1, <2>2, <2>8 DEF LedgerInv, AcceptedJobKept, TypeOK
    <3>3. \A j \in JobIds : disk[j] # NoJob => (Busy(j)' <=> Busy(j))
      BY <2>5, <2>8 DEF RunsBut
    <3> QED
      BY <1>0, <3>1, <3>2, <3>3, LedgerStutter
  <2>9. CASE disk[id] # NoJob /\ outcome = "error"
    <3>1. SameKeys
      BY <2>1, <2>9
    <3>2. UNCHANGED fate
      BY <1>0, <2>1, <2>2, <2>9 DEF TypeOK
    <3>3. Ledger!Fail(id)
      BY <1>0, <2>1, <2>3, <2>4, <2>5, <2>9, <3>1, <3>2, LedgerFail
    <3> QED
      BY <2>1, <3>3 DEF Ledger!Next
  <2>10. CASE disk[id] # NoJob /\ outcome = "ok"
    <3>1. fate[id] \in {"open", "answered"}
      BY <1>0, <2>1, <2>10
      DEF LedgerInv, WithdrawnIsGone, RunsInv, KnownIds, TypeOK, Fate
    <3>2. fate' = [fate EXCEPT ![id] = "answered"]
      BY <1>0, <2>1, <2>2, <2>10, <3>1 DEF TypeOK
    <3>3. Ledger!Answer(id)
      BY <1>0, <2>1, <2>3, <2>4, <2>5, <2>6, <2>10, <3>2, LedgerAnswer
    <3> QED
      BY <2>1, <3>3 DEF Ledger!Next
  <2> QED
    BY <2>7, <2>8, <2>9, <2>10
<1>9. CASE Load \/ Recompute
  <2>1. UNCHANGED <<runs, fate>>
    BY <1>9 DEF Load, Recompute
  <2> QED
    BY <1>0, <1>2, <1>9, <2>1, StartedKeys
<1>10. CASE Die
  <2>1. SameKeys /\ UNCHANGED fate /\ \A j \in JobIds : ~Busy(j)'
    BY <1>10 DEF Die, SameKeys, Busy
  <2>2. Ledger!Interrupt
    BY <1>0, <2>1, LedgerInterrupt
  <2> QED
    BY <2>2 DEF Ledger!Next
<1>11. CASE TickStart \/ TickEnd \/ Shutdown \/ LoopExit \/ Clock \/ UNCHANGED vars
  <2>1. UNCHANGED <<runs, fate>>
    BY <1>11 DEF TickStart, TickEnd, Shutdown, LoopExit, Clock, vars
  <2> QED
    BY <1>2, <1>11, <2>1, QuietKeys
<1> QED
  BY <1>3, <1>4, <1>5, <1>6, <1>7, <1>8, <1>9, <1>10, <1>11
  DEF Next, Call, TimerLoop, EndRun, Lifecycle, Stopped, Crash

LEMMA LedgerInit == Init => Ledger!Init
BY DEF Init, Ledger!Init, Phase

(* Without triggered runs, cancellations and reused ids, the job store and *)
(* the executor implement the ledger: every step is one of the ledger's    *)
(* steps or invisible to it (jobstore.go, jobexec.go).                     *)
THEOREM SchedulerKeepsLedger ==
  ASSUME MaxManual = 0, NamedIds = {}, ~Cancels
  PROVE  Spec => KeepsLedger
<1>1. Init => LedgerInv
  BY StoreInvInit, RunsInit
  DEF Init, LedgerInv, AcceptedJobKept, WithdrawnIsGone
<1>2. LedgerInv /\ [Next]_vars => LedgerInv'
  BY StoreInvNext, RunsNext, KeptNext, WithdrawnNext DEF LedgerInv
<1>3. LedgerInv /\ LedgerInv' /\ [Next]_vars => [Ledger!Next]_(Ledger!ledger)
  BY LedgerStep
<1> QED
  BY <1>1, <1>2, <1>3, LedgerInit, PTL DEF Spec, KeepsLedger, Ledger!Spec

-----------------------------------------------------------------------------
(* What a step may leave under an id, in memory or on disk.                *)
Written(j, job) ==
  \/ job = NoJob \/ job = jobs[j] \/ job = disk[j]
  \/ job \in Job /\ job.sched.kind # "at"
  \/ \E s \in Schedules, dar \in BOOLEAN :
       job = NewJob(s, dar) /\ fate[j] = "none"
  \/ /\ jobs[j] # NoJob
     /\ job \in {[jobs[j] EXCEPT !.running = TRUE], AfterSuccess(jobs[j]),
                 AfterError(jobs[j]), Recomputed(jobs[j])}
  \/ disk[j] # NoJob /\ job = [disk[j] EXCEPT !.running = FALSE]

LEMMA SaveWrites ==
  ASSUME Persist \/ PersistFails, NEW j \in JobIds, Written(j, jobs'[j])
  PROVE  Written(j, disk'[j])
BY DEF Persist, PersistFails, Written

LEMMA UpdateWrites ==
  ASSUME TypeOK, NEW id \in JobIds, NEW job, Update(id, job), Written(id, job),
         NEW j \in JobIds
  PROVE  Written(j, jobs'[j]) /\ Written(j, disk'[j])
<1>1. (jobs'[j] = job /\ j = id) \/ jobs'[j] = jobs[j]
  BY DEF Update, TypeOK, JobMap
<1>2. Written(j, jobs'[j])
  BY <1>1 DEF Written
<1> QED
  BY <1>2, SaveWrites DEF Update

LEMMA RemoveWrites ==
  ASSUME TypeOK, NEW id \in JobIds, Remove(id) \/ KeepOnFailure,
         NEW j \in JobIds
  PROVE  Written(j, jobs'[j]) /\ Written(j, disk'[j])
<1>1. jobs'[j] = NoJob \/ jobs'[j] = jobs[j]
  BY DEF Remove, KeepOnFailure, TypeOK, JobMap
<1>2. Written(j, jobs'[j])
  BY <1>1 DEF Written
<1> QED
  BY <1>2, SaveWrites DEF Remove, KeepOnFailure

LEMMA NothingWrites ==
  ASSUME UNCHANGED memory, NEW j \in JobIds
  PROVE  Written(j, jobs'[j]) /\ Written(j, disk'[j])
BY DEF memory, Written

(* Every step writes only such jobs.                                       *)
LEMMA WhatIsWritten ==
  ASSUME TypeOK, [Next]_vars, NEW j \in JobIds
  PROVE  Written(j, jobs'[j]) /\ Written(j, disk'[j])
<1> USE DEF loop
<1>1. ASSUME NEW id \in JobIds, NEW s \in Schedules, NEW dar \in BOOLEAN,
             AddJob(id, s, dar)
      PROVE  Written(j, jobs'[j]) /\ Written(j, disk'[j])
  <2>1. fate[id] = "none" \/ s.kind # "at"
    BY <1>1 DEF AddJob
  <2>2. NewJob(s, dar) \in Job
    BY <1>1, NewJobType, SchedulerAssumption DEF AddJob, TypeOK
  <2>3. NewJob(s, dar).sched = s
    BY DEF NewJob
  <2>4. Written(id, NewJob(s, dar))
    BY <2>1, <2>2, <2>3 DEF Written
  <2>5. Update(id, NewJob(s, dar)) \/ KeepOnFailure
    BY <1>1 DEF AddJob, Update
  <2> QED
    BY <2>4, <2>5, UpdateWrites, RemoveWrites
<1>2. ASSUME NEW id \in JobIds, RemoveJob(id)
      PROVE  Written(j, jobs'[j]) /\ Written(j, disk'[j])
  BY <1>2, RemoveWrites DEF RemoveJob
<1>3. ASSUME NEW id \in JobIds, NEW s \in Schedules, Reschedule(id, s)
      PROVE  Written(j, jobs'[j]) /\ Written(j, disk'[j])
  <2>1. PICK job \in Job : job.sched.kind # "at" /\ Update(id, job)
    BY <1>3, RescheduleEffect
  <2>2. Written(id, job)
    BY <2>1 DEF Written
  <2> QED
    BY <2>1, <2>2, UpdateWrites
<1>4. ASSUME NEW id \in JobIds, FireNext(id)
      PROVE  Written(j, jobs'[j]) /\ Written(j, disk'[j])
  <2>1. CASE jobs[id] = NoJob
    BY <1>4, <2>1, NothingWrites DEF FireNext
  <2>2. CASE jobs[id] # NoJob
    <3>1. Update(id, [jobs[id] EXCEPT !.running = TRUE])
      BY <1>4, <2>2 DEF FireNext, Update
    <3>2. Written(id, [jobs[id] EXCEPT !.running = TRUE])
      BY <2>2 DEF Written
    <3> QED
      BY <3>1, <3>2, UpdateWrites
  <2> QED
    BY <2>1, <2>2
<1>5. ASSUME NEW r \in RunIds, NEW outcome \in Outcomes, Finish(r, outcome)
      PROVE  Written(j, jobs'[j]) /\ Written(j, disk'[j])
  <2>1. PICK id \in JobIds : id = runs[r].job
    BY <1>5 DEF Finish, TypeOK, Run
  <2>2. \/ UNCHANGED memory
        \/ Remove(id) \/ KeepOnFailure
        \/ jobs[id] # NoJob /\ Update(id, AfterSuccess(jobs[id]))
        \/ jobs[id] # NoJob /\ Update(id, AfterError(jobs[id]))
    BY <1>5, <2>1 DEF Finish, ApplySuccess, ApplyError
  <2>3. jobs[id] # NoJob =>
          Written(id, AfterSuccess(jobs[id])) /\ Written(id, AfterError(jobs[id]))
    BY DEF Written
  <2> QED
    BY <2>2, <2>3, UpdateWrites, RemoveWrites, NothingWrites
<1>6. CASE Load
  <2>1. Written(j, jobs'[j])
    BY <1>6 DEF Load, Written
  <2> QED
    BY <1>6, <2>1, SaveWrites DEF Load
<1>7. CASE Recompute
  <2>1. Written(j, jobs'[j])
    BY <1>7 DEF Recompute, Written
  <2> QED
    BY <1>7, <2>1, SaveWrites DEF Recompute
<1>8. CASE Die
  BY <1>8 DEF Die, Written
<1>9. CASE \/ \E id \in JobIds : RunImmediate(id)
           \/ TickStart \/ TickEnd \/ Shutdown \/ LoopExit \/ Clock
           \/ UNCHANGED vars
  <2>1. UNCHANGED memory
    BY <1>9 DEF RunImmediate, TickStart, TickEnd, Shutdown, LoopExit, Clock,
                vars, memory
  <2> QED
    BY <2>1, NothingWrites
<1> QED
  BY <1>1, <1>2, <1>3, <1>4, <1>5, <1>6, <1>7, <1>8, <1>9
  DEF Next, Call, TimerLoop, EndRun, Lifecycle, Stopped, Crash

-----------------------------------------------------------------------------
(* Backoff.                                                                *)

(* OneShotBacksOff for one record.                                         *)
BacksOff(job) ==
  job.sched.kind = "at" /\ job.enabled /\ job.errs > 0 =>
    /\ job.errs <= MaxRetries
    /\ job.last \in Nat /\ job.next = job.last + Backoff[job.errs]

BackoffInv ==
  \A j \in JobIds : /\ jobs[j] # NoJob => BacksOff(jobs[j])
                    /\ disk[j] # NoJob => BacksOff(disk[j])

LEMMA ErrorBacksOff ==
  ASSUME now \in Nat, NEW job \in Job
  PROVE  BacksOff(AfterError(job))
<1> DEFINE errs   == OneMoreError(job.errs)
           failed == [job EXCEPT !.running = FALSE, !.last = now, !.errs = errs]
<1>1. CASE job.sched.kind = "at" /\ errs <= MaxRetries
  <2>1. AfterError(job) = [failed EXCEPT !.next = now + Backoff[errs]]
    BY <1>1 DEF AfterError
  <2>2. /\ AfterError(job).errs = errs /\ AfterError(job).last = now
        /\ AfterError(job).next = now + Backoff[errs]
    BY <2>1 DEF Job
  <2> QED
    BY <1>1, <2>2 DEF BacksOff
<1>2. CASE job.sched.kind = "at" /\ ~(errs <= MaxRetries)
  <2>1. AfterError(job) = [failed EXCEPT !.enabled = FALSE, !.next = None]
    BY <1>2 DEF AfterError
  <2>2. ~AfterError(job).enabled
    BY <2>1 DEF Job
  <2> QED
    BY <2>2 DEF BacksOff
<1>3. CASE job.sched.kind # "at"
  <2>1. AfterError(job).sched = job.sched
    BY DEF AfterError, Job
  <2> QED
    BY <1>3, <2>1 DEF BacksOff
<1> QED
  BY <1>1, <1>2, <1>3

LEMMA SuccessBacksOff ==
  ASSUME NEW job \in Job
  PROVE  BacksOff(AfterSuccess(job))
<1>1. AfterSuccess(job).errs = 0
  BY DEF AfterSuccess, Job
<1> QED
  BY <1>1 DEF BacksOff

LEMMA RecomputedBacksOff ==
  ASSUME NEW job \in Job, BacksOff(job)
  PROVE  BacksOff(Recomputed(job))
<1>1. CASE job.sched.kind = "at" /\ job.enabled /\ job.errs > 0
  <2>1. job.errs \in 1 .. MaxRetries
    BY <1>1, RetriesType DEF BacksOff, Job
  <2>2. job.next # None
    BY <1>1, <2>1, BackoffType, ScheduleAssumption DEF BacksOff
  <2>3. Recomputed(job) = job
    BY <1>1, <2>2 DEF Recomputed
  <2> QED
    BY <2>3
<1>2. CASE ~(job.sched.kind = "at" /\ job.enabled /\ job.errs > 0)
  <2>1. /\ Recomputed(job).sched = job.sched /\ Recomputed(job).errs = job.errs
        /\ Recomputed(job).enabled = job.enabled
    BY DEF Recomputed, Job
  <2> QED
    BY <1>2, <2>1 DEF BacksOff
<1> QED
  BY <1>1, <1>2

LEMMA ClearedBacksOff ==
  ASSUME NEW job \in Job, NEW b \in BOOLEAN, BacksOff(job)
  PROVE  BacksOff([job EXCEPT !.running = b])
BY DEF BacksOff, Job

LEMMA NewBacksOff ==
  ASSUME NEW s, NEW dar PROVE BacksOff(NewJob(s, dar))
BY DEF BacksOff, NewJob

LEMMA WrittenBacksOff ==
  ASSUME TypeOK, BackoffInv, NEW j \in JobIds, NEW job, Written(j, job),
         job # NoJob
  PROVE  BacksOff(job)
<1>1. /\ jobs[j] # NoJob => jobs[j] \in Job /\ BacksOff(jobs[j])
      /\ disk[j] # NoJob => disk[j] \in Job /\ BacksOff(disk[j])
  BY DEF TypeOK, JobMap, BackoffInv
<1>2. CASE job = jobs[j] \/ job = disk[j]
  BY <1>1, <1>2
<1>3. CASE job \in Job /\ job.sched.kind # "at"
  BY <1>3 DEF BacksOff
<1>4. CASE \E s \in Schedules, dar \in BOOLEAN :
             job = NewJob(s, dar) /\ fate[j] = "none"
  BY <1>4, NewBacksOff
<1>5. CASE /\ jobs[j] # NoJob
           /\ job \in {[jobs[j] EXCEPT !.running = TRUE], AfterSuccess(jobs[j]),
                       AfterError(jobs[j]), Recomputed(jobs[j])}
  BY <1>1, <1>5, ClearedBacksOff, SuccessBacksOff, ErrorBacksOff,
     RecomputedBacksOff DEF TypeOK
<1>6. CASE disk[j] # NoJob /\ job = [disk[j] EXCEPT !.running = FALSE]
  BY <1>1, <1>6, ClearedBacksOff
<1> QED
  BY <1>2, <1>3, <1>4, <1>5, <1>6 DEF Written

LEMMA BackoffInit == Init => BackoffInv
BY DEF Init, BackoffInv

LEMMA BackoffNext == TypeOK /\ BackoffInv /\ [Next]_vars => BackoffInv'
<1> SUFFICES ASSUME TypeOK, BackoffInv, [Next]_vars, NEW j \in JobIds
             PROVE  /\ jobs'[j] # NoJob => BacksOff(jobs'[j])
                    /\ disk'[j] # NoJob => BacksOff(disk'[j])
  BY DEF BackoffInv, BacksOff
<1> QED
  BY WhatIsWritten, WrittenBacksOff

(* A one-shot waits the backoff of its errors, in the memory of the daemon *)
(* and in the jobs.json the next one loads, whatever saves fail and        *)
(* whatever the schedules, backoffs and bounds are.                        *)
THEOREM OneShotsWaitTheirBackoff == Spec => []OneShotBacksOff
<1>1. Init => TypeOK /\ BackoffInv
  BY InitType, BackoffInit
<1>2. TypeOK /\ BackoffInv /\ [Next]_vars => (TypeOK /\ BackoffInv)'
  BY NextType, BackoffNext
<1>3. BackoffInv => OneShotBacksOff
  BY DEF BackoffInv, BacksOff, OneShotBacksOff, Stored
<1> QED
  BY <1>1, <1>2, <1>3, PTL DEF Spec

-----------------------------------------------------------------------------
(* The batch of due jobs.                                                  *)

(* A job of the batch that is still stored is still due.                   *)
BatchInv ==
  \A j \in JobIds :
    due[j] # None =>
      /\ timer = "tick"
      /\ jobs[j] # NoJob =>
           jobs[j].enabled /\ jobs[j].next # None /\ jobs[j].next <= now

LEMMA BatchNext ==
  ASSUME MaxManual = 0, NamedIds = {}
  PROVE  StoreInv /\ RunsInv /\ BatchInv /\ [Next]_vars => BatchInv'
<1> SUFFICES ASSUME StoreInv, RunsInv, BatchInv, [Next]_vars,
                    NEW j \in JobIds, due'[j] # None
             PROVE  /\ timer' = "tick"
                    /\ jobs'[j] # NoJob =>
                         /\ jobs'[j].enabled /\ jobs'[j].next # None
                         /\ jobs'[j].next <= now'
  BY DEF BatchInv
<1> USE DEF memory, loop
<1>0. TypeOK /\ IdleUnlessServing
  BY DEF StoreInv
<1>1. ASSUME due[j] # None, UNCHANGED <<timer, now>>,
             jobs'[j] = NoJob \/ jobs'[j] = jobs[j]
      PROVE  /\ timer' = "tick"
             /\ jobs'[j] # NoJob =>
                  /\ jobs'[j].enabled /\ jobs'[j].next # None
                  /\ jobs'[j].next <= now'
  BY <1>1 DEF BatchInv
<1>2. ASSUME NEW id \in JobIds, NEW s \in Schedules, NEW dar \in BOOLEAN,
             AddJob(id, s, dar)
      PROVE  due[j] # None /\ UNCHANGED <<timer, now>> /\ jobs'[j] = jobs[j]
  <2>1. due[j] # None /\ UNCHANGED <<timer, now>> /\ fate[id] = "none"
    BY <1>2 DEF AddJob
  <2>2. j # id
    BY <2>1 DEF RunsInv, KnownIds
  <2> QED
    BY <1>0, <1>2, <2>1, <2>2 DEF AddJob, KeepOnFailure, TypeOK, JobMap
<1>3. ASSUME NEW id \in JobIds, RemoveJob(id)
      PROVE  /\ due[j] # None /\ UNCHANGED <<timer, now>>
             /\ jobs'[j] = NoJob \/ jobs'[j] = jobs[j]
  BY <1>0, <1>3 DEF RemoveJob, Remove, KeepOnFailure, TypeOK, JobMap
<1>4. ASSUME NEW id \in JobIds, NEW s \in Schedules, Reschedule(id, s)
      PROVE  FALSE
  BY <1>4 DEF Reschedule
<1>5. ASSUME NEW id \in JobIds, RunImmediate(id) PROVE FALSE
  BY <1>0, <1>5 DEF RunImmediate, Spend, Limit, TypeOK, Cost
<1>6. CASE TickStart
  BY <1>0, <1>6 DEF TickStart, IsDue, TypeOK
<1>7. ASSUME NEW id \in JobIds, FireNext(id)
      PROVE  due[j] # None /\ UNCHANGED <<timer, now>> /\ jobs'[j] = jobs[j]
  <2>1. j # id /\ due[j] # None /\ UNCHANGED <<timer, now>>
    BY <1>0, <1>7 DEF FireNext, TypeOK
  <2> QED
    BY <1>0, <1>7, <2>1 DEF FireNext, TypeOK, JobMap
<1>8. CASE TickEnd
  BY <1>8 DEF TickEnd
<1>9. ASSUME NEW r \in RunIds, NEW outcome \in Outcomes, Finish(r, outcome)
      PROVE  due[j] # None /\ UNCHANGED <<timer, now>> /\ jobs'[j] = jobs[j]
  <2>1. PICK id \in JobIds :
          /\ id = runs[r].job
          /\ \/ jobs[id] = NoJob /\ UNCHANGED <<memory, saveFails>>
             \/ Remove(id) \/ KeepOnFailure
             \/ \E job \in Job : Update(id, job)
    BY <1>0, <1>9, FinishEffect, Zenon
  <2>2. due[j] # None /\ UNCHANGED <<timer, now>> /\ r \in Active
    BY <1>9 DEF Finish, Active
  <2>3. j # id
    BY <2>1, <2>2 DEF RunsInv, DueIsIdle
  <2> QED
    BY <1>0, <2>1, <2>2, <2>3
    DEF Remove, KeepOnFailure, Update, TypeOK, JobMap
<1>10. CASE Load \/ Recompute
  <2>1. due[j] # None /\ ~Serving
    BY <1>10 DEF Load, Recompute, Serving
  <2> QED
    BY <1>0, <2>1 DEF BatchInv, IdleUnlessServing
<1>11. CASE Die
  BY <1>11 DEF Die
<1>12. CASE Shutdown \/ UNCHANGED vars
  BY <1>1, <1>12 DEF Shutdown, vars
<1>13. CASE LoopExit
  BY <1>13 DEF LoopExit, BatchInv
<1>14. CASE Clock
  <2>1. due[j] # None /\ timer' = timer /\ jobs' = jobs /\ now' = now + 1 /\ now \in Nat
    BY <1>0, <1>14 DEF Clock, TypeOK
  <2>2. ASSUME jobs[j] # NoJob
        PROVE  jobs[j].enabled /\ jobs[j].next # None /\ jobs[j].next <= now
    BY <2>1, <2>2 DEF BatchInv
  <2>3. ASSUME jobs[j] # NoJob PROVE jobs[j].next \in Instant
    BY <1>0, <2>3 DEF TypeOK, JobMap, Job
  <2>4. ASSUME jobs[j] # NoJob PROVE jobs[j].next <= now'
    BY <2>1, <2>2, <2>3, <2>4 DEF Instant
  <2>5. timer = "tick"
    BY <2>1 DEF BatchInv
  <2> QED
    BY <2>1, <2>2, <2>4, <2>5
<1> QED
  BY <1>1, <1>2, <1>3, <1>4, <1>5, <1>6, <1>7, <1>8, <1>9, <1>10, <1>11,
     <1>12, <1>13, <1>14
  DEF Next, Call, TimerLoop, EndRun, Lifecycle, Stopped, Crash

-----------------------------------------------------------------------------
(* Answered one-shots.                                                     *)

(* A one-shot that has answered is disabled, also on disk, as long as no   *)
(* save failed.                                                            *)
Off(job) == job.sched.kind = "at" => ~job.enabled

AnsweredOff ==
  saveFails = 0 =>
    \A j \in JobIds :
      fate[j] = "answered" =>
        /\ jobs[j] # NoJob => Off(jobs[j])
        /\ disk[j] # NoJob => Off(disk[j])

LEMMA AppliedOff ==
  ASSUME NEW job \in Job
  PROVE  /\ Off(AfterSuccess(job))
         /\ Off(job) => Off(AfterError(job)) /\ Off(Recomputed(job))
<1>1. Off(AfterSuccess(job))
  <2>1. AfterSuccess(job).sched = job.sched
    BY DEF AfterSuccess, Job
  <2>2. job.sched.kind = "at" => ~AfterSuccess(job).enabled
    BY DEF AfterSuccess, Job
  <2> QED
    BY <2>1, <2>2 DEF Off
<1>2. /\ AfterError(job).sched = job.sched
      /\ AfterError(job).enabled => job.enabled
  BY DEF AfterError, Job
<1>3. /\ Recomputed(job).sched = job.sched
      /\ Recomputed(job).enabled = job.enabled
  BY DEF Recomputed, Job
<1> QED
  BY <1>1, <1>2, <1>3 DEF Off

LEMMA WrittenOff ==
  ASSUME TypeOK, AnsweredOff, saveFails = 0, NEW j \in JobIds,
         fate[j] = "answered", NEW job, Written(j, job), job # NoJob
  PROVE  Off(job)
<1>a. /\ jobs[j] # NoJob => Off(jobs[j])
      /\ disk[j] # NoJob => Off(disk[j])
  BY DEF AnsweredOff
<1>b. /\ jobs[j] # NoJob => jobs[j] \in Job
      /\ disk[j] # NoJob => disk[j] \in Job
  BY DEF TypeOK, JobMap
<1>1. /\ jobs[j] # NoJob => jobs[j] \in Job /\ Off(jobs[j])
      /\ disk[j] # NoJob => disk[j] \in Job /\ Off(disk[j])
  BY <1>a, <1>b
<1>2. CASE job = jobs[j] \/ job = disk[j]
  BY <1>1, <1>2
<1>3. CASE job \in Job /\ job.sched.kind # "at"
  BY <1>3 DEF Off
<1>4. CASE job = [jobs[j] EXCEPT !.running = TRUE] /\ jobs[j] # NoJob
  BY <1>1, <1>4 DEF Off, Job
<1>5. CASE /\ jobs[j] # NoJob
           /\ job \in {AfterSuccess(jobs[j]), AfterError(jobs[j]),
                       Recomputed(jobs[j])}
  BY <1>1, <1>5, AppliedOff
<1>6. CASE disk[j] # NoJob /\ job = [disk[j] EXCEPT !.running = FALSE]
  BY <1>1, <1>6 DEF Off, Job
<1> QED
  BY <1>2, <1>3, <1>4, <1>5, <1>6 DEF Written

LEMMA AnsweredNext == StoreInv /\ AnsweredOff /\ [Next]_vars => AnsweredOff'
<1> SUFFICES ASSUME StoreInv, AnsweredOff, [Next]_vars, saveFails' = 0,
                    NEW j \in JobIds, fate'[j] = "answered"
             PROVE  /\ jobs'[j] # NoJob => Off(jobs'[j])
                    /\ disk'[j] # NoJob => Off(disk'[j])
  BY DEF AnsweredOff, Off
<1>0. saveFails = 0 /\ TypeOK
  BY SaveFailsGrows DEF StoreInv
<1>1. CASE fate[j] = "answered"
  BY <1>0, <1>1, WhatIsWritten, WrittenOff
<1>2. CASE fate[j] # "answered"
  <2>1. PICK r \in RunIds : Finish(r, "ok") /\ runs[r].job = j
    BY <1>0, <1>2
    DEF Next, Call, AddJob, RemoveJob, Reschedule, RunImmediate, TimerLoop,
        TickStart, FireNext, TickEnd, EndRun, Finish, Answers, Lifecycle, Load,
        Recompute, Shutdown, LoopExit, Stopped, Crash, Die, Clock, vars, TypeOK
  <2>2. daemon # "down"
    BY <2>1 DEF StoreInv, IdleUnlessServing, Serving, Finish, Active
  <2>3. ApplySuccess(r)
    BY <2>1 DEF Finish
  <2>4. ~PersistFails
    BY <1>0 DEF PersistFails
  <2>5. CASE jobs[j] = NoJob
    <3>1. UNCHANGED memory /\ disk[j] = NoJob
      BY <2>1, <2>2, <2>3, <2>5
      DEF ApplySuccess, StoreInv, SameJobsOnDisk, Stored
    <3> QED
      BY <2>5, <3>1 DEF memory
  <2>6. CASE jobs[j] # NoJob
    <3>1. Remove(j) \/ (Update(j, AfterSuccess(jobs[j])) /\ Persist)
      BY <2>1, <2>3, <2>4, <2>6 DEF ApplySuccess, KeepOnFailure, Update
    <3>2. jobs[j] \in Job
      BY <1>0, <2>6 DEF TypeOK, JobMap
    <3>3. jobs'[j] \in {NoJob, AfterSuccess(jobs[j])} /\ disk'[j] = jobs'[j]
      BY <1>0, <3>1 DEF Remove, Update, Persist, TypeOK, JobMap
    <3> QED
      BY <3>2, <3>3, AppliedOff
  <2> QED
    BY <2>5, <2>6
<1> QED
  BY <1>1, <1>2

-----------------------------------------------------------------------------
(* What the timer starts.                                                  *)

OneShotInv == StoreInv /\ RunsInv /\ BatchInv /\ AnsweredOff

LEMMA StartedJob ==
  ASSUME MaxManual = 0, TypeOK, [Next]_vars, NEW r \in RunIds, Spawned(r)
  PROVE  \E id \in JobIds : /\ FireNext(id) /\ jobs[id] # NoJob
                            /\ runs'[r].job = id
<1>a. ASSUME NEW id \in JobIds, RunImmediate(id) PROVE FALSE
  BY <1>a DEF RunImmediate, Spend, Limit, TypeOK, Cost
<1>b. ASSUME NEW q \in RunIds, NEW outcome \in Outcomes, Finish(q, outcome)
      PROVE  FALSE
  BY <1>b DEF Finish, TypeOK, Spawned
<1>c. ~Die
  BY DEF Die, Spawned
<1>d. runs'[r] # runs[r]
  BY DEF Spawned
<1>1. PICK id \in JobIds : FireNext(id)
  BY <1>a, <1>b, <1>c, <1>d
  DEF Next, Call, AddJob, RemoveJob, Reschedule, TimerLoop, TickStart, TickEnd,
      EndRun, Lifecycle, Load, Recompute, Shutdown, LoopExit, Stopped, Crash,
      Clock, vars
<1>2. jobs[id] # NoJob /\ Spawn(id, TRUE)
  BY <1>1 DEF FireNext, Spawned
<1>3. PICK q \in RunIds :
        runs' = [runs EXCEPT ![q] = [job |-> id, dar |-> jobs[id].dar,
                                     timer |-> TRUE]]
  BY <1>2 DEF Spawn
<1>4. r = q
  BY <1>3 DEF Spawned, TypeOK
<1>5. runs'[r].job = id
  BY <1>3, <1>4 DEF TypeOK
<1> QED
  BY <1>1, <1>2, <1>5

LEMMA StartedIsDue ==
  ASSUME MaxManual = 0, OneShotInv, [Next]_vars, NEW r \in RunIds, Spawned(r)
  PROVE  LET j == runs'[r].job
         IN  /\ jobs[j].next # None /\ jobs[j].next <= now
             /\ saveFails = 0 /\ jobs[j].sched.kind = "at" => fate[j] # "answered"
<1>1. PICK id \in JobIds : /\ FireNext(id) /\ jobs[id] # NoJob
                           /\ runs'[r].job = id
  BY StartedJob DEF OneShotInv, StoreInv
<1>2. jobs[id].enabled /\ jobs[id].next # None /\ jobs[id].next <= now
  BY <1>1 DEF FireNext, OneShotInv, BatchInv
<1>3. saveFails = 0 /\ jobs[id].sched.kind = "at" => fate[id] # "answered"
  <2> SUFFICES ASSUME saveFails = 0, fate[id] = "answered" 
               PROVE  jobs[id].sched.kind # "at"
    OBVIOUS
  <2>1. Off(jobs[id])
    BY <1>1 DEF OneShotInv, AnsweredOff
  <2> QED
    BY <1>2, <2>1 DEF Off
<1> QED
  BY <1>1, <1>2, <1>3

(* Without triggered runs and reused ids, the timer starts a one-shot when *)
(* its time has come, never again once it has answered, and after an error *)
(* when the backoff of its error count is over.                            *)
THEOREM OneShotsAreRetried ==
  ASSUME MaxManual = 0, NamedIds = {}
  PROVE  Spec => OneShotsRetried
<1>1. Init => OneShotInv
  BY StoreInvInit, RunsInit DEF Init, OneShotInv, BatchInv, AnsweredOff
<1>2. OneShotInv /\ [Next]_vars => OneShotInv'
  BY StoreInvNext, RunsNext, BatchNext, AnsweredNext DEF OneShotInv
<1>3. OneShotInv /\ [Next]_vars =>
        [\A r \in RunIds :
           Spawned(r) /\ runs'[r].timer =>
             LET job == jobs[runs'[r].job]
             IN  job.next # None /\ job.next <= now]_vars
  BY StartedIsDue
<1>4. OneShotInv /\ [Next]_vars =>
        [\A r \in RunIds :
           Spawned(r) /\ runs'[r].timer /\ saveFails = 0 =>
             LET j == runs'[r].job
             IN  jobs[j].sched.kind = "at" => fate[j] # "answered"]_vars
  BY StartedIsDue
<1> QED
  BY <1>1, <1>2, <1>3, <1>4, OneShotsWaitTheirBackoff, PTL
  DEF Spec, OneShotsRetried, NoEarlyFire, OneShotAnswersOnce
=============================================================================
