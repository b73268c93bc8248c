---------------------------- MODULE JobScheduler ----------------------------
(***************************************************************************)
(* The job store and the job executor of the gateway daemon: the timer     *)
(* loop, the runs it spawns, the callers that add, remove, reschedule and  *)
(* trigger jobs meanwhile, save failures, crashes and graceful stops.      *)
(*                                                                         *)
(* One action is one critical section of JobStore.mu, which is what the    *)
(* goroutines of the daemon really interleave at.  What a run does besides *)
(* (the agent turn, notifications, bus events) is modelled elsewhere.      *)
(***************************************************************************)
EXTENDS JobSchedule

CONSTANTS
  JobIds,        \* job identifiers
  NamedIds,      \* those a caller chooses (cron-x, heartbeat-x): reusable
  RunIds,        \* goroutines that can be executing a job at a time
  Schedules,     \* the schedules callers ask for
  NoJob, NoRun,  \* absent entries of the maps
  MaxDelay,      \* the timer never sleeps longer than this (60 s)
  Cancels,       \* whether a run may be cancelled
  MaxTime,       \* bound: the clock stops here
  MaxCalls,      \* bound: calls that change the store
  MaxManual,     \* bound: RunImmediate calls
  MaxCrashes,    \* bound: crashes of the daemon
  MaxStops,      \* bound: graceful stops
  MaxSaveFails   \* bound: saves that fail

ASSUME SchedulerAssumption ==
  /\ NamedIds \subseteq JobIds
  /\ Schedules \subseteq Schedule
  /\ MaxDelay \in Nat \ {0}
  /\ Cancels \in BOOLEAN
  /\ {MaxTime, MaxCalls, MaxManual, MaxCrashes, MaxStops, MaxSaveFails}
       \subseteq Nat

VARIABLES
  now,      \* the wall clock
  daemon,   \* "down", "starting" (store loaded), "up", "stopping"
  jobs,     \* JobStore.jobs, the map in memory
  disk,     \* jobs.json
  timer,    \* the timer loop: "off", "sleep", "tick"
  wakeAt,   \* when its time.After fires
  due,      \* the rest of the NextDue batch: id -> NextRunAt then
  runs,     \* the executeAndApply goroutines before their result is applied
  fate,     \* history: what became of the latest job added under an id
  saveFails, \* saves that failed so far
  spent     \* how much of each other bound is used

memory == <<jobs, disk>>
loop   == <<timer, wakeAt, due>>
vars   == <<now, daemon, jobs, disk, timer, wakeAt, due, runs, fate,
            saveFails, spent>>
-----------------------------------------------------------------------------
Job == [sched   : Schedule,
        dar     : BOOLEAN,                  \* DeleteAfterRun
        enabled : BOOLEAN,
        next    : Instant,                  \* NextRunAt
        last    : Instant,                  \* LastRunAt
        running : BOOLEAN,                  \* RunningAt # nil
        errs    : 0 .. MaxRetries + 1]      \* ConsecutiveErrors

Run  == [job : JobIds, dar : BOOLEAN, timer : BOOLEAN]
Fate == {"none", "open", "answered", "withdrawn"}
Cost == {"call", "manual", "crash", "stop"}

ASSUME AbsentAssumption == NoJob \notin Job /\ NoRun \notin Run

JobMap == [JobIds -> Job \cup {NoJob}]

Limit == [call |-> MaxCalls, manual |-> MaxManual, crash |-> MaxCrashes,
          stop |-> MaxStops]

TypeOK ==
  /\ now \in Nat
  /\ daemon \in {"down", "starting", "up", "stopping"}
  /\ jobs \in JobMap /\ disk \in JobMap
  /\ timer \in {"off", "sleep", "tick"}
  /\ wakeAt \in Nat
  /\ due \in [JobIds -> Instant]
  /\ runs \in [RunIds -> Run \cup {NoRun}]
  /\ fate \in [JobIds -> Fate]
  /\ saveFails \in Nat
  /\ spent \in [Cost -> Nat]

Stored(m)     == {j \in JobIds : m[j] # NoJob}
Active        == {r \in RunIds : runs[r] # NoRun}
TimerRunsOf(j) == {r \in Active : runs[r].job = j /\ runs[r].timer}
Serving       == daemon \in {"up", "stopping"}

(* NextDue *)
IsDue(j) ==
  /\ jobs[j] # NoJob
  /\ jobs[j].enabled /\ ~jobs[j].running
  /\ jobs[j].next # None /\ jobs[j].next <= now

(* NextWakeAt and computeDelay: d is the time to the earliest NextRunAt,    *)
(* clipped to 0..MaxDelay.  Running jobs count too.                        *)
IsWakeDelay(d, m) ==
  LET nexts == {m[j].next : j \in {i \in Stored(m) : m[i].enabled}} \ {None}
  IN  /\ d > 0 => \A t \in nexts : now + d <= t
      /\ d < MaxDelay => \E t \in nexts : t <= now + d

(* Mutant: nothing scheduled, nothing to wake up for.                      *)
SleepWhenIdle(m) ==
  /\ timer' = "sleep"
  /\ IF \A j \in Stored(m) : ~m[j].enabled THEN wakeAt' = MaxTime + 1
     ELSE \E d \in 0 .. MaxDelay : IsWakeDelay(d, m) /\ wakeAt' = now + d

Sleep(m) ==
  /\ timer' = "sleep"
  /\ \E d \in 0 .. MaxDelay : IsWakeDelay(d, m) /\ wakeAt' = now + d
-----------------------------------------------------------------------------
Spend(c) == spent[c] < Limit[c] /\ spent' = [spent EXCEPT ![c] = @ + 1]

(* save(): the temporary file is renamed over jobs.json, or nothing is.    *)
Persist == disk' = jobs' /\ UNCHANGED saveFails

PersistFails ==
  saveFails < MaxSaveFails /\ saveFails' = saveFails + 1 /\ UNCHANGED disk

(* Update(): the mutation stays in memory even when the save fails.        *)
Update(id, job) ==
  jobs' = [jobs EXCEPT ![id] = job] /\ (Persist \/ PersistFails)

(* Remove(): the job is restored in memory when the save fails.            *)
Remove(id) == jobs' = [jobs EXCEPT ![id] = NoJob] /\ Persist
KeepOnFailure == PersistFails /\ UNCHANGED jobs

Spawn(id, byTimer) ==
  \E r \in RunIds :
    /\ runs[r] = NoRun
    /\ runs' = [runs EXCEPT ![r] = [job |-> id, dar |-> jobs[id].dar,
                                    timer |-> byTimer]]
-----------------------------------------------------------------------------
(* Callers: gateway handlers, the manage tool and heartbeat sync.          *)

NewJob(s, dar) ==
  [sched |-> s, dar |-> dar, enabled |-> TRUE,
   next |-> ComputeNextRun(s, now, None), last |-> None,
   running |-> FALSE, errs |-> 0]

(* Generated ids are fresh; a chosen one may name an earlier, removed job. *)
(* One-shots only exist under generated ids.                               *)
AddJob(id, s, dar) ==
  /\ Serving /\ Spend("call")
  /\ IF id \in NamedIds THEN ~dar /\ s.kind # "at" ELSE fate[id] = "none"
  /\ jobs[id] = NoJob
  /\ ComputeNextRun(s, now, None) # Err
  /\ \/ /\ jobs' = [jobs EXCEPT ![id] = NewJob(s, dar)]
        /\ Persist
        /\ fate' = [fate EXCEPT ![id] = "open"]
     \/ KeepOnFailure /\ UNCHANGED fate
  /\ UNCHANGED <<now, daemon, loop, runs>>

(* Mutant: the job is not restored when the save fails.                    *)
RemoveJobNoRollback(id) ==
  /\ Serving /\ Spend("call")
  /\ jobs[id] # NoJob
  /\ jobs' = [jobs EXCEPT ![id] = NoJob]
  /\ Persist \/ PersistFails
  /\ fate' = [fate EXCEPT ![id] = "withdrawn"]
  /\ UNCHANGED <<now, daemon, loop, runs>>

RemoveJob(id) ==
  /\ Serving /\ Spend("call")
  /\ jobs[id] # NoJob
  /\ \/ Remove(id) /\ fate' = [fate EXCEPT ![id] = "withdrawn"]
     \/ KeepOnFailure /\ UNCHANGED fate
  /\ UNCHANGED <<now, daemon, loop, runs>>

(* cron.add on an id that exists, and SyncHeartbeatJobs on a task whose    *)
(* interval changed: the schedule is replaced, NextRunAt is not.           *)
Reschedule(id, s) ==
  /\ Serving /\ Spend("call")
  /\ id \in NamedIds /\ jobs[id] # NoJob
  /\ s.kind = jobs[id].sched.kind /\ s.kind \in {"cron", "every"}
  /\ Update(id, [jobs[id] EXCEPT
                   !.sched = s,
                   !.enabled = IF s.kind = "cron" THEN TRUE ELSE @])
  /\ UNCHANGED <<now, daemon, loop, runs, fate>>

(* RunImmediate neither looks at RunningAt nor sets it.                    *)
RunImmediate(id) ==
  /\ Serving /\ Spend("manual")
  /\ jobs[id] # NoJob
  /\ Spawn(id, FALSE)
  /\ UNCHANGED <<now, daemon, memory, loop, fate, saveFails>>
-----------------------------------------------------------------------------
(* The timer loop.                                                         *)

(* NextDue is read in one critical section, each job of the batch is       *)
(* marked in a later one.                                                  *)
TickStart ==
  /\ Serving
  /\ timer = "sleep" /\ wakeAt <= now
  /\ timer' = "tick"
  /\ due' = [j \in JobIds |-> IF IsDue(j) THEN jobs[j].next ELSE None]
  /\ UNCHANGED <<now, daemon, memory, wakeAt, runs, fate, saveFails, spent>>

(* Mutant: the job is not marked before its run is spawned.                *)
FireNextUnmarked(id) ==
  /\ timer = "tick" /\ due[id] # None
  /\ due' = [due EXCEPT ![id] = None]
  /\ jobs[id] # NoJob /\ Spawn(id, TRUE)
  /\ UNCHANGED <<now, daemon, memory, timer, wakeAt, fate, saveFails, spent>>

FireNext(id) ==
  /\ timer = "tick"
  /\ due[id] # None
  /\ \A other \in JobIds : ~Before(due[other], due[id])
  /\ due' = [due EXCEPT ![id] = None]
  /\ \/ /\ jobs[id] = NoJob
        /\ UNCHANGED <<memory, runs, saveFails>>
     \/ /\ jobs[id] # NoJob
        /\ jobs' = [jobs EXCEPT ![id].running = TRUE]
        /\ \/ Persist /\ Spawn(id, TRUE)
           \/ PersistFails /\ UNCHANGED runs
  /\ UNCHANGED <<now, daemon, timer, wakeAt, fate, spent>>

TickEnd ==
  /\ timer = "tick"
  /\ \A j \in JobIds : due[j] = None
  /\ Sleep(jobs)
  /\ UNCHANGED <<now, daemon, memory, due, runs, fate, saveFails, spent>>
-----------------------------------------------------------------------------
(* The end of a run.                                                       *)

(* Mutant: a one-shot that answered stays enabled.                         *)
AfterSuccessAgain(job) ==
  [job EXCEPT !.running = FALSE, !.last = now, !.errs = 0]

AfterSuccess(job) ==
  LET next == ComputeNextRun(job.sched, now, now)
      done == [job EXCEPT !.running = FALSE, !.last = now, !.errs = 0]
  IN  IF job.sched.kind = "at"
      THEN [done EXCEPT !.enabled = FALSE, !.next = None]
      ELSE IF next = Err THEN [done EXCEPT !.enabled = FALSE]
                         ELSE [done EXCEPT !.next = next]

AfterError(job) ==
  LET errs   == OneMoreError(job.errs)
      retry  == errs <= MaxRetries
      next   == ComputeNextRun(job.sched, now, now)
      failed == [job EXCEPT !.running = FALSE, !.last = now, !.errs = errs]
  IN  IF job.sched.kind = "at"
      THEN IF retry THEN [failed EXCEPT !.next = now + Backoff[errs]]
                    ELSE [failed EXCEPT !.enabled = FALSE, !.next = None]
      ELSE IF next = Err THEN [failed EXCEPT !.enabled = FALSE]
      ELSE IF retry /\ Before(next, now + Backoff[errs])
           THEN [failed EXCEPT !.next = now + Backoff[errs]]
           ELSE [failed EXCEPT !.next = next]

(* A cancelled run returns no error, so it is applied as a success.        *)
Outcomes == {"ok", "error"} \cup IF Cancels THEN {"cancelled"} ELSE {}

Answers(r, outcome) ==
  fate' = [fate EXCEPT ![runs[r].job] =
             IF outcome = "ok" /\ @ = "open" THEN "answered" ELSE @]

ApplySuccess(r) ==
  LET id == runs[r].job
  IN  \/ jobs[id] = NoJob /\ UNCHANGED <<memory, saveFails>>
      \/ /\ jobs[id] # NoJob /\ runs[r].dar
         /\ Remove(id) \/ KeepOnFailure
      \/ /\ jobs[id] # NoJob /\ ~runs[r].dar
         /\ Update(id, AfterSuccess(jobs[id]))

(* Mutant: DeleteAfterRun is taken at its word, whatever the run did.      *)
ApplyErrorRemoves(r) ==
  LET id == runs[r].job
  IN  \/ jobs[id] = NoJob /\ UNCHANGED <<memory, saveFails>>
      \/ jobs[id] # NoJob /\ runs[r].dar /\ Remove(id)
      \/ jobs[id] # NoJob /\ ~runs[r].dar /\ Update(id, AfterError(jobs[id]))

ApplyError(r) ==
  LET id == runs[r].job
  IN  \/ jobs[id] = NoJob /\ UNCHANGED <<memory, saveFails>>
      \/ jobs[id] # NoJob /\ Update(id, AfterError(jobs[id]))

Finish(r, outcome) ==
  /\ runs[r] # NoRun
  /\ IF outcome = "error" THEN ApplyError(r) ELSE ApplySuccess(r)
  /\ Answers(r, outcome)
  /\ runs' = [runs EXCEPT ![r] = NoRun]
  /\ UNCHANGED <<now, daemon, loop, spent>>
-----------------------------------------------------------------------------
(* The life of the daemon.                                                 *)

(* Mutant: jobs found running are dropped with their markers.              *)
LoadDropsRunning ==
  /\ daemon = "down" /\ daemon' = "starting"
  /\ jobs' = [j \in JobIds |-> IF disk[j] = NoJob \/ disk[j].running
                               THEN NoJob ELSE disk[j]]
  /\ Persist
  /\ UNCHANGED <<now, loop, runs, fate, spent>>

(* NewJobStore loads the file, Start clears stale running markers.         *)
Load ==
  /\ daemon = "down"
  /\ daemon' = "starting"
  /\ jobs' = [j \in JobIds |-> IF disk[j] = NoJob THEN NoJob
                               ELSE [disk[j] EXCEPT !.running = FALSE]]
  /\ Persist \/ (jobs' # disk /\ PersistFails)
  /\ UNCHANGED <<now, loop, runs, fate, spent>>

Recomputed(job) ==
  LET next == ComputeNextRun(job.sched, now, job.last)
  IN  IF ~job.enabled \/ (job.sched.kind = "at" /\ job.next # None) \/ next = Err
      THEN job ELSE [job EXCEPT !.next = next]

(* recomputeAll saves after every job; the jobs it touches are recomputed  *)
(* from the same inputs at the next start, so one save stands for them.    *)
Recompute ==
  /\ daemon = "starting"
  /\ daemon' = "up"
  /\ jobs' = [j \in JobIds |-> IF jobs[j] = NoJob THEN NoJob
                               ELSE Recomputed(jobs[j])]
  /\ Persist \/ (jobs' # jobs /\ PersistFails)
  /\ Sleep(jobs')
  /\ UNCHANGED <<now, due, runs, fate, spent>>

(* Shutdown cancels the context; Stop then waits for the loop and for the  *)
(* runs the timer spawned.  Triggered runs are not in the wait group.      *)
Shutdown ==
  /\ daemon = "up" /\ Spend("stop")
  /\ daemon' = "stopping"
  /\ UNCHANGED <<now, memory, loop, runs, fate, saveFails>>

LoopExit ==
  /\ daemon = "stopping" /\ timer = "sleep"
  /\ timer' = "off"
  /\ UNCHANGED <<now, daemon, memory, wakeAt, due, runs, fate, saveFails, spent>>

Die ==
  /\ daemon' = "down"
  /\ jobs' = [j \in JobIds |-> NoJob]
  /\ timer' = "off"
  /\ due' = [j \in JobIds |-> None]
  /\ wakeAt' = 0
  /\ runs' = [r \in RunIds |-> NoRun]
  /\ UNCHANGED <<now, disk, fate, saveFails>>

(* Mutant: Stop does not wait for the runs.                                *)
StoppedEarly ==
  /\ daemon = "stopping" /\ timer = "off"
  /\ Die /\ UNCHANGED spent

Stopped ==
  /\ daemon = "stopping" /\ timer = "off"
  /\ \A r \in Active : ~runs[r].timer
  /\ Die /\ UNCHANGED spent

Crash == daemon # "down" /\ Spend("crash") /\ Die

(* Time passes whatever the daemon does: a tick may be late, and slow.     *)
Clock ==
  /\ now < MaxTime
  /\ now' = now + 1
  /\ UNCHANGED <<daemon, memory, loop, runs, fate, saveFails, spent>>
-----------------------------------------------------------------------------
Init ==
  /\ now = 0
  /\ daemon = "down"
  /\ jobs = [j \in JobIds |-> NoJob] /\ disk = jobs
  /\ timer = "off" /\ wakeAt = 0 /\ due = [j \in JobIds |-> None]
  /\ runs = [r \in RunIds |-> NoRun]
  /\ fate = [j \in JobIds |-> "none"]
  /\ saveFails = 0 /\ spent = [c \in Cost |-> 0]

Call ==
  \E id \in JobIds :
    \/ \E s \in Schedules, dar \in BOOLEAN : AddJob(id, s, dar)
    \/ RemoveJob(id)
    \/ \E s \in Schedules : Reschedule(id, s)
    \/ RunImmediate(id)

TimerLoop == TickStart \/ (\E id \in JobIds : FireNext(id)) \/ TickEnd

EndRun == \E r \in RunIds, outcome \in Outcomes : Finish(r, outcome)

Lifecycle == Load \/ Recompute \/ Shutdown \/ LoopExit \/ Stopped \/ Crash

Next == Call \/ TimerLoop \/ EndRun \/ Lifecycle \/ Clock

Spec == Init /\ [][Next]_vars

(* The Go scheduler runs every goroutine that can run, and select picks at *)
(* random among its ready cases, so a cancelled context is not passed over *)
(* for ever.  A run need not end while the daemon is up: it may wait for   *)
(* an approval, which has no timeout (approval.go:67).  It ends once its   *)
(* context is cancelled, as that wait then does (approval.go:74).  Nothing *)
(* obliges anybody to start the daemon again.                              *)
Fairness ==
  /\ WF_vars(TimerLoop) /\ WF_vars(Clock)
  /\ WF_vars(Recompute) /\ WF_vars(Stopped)
  /\ SF_vars(LoopExit)
  /\ \A r \in RunIds :
        WF_vars(daemon = "stopping" /\ \E outcome \in Outcomes : Finish(r, outcome))

FairSpec == Spec /\ Fairness
-----------------------------------------------------------------------------
(* Safety.                                                                 *)

(* Memory and jobs.json hold the same jobs whatever saves fail: Add and    *)
(* Remove roll back, Update only changes a job both already hold.          *)
SameJobsOnDisk == daemon # "down" => Stored(jobs) = Stored(disk)

(* As long as no save failed, a crash loses nothing but markers.           *)
DiskIsCurrent == saveFails = 0 /\ daemon # "down" => disk = jobs

(* Both: what the daemon believes is in jobs.json, as far as saves let it  *)
(* be (jobstore.go, Add, Remove, Update, save).                            *)
MemoryOnDisk == SameJobsOnDisk /\ DiskIsCurrent

(* A RunningAt marker in memory belongs to a run that will clear it: no    *)
(* job is shut out of NextDue for ever.                                    *)
MarkerHasRun ==
  saveFails = 0 =>
    \A j \in Stored(jobs) : jobs[j].running => TimerRunsOf(j) # {}

(* "Mark as running before spawning goroutine to prevent double-fire": the *)
(* timer never has two runs of a job in flight.                            *)
NoDoubleFire ==
  \A r, s \in Active :
    runs[r].timer /\ runs[s].timer /\ runs[r].job = runs[s].job => r = s

(* A job that Add accepted stays on disk until a run of it has answered or *)
(* somebody removes it, across crashes, stops and save failures.           *)
AcceptedJobKept == \A j \in JobIds : fate[j] = "open" => disk[j] # NoJob

(* A one-shot that is still scheduled after an error waits exactly the     *)
(* backoff of its error count, and its error count stays within retries.   *)
OneShotBacksOff ==
  \A j \in Stored(disk) :
    LET job == disk[j]
    IN  job.sched.kind = "at" /\ job.enabled /\ job.errs > 0 =>
          /\ job.errs <= MaxRetries
          /\ job.next = job.last + Backoff[job.errs]

-----------------------------------------------------------------------------
(* What a step may never do.                                               *)

Spawned(r) == runs[r] = NoRun /\ runs'[r] # NoRun

(* The timer starts a job only once its time has come, by the schedule the *)
(* store holds when the run starts.                                        *)
NoEarlyFire ==
  [][\A r \in RunIds :
       Spawned(r) /\ runs'[r].timer =>
         LET job == jobs[runs'[r].job]
         IN  job.next # None /\ job.next <= now]_vars

(* A one-shot that has answered is not started by the timer again, unless  *)
(* the save of its answer failed and the daemon crashed.                   *)
OneShotAnswersOnce ==
  [][\A r \in RunIds :
       Spawned(r) /\ runs'[r].timer /\ saveFails = 0 =>
         LET j == runs'[r].job
         IN  jobs[j].sched.kind = "at" => fate[j] # "answered"]_vars

(* While no save failed, a graceful stop leaves no marker behind: Stop     *)
(* waited for every run the timer spawned, and each cleared its marker and *)
(* saved.  (A run whose last save failed leaves one, for Start to clear.)  *)
GracefulStopIsClean ==
  [][Stopped /\ saveFails = 0 =>
       \A j \in Stored(disk') : ~disk'[j].running]_vars

(* While no save failed, a RunningAt marker tells the truth, in memory as  *)
(* long as the daemon lives and on disk after it stopped (jobexec.go:170,  *)
(* :109), although callers reuse ids, reschedule and trigger jobs.         *)
MarkersAreTrue == []MarkerHasRun /\ GracefulStopIsClean

(* A one-shot is started in time and in vain only as often as its backoff  *)
(* says: not early, not again once it answered, and after an error when    *)
(* the backoff of its error count is over, also by the job store a         *)
(* restart loads (jobexec.go:386, :413, recomputeAll).                     *)
OneShotsRetried == []OneShotBacksOff /\ NoEarlyFire /\ OneShotAnswersOnce
-----------------------------------------------------------------------------
(* The contract.  A second run of the timer has no counterpart there.      *)

Phase(j) ==
  IF disk[j] = NoJob THEN "absent"
  ELSE IF TimerRunsOf(j) = {} THEN "waiting"
  ELSE IF \E r \in RunIds : TimerRunsOf(j) = {r} THEN "running"
  ELSE "overlapping"

Ledger == INSTANCE JobLedger WITH phase <- [j \in JobIds |-> Phase(j)]

(* Without triggered runs, cancellations and reused ids, the job system    *)
(* keeps its promise: JobLedger's specification.                           *)
KeepsLedger == Ledger!Spec
-----------------------------------------------------------------------------
(* Liveness, under FairSpec.                                               *)

(* A job that is due while the daemon is up is started, or stops being due *)
(* (MaxTime only leaves the timer its last sleep to notice).               *)
DueJobFires ==
  \A j \in JobIds :
    daemon = "up" /\ IsDue(j) /\ now + MaxDelay <= MaxTime
      ~> daemon # "up" \/ ~IsDue(j)

(* A graceful stop ends, however many jobs are overdue.                    *)
StopEnds == daemon = "stopping" ~> daemon = "down"

(* The timer goes on, and can be stopped, although the runs it spawned and *)
(* those that callers triggered may last for ever while the daemon is up,  *)
(* waiting for the user, and Stop waits for those of the timer, which it   *)
(* has cancelled (jobexec.go:126, :142, :109).                             *)
TimerGoesOn == DueJobFires /\ StopEnds
=============================================================================
