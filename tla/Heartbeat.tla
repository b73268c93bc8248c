------------------------------ MODULE Heartbeat ------------------------------
(***************************************************************************)
(* The heartbeat tasks: HEARTBEAT.md, which the user and the manage tool   *)
(* write (tool/manage.go:572), and the jobs "heartbeat-<name>" that the    *)
(* executor makes of it at the daemon's start and on a reload              *)
(* (agent/heartbeat.go:85).  Between the two they may differ.              *)
(*                                                                         *)
(* A file is a form and the tasks it lists; what a parser sees of them     *)
(* depends on the form, and the executor and the tool do not parse alike.  *)
(* Abstracted: the agent of a task (it is handled as the prompt is).       *)
(* Bound: HbMaxOps counts the edits, reloads, restarts and triggers.       *)
(***************************************************************************)
EXTENDS Integers, TLC

CONSTANTS
    HbNames,
    HbOddNames,     \* names that are no YAML scalar unless they are quoted ("mail: inbox")
    HbPrompts,
    HbMaxOps

HbBad == "bad"                  \* an interval that time.ParseDuration refuses
HbIntervals == {"5m", HbBad}
HbTask == [every : HbIntervals, prompt : HbPrompts]

VARIABLES
    file,       \* [form, tasks].  "none": no file.  "prose": no line "tasks:".
                \* "bare": what the tool writes.  "block": the tasks in a yaml
                \* fence, with text around it.  "broken": tasks that are no YAML
    jobs,       \* name -> [every, prompt, enabled]: the store's heartbeat jobs
    asked,      \* ghost: the tasks the tool has said it added, and not removed
    spoilt,     \* ghost: the file was edited by hand, or has an odd name
    hbOps

hbVars == <<file, jobs, asked, spoilt, hbOps>>

HbNone == [x \in {} |-> x]

(* parseHeartbeatConfig: a fence is cut at its end; an error is no tasks.  *)
Parsed(f) == IF f.form \in {"bare", "block"} THEN f.tasks ELSE HbNone
(* The tool reads from "tasks:" to the end: the fence's end is no YAML.    *)
Edited(f) == IF f.form = "bare" THEN f.tasks ELSE HbNone
(* What it writes: the names are not quoted. *)
Written(tasks) ==
    [form |-> IF DOMAIN tasks = {} THEN "prose"
              ELSE IF DOMAIN tasks \cap HbOddNames # {} THEN "broken" ELSE "bare",
     tasks |-> tasks]

HbOp == hbOps < HbMaxOps /\ hbOps' = hbOps + 1

----------------------------------------------------------------------------
(* heartbeat_add: neither the store nor a reload is told. *)
HeartbeatAdd(n) ==
    /\ HbOp /\ n \notin DOMAIN Edited(file)
    /\ \E t \in HbTask : file' = Written(n :> t @@ Edited(file)) /\ asked' = n :> t @@ asked
    /\ spoilt' = (spoilt \/ n \in HbOddNames)
    /\ UNCHANGED jobs

HeartbeatRemove(n) ==
    /\ HbOp /\ n \in DOMAIN Edited(file)
    /\ file' = Written([m \in DOMAIN Edited(file) \ {n} |-> file.tasks[m]])
    /\ asked' = [m \in DOMAIN asked \ {n} |-> asked[m]]
    /\ UNCHANGED <<jobs, spoilt>>

(* The user edits the file by hand. *)
UserEdits(n) ==
    /\ HbOp /\ spoilt' = TRUE
    /\ \E f \in {"prose", "block"}, t \in HbTask : file' = [form |-> f, tasks |-> n :> t]
    /\ UNCHANGED <<jobs, asked>>

----------------------------------------------------------------------------
Wanted(t) == t.every # HbBad

(* A task that has a job changes it, without a new time to run at and      *)
(* without enabling it; a job whose interval became invalid stays as it is.*)
SyncedJob(n, t) ==
    IF ~Wanted(t) THEN jobs[n]
    ELSE IF n \in DOMAIN jobs THEN [jobs[n] EXCEPT !.every = t.every, !.prompt = t.prompt]
    ELSE [every |-> t.every, prompt |-> t.prompt, enabled |-> TRUE]

Expected(tasks) == {n \in DOMAIN tasks : Wanted(tasks[n]) \/ n \in DOMAIN jobs}

(* Mutant: the jobs of tasks that are gone are not removed. *)
SyncKeepingStale(tasks) ==
    jobs' = [n \in Expected(tasks) |-> SyncedJob(n, tasks[n])] @@ jobs
SyncJobs(tasks) ==
    jobs' = [n \in Expected(tasks) |-> SyncedJob(n, tasks[n])]

(* SyncHeartbeatJobs: without tasks it returns before it removes anything. *)
SyncHeartbeatJobs ==
    IF DOMAIN Parsed(file) = {} THEN UNCHANGED jobs
    ELSE SyncJobs(Parsed(file))

(* The daemon starts again, or a run asks for a reload. *)
HbReload == HbOp /\ SyncHeartbeatJobs /\ UNCHANGED <<file, asked, spoilt>>

----------------------------------------------------------------------------
(* The user switches a job off, or removes it, by its id. *)
JobDisabled(n) ==
    /\ HbOp /\ n \in DOMAIN jobs /\ jobs' = [jobs EXCEPT ![n].enabled = ~@]
    /\ UNCHANGED <<file, asked, spoilt>>
JobRemoved(n) ==
    /\ HbOp /\ n \in DOMAIN jobs /\ jobs' = [m \in DOMAIN jobs \ {n} |-> jobs[m]]
    /\ UNCHANGED <<file, asked, spoilt>>

----------------------------------------------------------------------------
HbInit ==
    /\ file = [form |-> "none", tasks |-> HbNone] /\ jobs = HbNone
    /\ asked = HbNone /\ spoilt = FALSE /\ hbOps = 0

HbNext ==
    \/ HbReload
    \/ \E n \in HbNames : \/ HeartbeatAdd(n) \/ HeartbeatRemove(n) \/ UserEdits(n)
                          \/ JobDisabled(n) \/ JobRemoved(n)

----------------------------------------------------------------------------
(* At a reload, the tasks the tool has said it added have their jobs, with *)
(* the prompt of the task, and no other heartbeat job is left, unless the  *)
(* last task was removed (heartbeat.go:96 returns before it removes its    *)
(* job) or an interval is invalid (:119).  It holds for the files the tool *)
(* alone wrote, with names that need no quotes: manage.go:613 ignores the  *)
(* error of any other and writes the one task that is added over the rest. *)
TasksReachJobs == [][
    HbReload /\ ~spoilt =>
        /\ \A n \in DOMAIN asked : Wanted(asked[n]) =>
               n \in DOMAIN jobs' /\ jobs'[n].prompt = asked[n].prompt
        /\ DOMAIN asked # {} => DOMAIN jobs' \subseteq DOMAIN asked]_hbVars
=============================================================================
