-------------------------------- MODULE Flows --------------------------------
(***************************************************************************)
(* The flows: pipelines of agent runs (agent/flow.go), started by a client *)
(* or by the manage tool, whose state is kept in a store on disk           *)
(* (agent/flowstore.go), in the task registry in memory (agent/task.go)    *)
(* and, for the tool, in a table of the gateway (gateway.go:546).          *)
(*                                                                         *)
(* A step is what becomes of it: its agent is missing, its prompt is no    *)
(* template, or its run is made and answers, fails or is cut by the end of *)
(* the daemon.  Abstracted: prompts and outputs, and the store's pruning   *)
(* of runs that ended 30 days ago.  Bounds: FlowRuns, each run once;       *)
(* FlowFaults for the saves that fail and FlowLives for the daemons.       *)
(***************************************************************************)
EXTENDS Integers, Sequences

CONSTANTS FlowRuns, FlowDefs, FlowFaults, FlowLives

(* A definition is the sequence of its steps' outcomes. *)
ASSUME FlowsAssumption == FlowDefs \subseteq Seq({"run", "missing", "template"})

VARIABLES
    flowFile,   \* the definition on disk; <<>> while it is missing or being written
    flow,       \* flow[f]: [at, def, by, step]: the goroutine that executes f
    store,      \* the flow store in memory: f -> [status, outs]
    disk,       \* and its file
    tasks,      \* tasks[f]: the statuses of the tasks of its steps, in order
    told,       \* told[f]: what the caller can see: "nothing", "running", "completed", "failed"
    life,       \* [n, phase]: the daemon, "up", "stopping" (its context is cancelled) or "down"
    cut,        \* ghost: the runs with a step that was cancelled
    faults

flowVars == <<flowFile, flow, store, disk, tasks, told, life, cut, faults>>

NoRun == [status |-> "none", outs |-> 0]
NoFlow == [at |-> "none", def |-> <<>>, by |-> "none", step |-> 0]
Live(f) == flow[f].at \in {"step", "busy"}

(* saveRun: the store in memory has the change, its file has it unless the *)
(* write failed, of which there is only a line in the log.                 *)
SaveRun(f, status, outs) ==
    /\ store' = [store EXCEPT ![f] = [status |-> status, outs |-> outs]]
    /\ \/ disk' = store' /\ UNCHANGED faults
       \/ faults < FlowFaults /\ faults' = faults + 1 /\ UNCHANGED disk

----------------------------------------------------------------------------
(* flow_create, or the user's editor: the file is truncated, then written. *)
FlowCreate ==
    /\ \/ flowFile # <<>> /\ flowFile' = <<>>
       \/ flowFile = <<>> /\ flowFile' \in FlowDefs
    /\ UNCHANGED <<flow, store, disk, tasks, told, life, cut, faults>>

(* LoadFlowFile: a file with no steps, or none at all, is an error. *)
FlowLoads == flowFile # <<>>
(* templatePrompt: the template of a step either expands or does not. *)
TemplatePrompt(f) == flow[f].def[flow[f].step] # "template"
AgentFound(f) == flow[f].def[flow[f].step] # "missing"

(* A file without steps is refused; a run keeps the definition it began    *)
(* with.  The tool is answered at once, a client when the flow has ended.  *)
RunFlow(f, by) ==
    /\ life.phase = "up" /\ flow[f].at = "none" /\ FlowLoads
    /\ flow' = [flow EXCEPT ![f] = [at |-> "step", def |-> flowFile, by |-> by, step |-> 1]]
    /\ told' = [told EXCEPT ![f] = IF by = "tool" THEN "running" ELSE "nothing"]
    /\ SaveRun(f, "running", 0)
    /\ UNCHANGED <<flowFile, tasks, life, cut>>

HandleFlowRun(f) == RunFlow(f, "client")
ToolFlowRun(f) == RunFlow(f, "tool")

(* The flow has ended: its goroutine tells the caller. *)
Tell(f, status) ==
    /\ flow' = [flow EXCEPT ![f].at = "ended"]
    /\ told' = [told EXCEPT ![f] = status]

(* A step whose agent or prompt is wrong: no task, and no FlowCompleted.   *)
StepRefused(f) ==
    /\ flow[f].at = "step" /\ flow[f].step <= Len(flow[f].def)
    /\ ~(AgentFound(f) /\ TemplatePrompt(f))
    /\ SaveRun(f, "failed", store[f].outs) /\ Tell(f, "failed")
    /\ UNCHANGED <<flowFile, tasks, life, cut>>

StepBegins(f) ==
    /\ flow[f].at = "step" /\ flow[f].step <= Len(flow[f].def)
    /\ AgentFound(f) /\ TemplatePrompt(f)
    /\ tasks' = [tasks EXCEPT ![f] = Append(@, "running")]
    /\ flow' = [flow EXCEPT ![f].at = "busy"]
    /\ UNCHANGED <<flowFile, store, disk, told, life, cut, faults>>

Task(f, status) == tasks' = [tasks EXCEPT ![f][flow[f].step] = status]

(* Mutant: the step's error is saved, and the next step is begun. *)
StepFailedGoesOn(f) ==
    /\ flow[f].at = "busy"
    /\ Task(f, "failed") /\ SaveRun(f, "running", store[f].outs)
    /\ flow' = [flow EXCEPT ![f].at = "step", ![f].step = @ + 1]
    /\ UNCHANGED <<flowFile, told, life, cut>>
StepFails(f) ==
    /\ flow[f].at = "busy"
    /\ Task(f, "failed") /\ SaveRun(f, "failed", store[f].outs) /\ Tell(f, "failed")
    /\ UNCHANGED <<flowFile, life, cut>>

(* A run that was cancelled returns what it has and no error: its step     *)
(* counts as done, and so do the ones after it.                            *)
StepDone(f) ==
    /\ flow[f].at = "busy"
    /\ Task(f, "completed") /\ SaveRun(f, "running", store[f].outs + 1)
    /\ flow' = [flow EXCEPT ![f].at = "step", ![f].step = @ + 1]
    /\ cut' = IF life.phase = "stopping" THEN cut \cup {f} ELSE cut
    /\ UNCHANGED <<flowFile, told, life>>

FlowDone(f) ==
    /\ flow[f].at = "step" /\ flow[f].step > Len(flow[f].def)
    /\ SaveRun(f, "completed", store[f].outs) /\ Tell(f, "completed")
    /\ UNCHANGED <<flowFile, tasks, life, cut>>

----------------------------------------------------------------------------
FlowStop ==
    /\ life.phase = "up" /\ life' = [life EXCEPT !.phase = "stopping"]
    /\ UNCHANGED <<flowFile, flow, store, disk, tasks, told, cut, faults>>

(* The process ends: what was in memory is gone. *)
FlowCrash ==
    /\ life.phase # "down" /\ life' = [life EXCEPT !.phase = "down"]
    /\ flow' = [f \in FlowRuns |-> IF Live(f) THEN [flow[f] EXCEPT !.at = "lost"] ELSE flow[f]]
    /\ tasks' = [f \in FlowRuns |-> <<>>]
    /\ told' = [f \in FlowRuns |-> "nothing"]
    /\ UNCHANGED <<flowFile, store, disk, cut, faults>>

(* Mutant: a run that was left running is not looked for. *)
KeepStale(runs) == runs
(* A run that says "running" has no goroutine any more: it failed. *)
ClearStaleRunning(runs) ==
    [f \in FlowRuns |-> IF runs[f].status = "running" THEN [runs[f] EXCEPT !.status = "failed"] ELSE runs[f]]

(* The next daemon loads the store and clears it before it serves anybody. *)
FlowRestart ==
    /\ life.phase = "down" /\ life.n < FlowLives
    /\ life' = [n |-> life.n + 1, phase |-> "up"]
    /\ store' = ClearStaleRunning(disk)
    /\ \/ disk' = store' /\ UNCHANGED faults
       \/ faults < FlowFaults /\ faults' = faults + 1 /\ UNCHANGED disk
    /\ UNCHANGED <<flowFile, flow, tasks, told, cut>>

----------------------------------------------------------------------------
FlowInit ==
    /\ flowFile \in FlowDefs /\ flow = [f \in FlowRuns |-> NoFlow]
    /\ store = [f \in FlowRuns |-> NoRun] /\ disk = store
    /\ tasks = [f \in FlowRuns |-> <<>>] /\ told = [f \in FlowRuns |-> "nothing"]
    /\ life = [n |-> 1, phase |-> "up"] /\ cut = {} /\ faults = 0

FlowStep == \E f \in FlowRuns :
    StepRefused(f) \/ StepBegins(f) \/ StepFails(f) \/ StepDone(f) \/ FlowDone(f)
(* The goroutine of a flow goes on from step to step, but its step's run   *)
(* need not end before the end of the daemon cancels it.                   *)
FlowGoesOn ==
    \/ \E f \in FlowRuns : StepRefused(f) \/ StepBegins(f) \/ FlowDone(f)
    \/ life.phase = "stopping" /\ FlowStep
FlowNext ==
    \/ FlowCreate \/ FlowStep \/ FlowStop \/ FlowCrash \/ FlowRestart
    \/ \E f \in FlowRuns : HandleFlowRun(f) \/ ToolFlowRun(f)
FlowSpec == FlowInit /\ [][FlowNext]_flowVars

----------------------------------------------------------------------------
(* A flow that the store calls completed has the output of every step of   *)
(* the definition it began with, whatever was written over that file; one  *)
(* it calls running is being executed, over restarts too (flowstore.go:72  *)
(* "stale from restart").                                                  *)
StoreIsTrue == \A f \in FlowRuns :
    /\ store[f].status = "completed" => store[f].outs = Len(flow[f].def)
    /\ life.phase # "down" /\ store[f].status = "running" => Live(f)

(* A flow that is executed, or that the store calls running, ends there as *)
(* completed or failed, by its own goroutine, by the cancelled context or  *)
(* by the start of the next daemon (flowstore.go:72).  Two things leave it *)
(* running: a daemon that is down, and a step's run that does not end while *)
(* the daemon is up, because it waits for an approval without a timeout    *)
(* (flow.go:125-131).                                                      *)
FlowsEnd == \A f \in FlowRuns :
    (Live(f) \/ store[f].status = "running") ~>
        \/ store[f].status \in {"completed", "failed"} \/ life.phase = "down"
        \/ life.phase = "up" /\ flow[f].at = "busy"
=============================================================================
