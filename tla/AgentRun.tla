------------------------------ MODULE AgentRun ------------------------------
(***************************************************************************)
(* Runs of agents in sessions: Runner.Run and the turn loop under it       *)
(* (ConversationRuntime.RunTurn), with the event log each run leaves in    *)
(* its session, the instance table that agent.cancel looks runs up in, and *)
(* the callers: clients that continue a session, jobs, and agent.cancel.   *)
(*                                                                         *)
(* A run is a goroutine.  Its model, its tools and whoever answers its     *)
(* approvals do as they please; text, token counts and tool inputs are     *)
(* left out, and so are the events RebuildMessages skips.  A sub-agent is  *)
(* a tool whose own run writes to a session of its own.                    *)
(***************************************************************************)
EXTENDS Transcript, FiniteSets

CONSTANTS
  Sessions,      \* session ids
  Persistent,    \* those of kind main or project
  Main,          \* the main session
  RunIds,        \* goroutines that can be executing Run, each used once
  JobRuns,       \* those started by the job executor
  Tools,         \* tool names
  Signatures,    \* digests of a step's calls and results
  NoRun,         \* no instance is registered
  MaxIterations, \* model calls of one turn (HardMaxIterations)
  MaxToolErrors, \* errors in a row of one tool before guidance (3)
  MaxResets,     \* guidances before the turn is stopped (2)
  LoopWindow,    \* steps isLooping looks back (10)
  LoopRepeats,   \* repeats it tolerates there (5)
  MaxBatch,      \* bound: tool calls in one model response
  MaxCrashes     \* bound: crashes of the daemon

ASSUME RunAssumption ==
  /\ Persistent \subseteq Sessions /\ Main \in Persistent
  /\ JobRuns \subseteq RunIds /\ NoRun \notin RunIds
  /\ NoCall \notin RunIds \X Nat
  /\ {MaxIterations, MaxToolErrors, MaxResets, LoopWindow} \subseteq Nat \ {0}
  /\ {LoopRepeats, MaxBatch, MaxCrashes} \subseteq Nat

VARIABLES
  log,        \* events.jsonl of each session
  status,     \* the status in its meta.json, "none" before it exists
  instances,  \* Registry.instances
  run,        \* what each goroutine holds
  cancelled,  \* runs whose context is cancelled
  crashes,
  shared      \* history: runs that met another run in their session

vars == <<log, status, instances, run, cancelled, crashes, shared>>

InTurn     == {"ask", "stream", "tools", "approval"}
Registered == InTurn \cup {"registered", "finish"}
Phases     == Registered \cup {"idle", "read", "returned", "over", "lost"}
Reasons    == {"none", "end_turn", "max_iterations", "loop_detected",
               "degenerate_output", "consecutive_errors", "token_budget",
               "cancelled", "error", "unresolved"}
Statuses   == {"none", "active", "completed", "error", "cancelled"}
CallIds    == RunIds \X Nat

(* pending holds the calls of the current response, answered how many of   *)
(* them have their result.  streak is history: the failures in a row of    *)
(* each tool, which the code forgets when it resets its counter.           *)
RunState ==
  [at : Phases, session : Sessions,
   prompt : Seq([role : Roles, calls : Seq(CallIds)]),
   pending : Seq([id : CallIds, tool : Tools]), answered : Nat, issued : Nat,
   steps : Nat, sigs : Seq(Signatures), errs : [Tools -> Nat], resets : Nat,
   said : BOOLEAN, reason : Reasons, streak : [Tools -> Nat]]

TypeOK ==
  /\ log \in [Sessions -> Seq([type : EventTypes, call : CallIds \cup {NoCall}])]
  /\ status \in [Sessions -> Statuses]
  /\ instances \in [Sessions -> RunIds \cup {NoRun}]
  /\ run \in [RunIds -> RunState]
  /\ cancelled \subseteq RunIds /\ shared \subseteq RunIds
  /\ crashes \in Nat

At(r)      == run[r].at
Session(r) == run[r].session
InFlight   == {r \in RunIds : At(r) \notin {"idle", "over", "lost"}}
Running(s) == {r \in InFlight : Session(r) = s}

Log(s, type, id) == log' = [log EXCEPT ![s] = Append(@, Event(type, id))]
Goto(r, phase)   == run' = [run EXCEPT ![r].at = phase]
Stop(r, reason)  == run' = [run EXCEPT ![r].at = "finish", ![r].reason = reason]
-----------------------------------------------------------------------------
(* Beginnings.                                                             *)

Fresh(s, prompt) ==
  [at |-> "read", session |-> s, prompt |-> prompt, pending |-> <<>>,
   answered |-> 0, issued |-> 0, steps |-> 0, sigs |-> <<>>,
   errs |-> [t \in Tools |-> 0], resets |-> 0, said |-> FALSE,
   reason |-> "none", streak |-> [t \in Tools |-> 0]]

(* What is left of a goroutine that has ended.                             *)
Ended(state, phase) == [Fresh(state.session, <<>>) EXCEPT !.at = phase]

(* Nobody keeps two runs out of one session: a client and a job can be in  *)
(* the main session at a time.                                             *)
Enter(r, s) ==
  shared' = IF Running(s) = {} THEN shared ELSE shared \cup Running(s) \cup {r}

(* agent.run and session.continue rebuild the history before they call Run.*)
Continue(r, s) ==
  /\ r \notin JobRuns
  /\ At(r) = "idle" /\ status[s] # "none" /\ Enter(r, s)
  /\ run' = [run EXCEPT ![r] = Fresh(s, RebuildMessages(log[s]))]
  /\ UNCHANGED <<log, status, instances, cancelled, crashes>>

(* A job of the main session starts from its prompt alone.                 *)
RunInMain(r) ==
  /\ r \in JobRuns
  /\ At(r) = "idle" /\ Enter(r, Main)
  /\ run' = [run EXCEPT ![r] = Fresh(Main, <<>>)]
  /\ UNCHANGED <<log, status, instances, cancelled, crashes>>

Create(r, s) ==
  /\ At(r) = "idle" /\ status[s] = "none" /\ Enter(r, s)
  /\ status' = [status EXCEPT ![s] = "active"]
  /\ run' = [run EXCEPT ![r] = Fresh(s, <<>>)]
  /\ UNCHANGED <<log, instances, cancelled, crashes>>

RegisterInstance(r) ==
  /\ At(r) = "read"
  /\ instances' = [instances EXCEPT ![Session(r)] = r]
  /\ Goto(r, "registered")
  /\ UNCHANGED <<log, status, cancelled, crashes, shared>>

(* Mutant: the instance is left behind.                                    *)
KeepInstance(s) == UNCHANGED instances

RemoveInstance(s) == instances' = [instances EXCEPT ![s] = NoRun]

(* No model for the role: Run returns before it touches the session.       *)
ResolveFails(r) ==
  /\ At(r) = "registered"
  /\ RemoveInstance(Session(r))
  /\ run' = [run EXCEPT ![r].at = "returned", ![r].reason = "unresolved"]
  /\ UNCHANGED <<log, status, cancelled, crashes, shared>>

Prompt(r) ==
  /\ At(r) = "registered"
  /\ Log(Session(r), "user_message", NoCall)
  /\ run' = [run EXCEPT ![r].at = "ask",
                        ![r].prompt = Append(@, Message("user", <<>>))]
  /\ UNCHANGED <<status, instances, cancelled, crashes, shared>>
-----------------------------------------------------------------------------
(* The turn loop.                                                          *)

Ask(r) ==
  /\ At(r) = "ask"
  /\ IF r \in cancelled THEN Stop(r, "cancelled")
     ELSE \/ run' = [run EXCEPT ![r].at = "stream", ![r].pending = <<>>,
                                ![r].answered = 0]
          \/ Stop(r, "error")
  /\ UNCHANGED <<log, status, instances, cancelled, crashes, shared>>

(* A tool call is emitted, and so logged, as soon as it is streamed.       *)
StreamCall(r, t) ==
  /\ At(r) = "stream" /\ Len(run[r].pending) < MaxBatch
  /\ LET id == <<r, run[r].issued + 1>>
     IN  /\ Log(Session(r), "tool_call", id)
         /\ run' = [run EXCEPT ![r].pending = Append(@, [id |-> id, tool |-> t]),
                               ![r].issued = @ + 1]
  /\ UNCHANGED <<status, instances, cancelled, crashes, shared>>

StreamFails(r) ==
  /\ At(r) = "stream"
  /\ Stop(r, "error")
  /\ UNCHANGED <<log, status, instances, cancelled, crashes, shared>>

CallsOf(state) == [i \in 1 .. Len(state.pending) |-> state.pending[i].id]

(* The budget and the repetition check come before anything is executed.   *)
StreamEnds(r, text) ==
  /\ At(r) = "stream"
  /\ \/ Stop(r, "token_budget")
     \/ text /\ Stop(r, "degenerate_output")
     \/ /\ run[r].pending = <<>>
        /\ run' = [run EXCEPT ![r].at = "finish", ![r].reason = "end_turn",
                              ![r].said = @ \/ text]
     \/ /\ run[r].pending # <<>>
        /\ run' = [run EXCEPT ![r].at = "tools", ![r].said = @ \/ text,
             ![r].prompt = Append(@, Message("assistant", CallsOf(run[r])))]
  /\ UNCHANGED <<log, status, instances, cancelled, crashes, shared>>

Count(sigs, sig) == Cardinality({i \in DOMAIN sigs : sigs[i] = sig})

IsLooping(sigs) ==
  /\ Len(sigs) >= LoopWindow
  /\ LET window == SubSeq(sigs, Len(sigs) - LoopWindow + 1, Len(sigs))
     IN  \E sig \in ToSet(window) : Count(window, sig) > LoopRepeats

(* What the turn does once every call of a response has its result.        *)
NextStep(state, sig) ==
  LET next == [state EXCEPT !.sigs = Append(@, sig), !.steps = @ + 1,
                 !.prompt = Append(@, Message("tool", CallsOf(state)))]
  IN  IF IsLooping(next.sigs)
      THEN [next EXCEPT !.at = "finish", !.reason = "loop_detected"]
      ELSE IF next.steps = MaxIterations
      THEN [next EXCEPT !.at = "finish", !.reason = "max_iterations"]
      ELSE [next EXCEPT !.at = "ask"]

(* Mutant: nobody counts the guidances.                                    *)
TallyForgets(state, t, failed) ==
  LET errs == IF failed THEN state.errs[t] + 1 ELSE 0
  IN  [state EXCEPT !.answered = @ + 1,
         !.errs[t] = IF errs >= MaxToolErrors THEN 0 ELSE errs,
         !.streak[t] = IF failed THEN @ + 1 ELSE 0]

(* The error counter of a tool: the guidance that is due when it reaches   *)
(* MaxToolErrors resets it.                                                *)
Tally(state, t, failed) ==
  LET errs  == IF failed THEN state.errs[t] + 1 ELSE 0
      reset == errs >= MaxToolErrors
  IN  [state EXCEPT !.answered = @ + 1,
         !.errs[t] = IF reset THEN 0 ELSE errs,
         !.resets = IF reset THEN @ + 1 ELSE @,
         !.streak[t] = IF failed THEN @ + 1 ELSE 0]

(* The MaxResets-th guidance stops the turn in the middle of the batch.    *)
AfterResult(state, sig) ==
  IF state.resets >= MaxResets
  THEN [state EXCEPT !.at = "finish", !.reason = "consecutive_errors"]
  ELSE IF state.answered < Len(state.pending)
  THEN [state EXCEPT !.at = "tools"]
  ELSE NextStep(state, sig)

Result(r, failed) ==
  LET call == run[r].pending[run[r].answered + 1]
  IN  /\ Log(Session(r), "tool_result", call.id)
      /\ \E sig \in Signatures :
           run' = [run EXCEPT ![r] = AfterResult(Tally(@, call.tool, failed), sig)]
      /\ UNCHANGED <<status, instances, cancelled, crashes, shared>>

(* Hooks, permissions, validation and the tool itself decide the outcome.  *)
ExecuteTool(r, failed) == At(r) = "tools" /\ Result(r, failed)

(* Permission or the workspace boundary needs the consent of the user.     *)
RequestApproval(r) ==
  /\ At(r) = "tools"
  /\ Goto(r, "approval")
  /\ UNCHANGED <<log, status, instances, cancelled, crashes, shared>>

(* Whoever answers may refuse, or let the tool succeed or fail.            *)
AnswerApproval(r, failed) == At(r) = "approval" /\ Result(r, failed)

(* Mutant: the wait does not watch the context.                            *)
ApprovalNotCancelled(r) ==
  At(r) = "approval" /\ r \notin RunIds /\ Result(r, TRUE)

(* A cancelled context ends the wait as a refusal.                         *)
ApprovalCancelled(r) == At(r) = "approval" /\ r \in cancelled /\ Result(r, TRUE)
-----------------------------------------------------------------------------
(* Ends.                                                                   *)

StatusAfter(reason) ==
  CASE reason = "error"     -> "error"
    [] reason = "cancelled" -> "cancelled"
    [] OTHER                -> "completed"

(* Sessions of kind main or project stay active.                           *)
SetStatus(s, st) ==
  status' = IF s \in Persistent THEN status ELSE [status EXCEPT ![s] = st]

(* A turn that ended in an error leaves a system message, one that was     *)
(* cancelled nothing, any other its last text if there was one.            *)
Return(r) ==
  LET s == Session(r)
      reason == run[r].reason
  IN  /\ At(r) = "finish"
      /\ CASE reason = "error" -> Log(s, "system_message", NoCall)
           [] reason # "error" /\ reason # "cancelled" /\ run[r].said
                               -> Log(s, "assistant_message", NoCall)
           [] OTHER            -> UNCHANGED log
      /\ SetStatus(s, StatusAfter(reason))
      /\ RemoveInstance(s)
      /\ Goto(r, "returned")
      /\ UNCHANGED <<cancelled, crashes, shared>>

(* The job executor updates the status once more, but only when Run        *)
(* returned a result: after an error it does not know the session.         *)
Leave(r) ==
  /\ At(r) = "returned"
  /\ IF r \in JobRuns /\ run[r].reason \notin {"error", "unresolved"}
     THEN SetStatus(Session(r), "completed") ELSE UNCHANGED status
  /\ run' = [run EXCEPT ![r] = Ended(@, "over")]
  /\ UNCHANGED <<log, instances, cancelled, crashes, shared>>

(* agent.cancel names a session and cancels the run the table knows.       *)
Cancel(s) ==
  /\ instances[s] \in RunIds \ cancelled
  /\ cancelled' = cancelled \cup {instances[s]}
  /\ UNCHANGED <<log, status, instances, run, crashes, shared>>

Crash ==
  /\ crashes < MaxCrashes /\ crashes' = crashes + 1
  /\ run' = [r \in RunIds |->
               IF r \in InFlight THEN Ended(run[r], "lost") ELSE run[r]]
  /\ instances' = [s \in Sessions |-> NoRun]
  /\ UNCHANGED <<log, status, cancelled, shared>>
-----------------------------------------------------------------------------
(* The persistent sessions exist before the first run.                     *)
Init ==
  /\ log = [s \in Sessions |-> <<>>]
  /\ status = [s \in Sessions |-> IF s \in Persistent THEN "active" ELSE "none"]
  /\ instances = [s \in Sessions |-> NoRun]
  /\ run = [r \in RunIds |-> Ended([session |-> Main], "idle")]
  /\ cancelled = {} /\ crashes = 0 /\ shared = {}

Begin(r) == RunInMain(r) \/ \E s \in Sessions : Continue(r, s) \/ Create(r, s)

Step(r) ==
  \/ RegisterInstance(r) \/ ResolveFails(r) \/ Prompt(r)
  \/ Ask(r)
  \/ \E t \in Tools : StreamCall(r, t)
  \/ StreamFails(r)
  \/ \E text \in BOOLEAN : StreamEnds(r, text)
  \/ \E failed \in BOOLEAN : ExecuteTool(r, failed)
  \/ RequestApproval(r) \/ ApprovalCancelled(r)
  \/ Return(r) \/ Leave(r)

User ==
  \/ \E r \in RunIds, failed \in BOOLEAN : AnswerApproval(r, failed)
  \/ \E s \in Sessions : Cancel(s)

Next == (\E r \in RunIds : Begin(r) \/ Step(r)) \/ User \/ Crash

Spec == Init /\ [][Next]_vars

(* Every goroutine that can run does, and streams and tools come to an     *)
(* end.  Nobody has to answer an approval.                                 *)
FairSpec == Spec /\ \A r \in RunIds : WF_vars(Step(r))
-----------------------------------------------------------------------------
(* A session two runs were in at a time.                                   *)
Mixed(s) == \E r \in shared : Session(r) = s

(* The instance table agent.cancel uses never names a run that is over, or *)
(* one of another session; and it has every run between RegisterInstance   *)
(* and RemoveInstance, but for one that met another run in its session:    *)
(* the later registration hides it, and the end of either removes both.    *)
TableTracksRuns ==
  /\ \A s \in Sessions, r \in RunIds :
       instances[s] = r => At(r) \in Registered /\ Session(r) = s
  /\ \A r \in RunIds :
       At(r) \in Registered => instances[Session(r)] = r \/ r \in shared

(* However the events of a session came about, if one run followed another *)
(* in it, once all its calls have their results RebuildMessages makes a    *)
(* conversation of it that a model accepts: calls streamed together stay   *)
(* together, next to their results.                                        *)
CallsIn(s, type) == {ev.call : ev \in {e \in ToSet(log[s]) : e.type = type}}

AnsweredLogRebuilds ==
  \A s \in Sessions :
    ~Mixed(s) /\ CallsIn(s, "tool_call") = CallsIn(s, "tool_result") =>
      WellFormed(RebuildMessages(log[s]))

(* A turn never lets one tool fail more than MaxToolErrors * MaxResets     *)
(* times in a row, in however many responses, although the code clears     *)
(* the counter of the tool in between and counts guidances for all tools.  *)
ToolFailuresBounded ==
  \A r \in RunIds, t \in Tools : run[r].streak[t] <= MaxToolErrors * MaxResets

(* A turn that goes on past its first window has spent at most LoopRepeats *)
(* of every LoopWindow steps on any one step.                              *)
RepetitionBounded ==
  \A r \in RunIds :
    LET n == Len(run[r].sigs)
    IN  At(r) \in InTurn /\ n >= LoopWindow =>
          \A sig \in Signatures :
            Count(run[r].sigs, sig)
              <= LoopRepeats * ((n + LoopWindow - 1) \div LoopWindow)

(* Between two steps, what a resumed run would rebuild from the log is, up *)
(* to text, the conversation the model has been shown: nothing it did is   *)
(* lost, moved or regrouped, whatever runs and crashes came before, one    *)
(* after the other.  (A job in the main session does not start from the    *)
(* log.)                                                                   *)
Flat(msgs) ==
  FlattenSeq([i \in DOMAIN msgs |->
    CASE msgs[i].role = "tool" ->
           [k \in DOMAIN msgs[i].calls |-> Message("tool", <<msgs[i].calls[k]>>)]
      [] msgs[i].role = "assistant" /\ msgs[i].calls = <<>> -> <<>>
      [] OTHER -> <<msgs[i]>>])

ResumeSeesWhatModelSaw ==
  \A r \in RunIds \ JobRuns :
    At(r) = "ask" /\ ~Mixed(Session(r)) =>
      Flat(run[r].prompt) = Flat(RebuildMessages(log[Session(r)]))

(* Both: a log gives back the conversation it recorded, in a form a model  *)
(* accepts exactly when no turn broke off between a call and its result    *)
(* (convert.go:10, runtime.go:213).                                        *)
HistoryRebuilds == AnsweredLogRebuilds /\ ResumeSeesWhatModelSaw

(* Whatever ends a run in it, a main or project session stays active:      *)
(* FindByProject and the reaper rely on it.                                *)
PersistentStaysActive == \A s \in Persistent : status[s] = "active"

(* The two tables others go by, the instances for agent.cancel and the     *)
(* status for the reaper, follow the runs (registry.go:74, runner.go:391). *)
TablesFollowRuns == TableTracksRuns /\ PersistentStaysActive

(* agent.cancel ends the run it names, even one that waits for an approval *)
(* nobody answers, or one whose tools all fail.                            *)
CancelEnds == \A r \in RunIds : r \in cancelled ~> At(r) \in {"over", "lost"}

(* A turn that nobody cancels ends, too, or waits for the user.            *)
TurnEnds ==
  \A r \in RunIds : At(r) \in InTurn ~> At(r) \in {"approval", "over", "lost"}

(* All of it: a turn comes to an end, by itself or cancelled, and does not *)
(* repeat itself until then (runtime.go:136, approval.go:75, loop.go:102). *)
TurnsEnd == CancelEnds /\ TurnEnds /\ []RepetitionBounded
=============================================================================
