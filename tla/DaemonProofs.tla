---------------------------- MODULE DaemonProofs ----------------------------
(***************************************************************************)
(* Theorems about the daemon: about Gateway, for any number of daemons,    *)
(* clients, requests and crashes; and about what goes on in its            *)
(* background: Flows, for any number of flow runs, definitions, failed     *)
(* saves and restarts, Reminders, for any number of callers, reminders and *)
(* deaths, and Startup, for any number of phases, callers, starts and      *)
(* crashes.                                                                *)
(***************************************************************************)
EXTENDS Gateway, Flows, Reminders, Startup, TLAPS

Stages == {"unborn", "spawned", "listening", "serving", "closing", "unlisted", "gone"}

-----------------------------------------------------------------------------
(* Typing.                                                                 *)

LEMMA GoneKeepsTypes ==
  ASSUME TypeOK, NEW d \in Daemons, Gone(d)
  PROVE  /\ proc' \in [Daemons -> Stages]
         /\ armed' \in [Daemons -> BOOLEAN]
         /\ idler' \in [Daemons -> {"none", "checking", "leaving"}]
         /\ accepted' \in [Daemons -> SUBSET Clients]
         /\ runs' \in [Daemons -> SUBSET Clients]
         /\ call' \in [Clients -> Kinds \cup {"none", "waiting", "answered", "done", "hung"}]
BY DEF TypeOK, Gone, Stages

LEMMA TypesKept == TypeOK /\ [Next]_vars => TypeOK'
<1> SUFFICES ASSUME TypeOK, [Next]_vars PROVE TypeOK'
  OBVIOUS
<1> USE GatewayAssumption
<1>1. CASE UNCHANGED vars
  BY <1>1 DEF vars, files, daemon, work, client, io, TypeOK
<1>2. CASE DaemonStop
  <2>1. pid \in Daemons
    BY <1>2 DEF DaemonStop, TypeOK
  <2>2. Gone(pid) /\ UNCHANGED <<sock, pid, crowded, jobs, at, conn>>
    BY <1>2 DEF DaemonStop, files, client
  <2> QED
    BY <2>1, <2>2, GoneKeepsTypes DEF TypeOK, Stages
<1>3. ASSUME NEW d \in Daemons, New(d) \/ Listen(d) \/ Serve(d) PROVE TypeOK'
  BY <1>3 DEF New, Listen, Serve, TypeOK, files, work, client, io
<1>4. ASSUME NEW d \in Daemons, Idling(d) PROVE TypeOK'
  BY <1>4 DEF Idling, TimerFires, OnIdle, IdleShutdown, TypeOK, files, work, client, io
<1>5. ASSUME NEW d \in Daemons, CloseListener(d) PROVE TypeOK'
  BY <1>5 DEF CloseListener, TypeOK, work, client, io
<1>6. ASSUME NEW d \in Daemons, Cleanup(d) \/ Crash(d) PROVE TypeOK'
  <2>1. Gone(d) /\ UNCHANGED <<crowded, jobs, at, conn>>
    BY <1>6 DEF Cleanup, Crash, files, client
  <2>2. sock' \in {sock, None} /\ pid' \in {pid, None}
    BY <1>6 DEF Cleanup, Crash, files
  <2> QED
    BY <2>1, <2>2, GoneKeepsTypes DEF TypeOK, Stages
<1>7. ASSUME NEW c \in Clients, Dial(c) \/ Poll(c) PROVE TypeOK'
  <2>1. CASE Connected(c)
    <3>1. sock \in Daemons
      BY <2>1 DEF Connected, Listens, TypeOK
    <3> QED
      BY <2>1, <3>1 DEF Connected, TypeOK, files, work, io
  <2>2. CASE at' = [at EXCEPT ![c] = "refused"] /\ UNCHANGED <<files, daemon, work, conn, io>>
    BY <2>2 DEF TypeOK, files, daemon, work, io
  <2> QED
    BY <1>7, <2>1, <2>2 DEF Dial, Poll
<1>8. ASSUME NEW c \in Clients, ReadPid(c) \/ ClearStale(c) \/ GiveUp(c) \/ Close(c)
      PROVE TypeOK'
  <2>1. CASE ReadPid(c) \/ GiveUp(c)
    BY <2>1 DEF ReadPid, GiveUp, TypeOK, files, daemon, work, io
  <2>2. CASE ClearStale(c)
    BY <2>2 DEF ClearStale, TypeOK, daemon, work, io
  <2>3. CASE Close(c)
    BY <2>3 DEF Close, TypeOK, files, daemon, work
  <2> QED
    BY <1>8, <2>1, <2>2, <2>3
<1>9. ASSUME NEW c \in Clients, ReadLoop(c) \/ Take(c) \/ \E kind \in Kinds : Send(c, kind)
      PROVE TypeOK'
  BY <1>9 DEF ReadLoop, Take, Send, TypeOK, files, daemon, work, client
<1>10. ASSUME NEW c \in Clients, NEW d \in Daemons, Spawn(c, d) PROVE TypeOK'
  BY <1>10 DEF Spawn, TypeOK, work, io
<1>11. ASSUME NEW c \in Clients, NEW d \in Daemons, HandleRequest(d, c) PROVE TypeOK'
  <2>1. /\ armed' \in [Daemons -> BOOLEAN]
        /\ call' \in [Clients -> Kinds \cup {"none", "waiting", "answered", "done", "hung"}]
    BY <1>11 DEF HandleRequest, Respond, TypeOK
  <2>2. accepted' \in [Daemons -> SUBSET Clients]
    BY <1>11 DEF HandleRequest, TypeOK
  <2>3. proc' \in [Daemons -> Stages] /\ jobs' \in BOOLEAN
    BY <1>11 DEF HandleRequest, TypeOK, Stages
  <2> QED
    BY <1>11, <2>1, <2>2, <2>3 DEF HandleRequest, TypeOK, files, client, Stages
<1>12. ASSUME NEW c \in Clients, NEW d \in Daemons,
              RejectRun(d, c) \/ RegisterRun(d, c) \/ EmitPart(d, c) \/ FinishRun(d, c)
       PROVE TypeOK'
  BY <1>12 DEF RejectRun, RegisterRun, EmitPart, FinishRun, Finish, Respond, TypeOK,
               files, daemon, client, io
<1> QED
  BY <1>1, <1>2, <1>3, <1>4, <1>5, <1>6, <1>7, <1>8, <1>9, <1>10, <1>11, <1>12
     DEF Next, Closing, Handling

(* The state of the daemons and clients stays well typed.                  *)
THEOREM GatewayTypeCorrect == Spec => []TypeOK
<1>1. Init => TypeOK
  <2> SUFFICES ASSUME Init PROVE TypeOK
    OBVIOUS
  <2>1. /\ proc \in [Daemons -> Stages] /\ armed \in [Daemons -> BOOLEAN]
        /\ idler \in [Daemons -> {"none", "checking", "leaving"}]
    BY DEF Init, Stages
  <2>2. accepted \in [Daemons -> SUBSET Clients] /\ runs \in [Daemons -> SUBSET Clients]
    BY DEF Init
  <2>3. /\ at \in [Clients -> {"idle", "refused", "stale", "spawning", "polling",
                              "connected", "failed"}]
        /\ conn \in [Clients -> Daemons \cup {None}]
        /\ call \in [Clients -> Kinds \cup {"none", "waiting", "answered", "done", "hung"}]
    BY DEF Init
  <2> QED
    BY <2>1, <2>2, <2>3 DEF Init, TypeOK, Stages
<1> QED
  BY <1>1, TypesKept, PTL DEF Spec

-----------------------------------------------------------------------------
(* Reachability.  A daemon that is alone has made both files its own step  *)
(* by step, and nobody is left who could take them away.                   *)

OneLives ==
  ~crowded => \A d, e \in Daemons : Living(d) /\ Living(e) => d = e

FilesAreMine ==
  ~crowded => \A d \in Daemons :
    /\ proc[d] \in {"listening", "serving"} => sock = d
    /\ proc[d] = "serving" => pid = d

GatewayInv == TypeOK /\ OneLives /\ FilesAreMine

(* A step that starts nobody and moves no process back into life, and      *)
(* leaves the files alone, keeps both.                                     *)
LEMMA QuietStep ==
  ASSUME GatewayInv, UNCHANGED <<sock, pid, crowded>>,
         \A d \in Daemons : \/ proc'[d] = proc[d]
                            \/ Living(d) /\ proc'[d] \in {"closing", "gone"}
  PROVE  OneLives' /\ FilesAreMine'
BY DEF GatewayInv, TypeOK, OneLives, FilesAreMine, Living

LEMMA GoneIsQuiet ==
  ASSUME TypeOK, NEW d \in Daemons, Living(d), Gone(d)
  PROVE  \A e \in Daemons : \/ proc'[e] = proc[e]
                            \/ Living(e) /\ proc'[e] \in {"closing", "gone"}
BY DEF TypeOK, Gone, Living

LEMMA FilesStayMine == GatewayInv /\ [Next]_vars => OneLives' /\ FilesAreMine'
<1> SUFFICES ASSUME GatewayInv, [Next]_vars PROVE OneLives' /\ FilesAreMine'
  OBVIOUS
<1>0. TypeOK
  BY DEF GatewayInv
<1>1. CASE UNCHANGED vars
  BY <1>1, QuietStep DEF vars, files, daemon
<1>2. CASE DaemonStop
  <2>1. pid \in Daemons /\ Living(pid) /\ Gone(pid) /\ UNCHANGED <<sock, pid, crowded>>
    BY <1>0, <1>2 DEF DaemonStop, TypeOK, files
  <2> QED
    BY <1>0, <2>1, GoneIsQuiet, QuietStep
<1>3. ASSUME NEW d \in Daemons, Listen(d) PROVE OneLives' /\ FilesAreMine'
  BY <1>3 DEF Listen, GatewayInv, TypeOK, OneLives, FilesAreMine, Living
<1>4. ASSUME NEW d \in Daemons, Serve(d) PROVE OneLives' /\ FilesAreMine'
  BY <1>4 DEF Serve, GatewayInv, TypeOK, OneLives, FilesAreMine, Living
<1>5. ASSUME NEW d \in Daemons, New(d) \/ Idling(d) PROVE OneLives' /\ FilesAreMine'
  <2>1. UNCHANGED <<sock, pid, crowded>>
    BY <1>5 DEF New, Idling, TimerFires, OnIdle, IdleShutdown, files
  <2>2. \A e \in Daemons : \/ proc'[e] = proc[e]
                           \/ Living(e) /\ proc'[e] \in {"closing", "gone"}
    BY <1>0, <1>5 DEF New, Idling, TimerFires, OnIdle, IdleShutdown, TypeOK, Living
  <2> QED
    BY <2>1, <2>2, QuietStep
<1>6. ASSUME NEW d \in Daemons, CloseListener(d) PROVE OneLives' /\ FilesAreMine'
  BY <1>6 DEF CloseListener, GatewayInv, TypeOK, OneLives, FilesAreMine, Living
<1>7. ASSUME NEW d \in Daemons, Cleanup(d) PROVE OneLives' /\ FilesAreMine'
  BY <1>7 DEF Cleanup, Gone, GatewayInv, TypeOK, OneLives, FilesAreMine, Living
<1>8. ASSUME NEW d \in Daemons, Crash(d) PROVE OneLives' /\ FilesAreMine'
  BY <1>0, <1>8, GoneIsQuiet, QuietStep DEF Crash, files
<1>9. ASSUME NEW c \in Clients, ClearStale(c) PROVE OneLives' /\ FilesAreMine'
  BY <1>9 DEF ClearStale, daemon, GatewayInv, TypeOK, OneLives, FilesAreMine, Living
<1>10. ASSUME NEW c \in Clients, NEW d \in Daemons, Spawn(c, d)
       PROVE  OneLives' /\ FilesAreMine'
  BY <1>10 DEF Spawn, GatewayInv, TypeOK, OneLives, FilesAreMine, Living
<1>11. ASSUME NEW c \in Clients,
              \/ Dial(c) \/ ReadPid(c) \/ Poll(c) \/ GiveUp(c) \/ Close(c)
              \/ ReadLoop(c) \/ Take(c) \/ \E kind \in Kinds : Send(c, kind)
       PROVE  OneLives' /\ FilesAreMine'
  <2>1. UNCHANGED <<sock, pid, crowded, proc>>
    BY <1>11 DEF Dial, Connected, ReadPid, Poll, GiveUp, Close, ReadLoop, Take, Send,
                 files, daemon
  <2> QED
    BY <2>1, QuietStep
<1>12. ASSUME NEW c \in Clients, NEW d \in Daemons,
              Handling(d, c) \/ EmitPart(d, c) \/ FinishRun(d, c)
       PROVE  OneLives' /\ FilesAreMine'
  <2>1. UNCHANGED <<sock, pid, crowded>>
    BY <1>12 DEF Handling, HandleRequest, RejectRun, RegisterRun, FinishRun, EmitPart, files
  <2>2. \A e \in Daemons : \/ proc'[e] = proc[e]
                           \/ Living(e) /\ proc'[e] \in {"closing", "gone"}
    BY <1>0, <1>12 DEF Handling, HandleRequest, RejectRun, RegisterRun, FinishRun, EmitPart,
                       daemon, TypeOK, Living
  <2> QED
    BY <2>1, <2>2, QuietStep
<1> QED
  BY <1>1, <1>2, <1>3, <1>4, <1>5, <1>6, <1>7, <1>8, <1>9, <1>10, <1>11, <1>12
     DEF Next, Closing

(* However many daemons follow one another and wherever they crash, one    *)
(* that is alone is reachable: the socket and the PID file are its own     *)
(* (client.go:63-74, gateway.go:790-811, 1235).                            *)
THEOREM AloneStaysReachable == Spec => []AloneIsReachable
<1>1. Init => OneLives /\ FilesAreMine
  BY DEF Init, OneLives, FilesAreMine, Living
<1>2. GatewayInv => AloneIsReachable
  BY DEF GatewayInv, FilesAreMine, AloneIsReachable
<1> QED
  BY <1>1, <1>2, GatewayTypeCorrect, FilesStayMine, PTL DEF Spec, GatewayInv

-----------------------------------------------------------------------------
(* Flows.                                                                  *)

Steps == {"run", "missing", "template"}
Runs == [status : {"none", "running", "completed", "failed"}, outs : Nat]

Goroutines == [at : {"none", "step", "busy", "ended", "lost"}, def : Seq(Steps),
               by : {"none", "client", "tool"}, step : Nat]

FlowTypes ==
  /\ flowFile \in Seq(Steps)
  /\ flow \in [FlowRuns -> Goroutines]
  /\ store \in [FlowRuns -> Runs]
  /\ disk \in [FlowRuns -> Runs]
  /\ life \in [n : Nat, phase : {"up", "stopping", "down"}]

(* A run that was never made is in neither store. *)
Unmade(f) == flow[f].at = "none" => store[f].status = "none" /\ disk[f].status = "none"

(* Memory and disk call a run completed only with all its outputs. *)
Whole(f, saved) == saved[f].status = "completed" => saved[f].outs = Len(flow[f].def)

(* The goroutine of a run is one step ahead of the outputs it has saved.   *)
Ahead(f) == Live(f) =>
  /\ life.phase # "down" /\ store[f].status = "running"
  /\ flow[f].step = store[f].outs + 1
  /\ flow[f].step <= Len(flow[f].def) + 1
  /\ flow[f].at = "busy" => flow[f].step <= Len(flow[f].def)

(* What is called running is executed while the daemon lives. *)
Executed(f) == life.phase # "down" /\ store[f].status = "running" => Live(f)

Sound(f) == Unmade(f) /\ Whole(f, store) /\ Whole(f, disk) /\ Ahead(f) /\ Executed(f)
FlowInv == FlowTypes /\ \A f \in FlowRuns : Sound(f)

-----------------------------------------------------------------------------
(* A save, whether or not it reaches the disk, changes one run in memory   *)
(* and leaves every run on disk as it was or as it is in memory.           *)
LEMMA SaveTouchesOne ==
  ASSUME FlowTypes, NEW f \in FlowRuns, NEW outs \in Nat,
         NEW status \in {"running", "completed", "failed"}, SaveRun(f, status, outs)
  PROVE  /\ store' \in [FlowRuns -> Runs] /\ disk' \in [FlowRuns -> Runs]
         /\ store'[f].status = status /\ store'[f].outs = outs
         /\ disk'[f] \in {disk[f], store'[f]}
         /\ \A g \in FlowRuns \ {f} : store'[g] = store[g] /\ disk'[g] \in {disk[g], store[g]}
<1> DEFINE r == [status |-> status, outs |-> outs]
<1>1. store' = [store EXCEPT ![f] = r] /\ disk' \in {store', disk}
  BY DEF SaveRun
<1>2. r \in Runs /\ r.status = status /\ r.outs = outs
  BY DEF Runs
<1> HIDE DEF r
<1>3. store' \in [FlowRuns -> Runs] /\ store'[f] = r
      /\ \A g \in FlowRuns \ {f} : store'[g] = store[g]
  BY <1>1, <1>2 DEF FlowTypes
<1> QED
  BY <1>1, <1>2, <1>3 DEF FlowTypes

(* What holds of a run stays, if a step touches neither its goroutine nor  *)
(* its record in memory, and writes at most that record to disk.           *)
LEMMA OthersStaySound ==
  ASSUME FlowTypes, NEW g \in FlowRuns, Sound(g), flow'[g] = flow[g], store'[g] = store[g],
         disk'[g] \in {disk[g], store[g]}, (life.phase = "down") <=> (life'.phase = "down")
  PROVE  Sound(g)'
BY DEF Sound, Unmade, Whole, Ahead, Executed, Live

(* A goroutine may move on without losing its type. *)
LEMMA MovesOn ==
  ASSUME FlowTypes, NEW f \in FlowRuns,
         NEW stage \in {"step", "busy", "ended", "lost"}, NEW step \in Nat
  PROVE  /\ [flow[f] EXCEPT !.at = stage] \in Goroutines
         /\ [flow[f] EXCEPT !.at = stage, !.step = step] \in Goroutines
BY DEF FlowTypes, Goroutines

LEMMA FlowStepSound ==
  ASSUME FlowInv, NEW f \in FlowRuns,
         \/ StepRefused(f) \/ StepFails(f) \/ StepDone(f) \/ FlowDone(f)
         \/ HandleFlowRun(f) \/ ToolFlowRun(f)
  PROVE  FlowInv'
<1> USE FlowsAssumption
<1>1. FlowTypes /\ Sound(f)
  BY DEF FlowInv
<1>2. life' = life
  BY DEF StepRefused, StepFails, StepDone, FlowDone, HandleFlowRun, ToolFlowRun, RunFlow
<1>3. /\ flow' \in [FlowRuns -> Goroutines]
      /\ flowFile' \in Seq(Steps)
      /\ \A g \in FlowRuns \ {f} : flow'[g] = flow[g]
  <2>1. CASE StepRefused(f) \/ StepFails(f) \/ FlowDone(f)
    <3>1. flow' = [flow EXCEPT ![f] = [flow[f] EXCEPT !.at = "ended"]] /\ flowFile' = flowFile
      BY <1>1, <2>1 DEF StepRefused, StepFails, FlowDone, Tell, FlowTypes, Goroutines
    <3>2. [flow[f] EXCEPT !.at = "ended"] \in Goroutines
      BY <1>1, MovesOn
    <3> QED
      BY <1>1, <3>1, <3>2 DEF FlowTypes, Goroutines
  <2>2. CASE StepDone(f)
    <3>1. /\ flow' = [flow EXCEPT ![f] = [flow[f] EXCEPT !.at = "step", !.step = flow[f].step + 1]]
          /\ flowFile' = flowFile
      BY <1>1, <2>2 DEF StepDone, FlowTypes, Goroutines
    <3>2. flow[f].step + 1 \in Nat
      BY <1>1 DEF FlowTypes, Goroutines, Goroutines
    <3>3. [flow[f] EXCEPT !.at = "step", !.step = flow[f].step + 1] \in Goroutines
      BY <1>1, <3>2, MovesOn
    <3> QED
      BY <1>1, <3>1, <3>3 DEF FlowTypes, Goroutines
  <2>3. CASE HandleFlowRun(f) \/ ToolFlowRun(f)
    <3>1. PICK by \in {"client", "tool"} : RunFlow(f, by)
      BY <2>3 DEF HandleFlowRun, ToolFlowRun
    <3>2. [at |-> "step", def |-> flowFile, by |-> by, step |-> 1] \in Goroutines
      BY <1>1 DEF FlowTypes, Goroutines, Goroutines
    <3> QED
      BY <1>1, <3>1, <3>2 DEF FlowTypes, Goroutines, RunFlow
  <2> QED
    BY <2>1, <2>2, <2>3
<1>4. PICK status \in {"running", "completed", "failed"}, outs \in Nat : SaveRun(f, status, outs)
  <2>1. store[f].outs \in Nat /\ store[f].outs + 1 \in Nat /\ 0 \in Nat
    BY <1>1 DEF FlowTypes, Goroutines, Runs
  <2> QED
    BY <2>1 DEF StepRefused, StepFails, StepDone, FlowDone, HandleFlowRun, ToolFlowRun, RunFlow
<1>5. /\ store' \in [FlowRuns -> Runs] /\ disk' \in [FlowRuns -> Runs]
      /\ disk'[f] \in {disk[f], store'[f]}
      /\ \A g \in FlowRuns \ {f} : store'[g] = store[g] /\ disk'[g] \in {disk[g], store[g]}
  BY <1>1, <1>4, SaveTouchesOne
<1>6. FlowTypes'
  BY <1>1, <1>2, <1>3, <1>5 DEF FlowTypes, Goroutines
<1>7. ASSUME NEW g \in FlowRuns \ {f} PROVE Sound(g)'
  BY <1>1, <1>2, <1>3, <1>5, <1>7, OthersStaySound DEF FlowInv
<1>8. ASSUME StepRefused(f) \/ StepFails(f) PROVE Sound(f)'
  <2>1. /\ SaveRun(f, "failed", store[f].outs) /\ flow[f].at # "none"
        /\ flow'[f] = [flow[f] EXCEPT !.at = "ended"]
    BY <1>1, <1>8 DEF StepRefused, StepFails, Tell, FlowTypes, Goroutines
  <2>2. store'[f].status = "failed" /\ store[f].outs \in Nat
    BY <1>1, <2>1, SaveTouchesOne DEF FlowTypes, Goroutines, Runs
  <2> QED
    BY <1>1, <1>5, <2>1, <2>2 DEF Sound, Unmade, Whole, Ahead, Executed, Live,
                                                FlowTypes, Goroutines
<1>9. ASSUME FlowDone(f) PROVE Sound(f)'
  <2>1. /\ SaveRun(f, "completed", store[f].outs) /\ flow[f].at = "step"
        /\ flow[f].step > Len(flow[f].def)
        /\ flow'[f] = [flow[f] EXCEPT !.at = "ended"]
    BY <1>1, <1>9 DEF FlowDone, Tell, FlowTypes, Goroutines
  <2>2. store'[f].status = "completed" /\ store'[f].outs = store[f].outs /\ store[f].outs \in Nat
    BY <1>1, <2>1, SaveTouchesOne DEF FlowTypes, Goroutines, Runs
  <2>3. store[f].outs = Len(flow[f].def)
    BY <1>1, <2>1, <2>2 DEF Sound, Ahead, Live, FlowTypes, Goroutines
  <2> QED
    BY <1>1, <1>5, <2>1, <2>2, <2>3 DEF Sound, Unmade, Whole, Ahead, Executed, Live,
                                                FlowTypes, Goroutines
<1>10. ASSUME StepDone(f) PROVE Sound(f)'
  <2>1. /\ SaveRun(f, "running", store[f].outs + 1) /\ flow[f].at = "busy"
        /\ flow'[f] = [flow[f] EXCEPT !.at = "step", !.step = @ + 1]
    BY <1>1, <1>10 DEF StepDone, FlowTypes, Goroutines
  <2>2. /\ store'[f].status = "running" /\ store'[f].outs = store[f].outs + 1
        /\ store[f].outs \in Nat
    <3>1. store[f].outs \in Nat /\ store[f].outs + 1 \in Nat
      BY <1>1 DEF FlowTypes, Runs
    <3> QED
      BY <1>1, <2>1, <3>1, SaveTouchesOne
  <2>3. flow'[f].at = "step" /\ flow'[f].step = flow[f].step + 1 /\ flow'[f].def = flow[f].def
    BY <1>1, <2>1 DEF FlowTypes, Goroutines
  <2> QED
    BY <1>1, <1>2, <1>5, <2>1, <2>2, <2>3 DEF Sound, Unmade, Whole, Ahead, Executed, Live,
                                                FlowTypes, Goroutines
<1>11. ASSUME HandleFlowRun(f) \/ ToolFlowRun(f) PROVE Sound(f)'
  <2>1. /\ SaveRun(f, "running", 0) /\ life.phase = "up" /\ flow[f].at = "none"
        /\ flow'[f].at = "step" /\ flow'[f].def = flowFile /\ flow'[f].step = 1
    BY <1>1, <1>11 DEF HandleFlowRun, ToolFlowRun, RunFlow, FlowTypes, Goroutines
  <2>2. store'[f].status = "running" /\ store'[f].outs = 0
    BY <1>1, <2>1, SaveTouchesOne
  <2>3. Len(flowFile) \in Nat
    BY <1>1 DEF FlowTypes, Goroutines
  <2> QED
    BY <1>1, <1>2, <1>5, <2>1, <2>2, <2>3 DEF Sound, Unmade, Whole, Ahead, Executed, Live
<1> QED
  BY <1>6, <1>7, <1>8, <1>9, <1>10, <1>11 DEF FlowInv

LEMMA FlowInvKept == FlowInv /\ [FlowNext]_flowVars => FlowInv'
<1> SUFFICES ASSUME FlowInv, [FlowNext]_flowVars PROVE FlowInv'
  OBVIOUS
<1> USE FlowsAssumption
<1>1. FlowTypes /\ \A f \in FlowRuns : Sound(f)
  BY DEF FlowInv
<1>2. CASE UNCHANGED flowVars
  BY <1>2 DEF flowVars, FlowInv, FlowTypes, Goroutines, Sound, Unmade, Whole, Ahead,
               Executed, Live
<1>3. CASE FlowCreate \/ FlowStop
  <2>1. FlowTypes'
    <3>1. CASE FlowCreate
      <4>1. flowFile' \in Seq(Steps) /\ UNCHANGED <<flow, store, disk, life>>
        <5>1. /\ flowFile' = <<>> \/ flowFile' \in FlowDefs
              /\ UNCHANGED <<flow, store, disk, life>>
          BY <3>1 DEF FlowCreate
        <5>2. <<>> \in Seq(Steps) /\ FlowDefs \subseteq Seq(Steps)
          BY DEF FlowsAssumption, Steps
        <5> QED
          BY <5>1, <5>2
      <4> QED
        BY <1>1, <4>1 DEF FlowTypes
    <3>2. CASE FlowStop
      BY <1>1, <3>2 DEF FlowStop, FlowTypes
    <3> QED
      BY <1>3, <3>1, <3>2
  <2>2. /\ UNCHANGED <<flow, store, disk>>
        /\ (life.phase = "down") <=> (life'.phase = "down")
    BY <1>1, <1>3 DEF FlowCreate, FlowStop, FlowTypes, Goroutines
  <2> QED
    BY <1>1, <2>1, <2>2, OthersStaySound DEF FlowInv
<1>4. ASSUME NEW f \in FlowRuns, StepBegins(f) PROVE FlowInv'
  <2>1. /\ flow' = [flow EXCEPT ![f].at = "busy"] /\ UNCHANGED <<flowFile, store, disk, life>>
        /\ flow[f].at = "step" /\ flow[f].step <= Len(flow[f].def)
    BY <1>4 DEF StepBegins
  <2>2. FlowTypes'
    <3>1. [flow[f] EXCEPT !.at = "busy"] \in Goroutines
      BY <1>1, MovesOn
    <3>2. flow' = [flow EXCEPT ![f] = [flow[f] EXCEPT !.at = "busy"]]
      BY <2>1
    <3> QED
      BY <1>1, <2>1, <3>1, <3>2 DEF FlowTypes, Goroutines
  <2>3. ASSUME NEW g \in FlowRuns PROVE Sound(g)'
    BY <1>1, <2>1 DEF FlowTypes, Goroutines, Sound, Unmade, Whole, Ahead, Executed, Live
  <2> QED
    BY <2>2, <2>3 DEF FlowInv
<1>5. CASE FlowCrash
  <2>1. /\ life'.phase = "down" /\ life' \in [n : Nat, phase : {"up", "stopping", "down"}]
        /\ UNCHANGED <<flowFile, store, disk>>
    BY <1>1, <1>5 DEF FlowCrash, FlowTypes, Goroutines
  <2>2. \A f \in FlowRuns : flow'[f] = IF Live(f) THEN [flow[f] EXCEPT !.at = "lost"] ELSE flow[f]
    BY <1>5 DEF FlowCrash
  <2>3. FlowTypes'
    BY <1>1, <1>5, <2>1 DEF FlowCrash, FlowTypes, Goroutines
  <2>4. ASSUME NEW f \in FlowRuns PROVE Sound(f)'
    BY <1>1, <2>1, <2>2 DEF FlowTypes, Goroutines, Sound, Unmade, Whole, Ahead, Executed, Live
  <2> QED
    BY <2>3, <2>4 DEF FlowInv
<1>6. CASE FlowRestart
  <2>1. /\ life' \in [n : Nat, phase : {"up", "stopping", "down"}]
        /\ life.phase = "down" /\ UNCHANGED <<flowFile, flow>> /\ disk' \in {disk, store'}
    BY <1>1, <1>6 DEF FlowRestart, FlowTypes, Goroutines
  <2>2. store' \in [FlowRuns -> Runs]
    BY <1>1, <1>6 DEF FlowRestart, ClearStaleRunning, FlowTypes, Goroutines, Runs
  <2>3. \A f \in FlowRuns : /\ store'[f].status # "running"
                            /\ store'[f].status \in {disk[f].status, "failed"}
                            /\ store'[f].outs = disk[f].outs
                            /\ store'[f].status = "failed" => disk[f].status # "none"
    BY <1>1, <1>6 DEF FlowRestart, ClearStaleRunning, FlowTypes, Goroutines, Runs
  <2>4. FlowTypes'
    BY <1>1, <2>1, <2>2 DEF FlowTypes, Goroutines
  <2>5. ASSUME NEW f \in FlowRuns PROVE Sound(f)'
    BY <1>1, <2>1, <2>3 DEF FlowTypes, Goroutines, Sound, Unmade, Whole, Ahead, Executed, Live
  <2> QED
    BY <2>4, <2>5 DEF FlowInv
<1> QED
  BY <1>2, <1>3, <1>4, <1>5, <1>6, FlowStepSound DEF FlowNext, FlowStep

(* However many flows run at once, saves fail and daemons die, the store   *)
(* calls a flow completed only when it has the output of every step, and   *)
(* running only while it is executed (flow.go:79-187, flowstore.go:72).    *)
THEOREM StoreStaysTrue == FlowSpec => []StoreIsTrue
<1>1. FlowInit => FlowInv
  BY FlowsAssumption DEF FlowInit, FlowInv, FlowTypes, Goroutines, Runs, Steps, NoRun,
                         NoFlow, Sound, Unmade, Whole, Ahead, Executed, Live
<1>2. FlowInv => StoreIsTrue
  BY DEF FlowInv, Sound, Whole, Executed, StoreIsTrue
<1> QED
  BY <1>1, <1>2, FlowInvKept, PTL DEF FlowSpec

-----------------------------------------------------------------------------
(* Reminders.                                                              *)

RemShape ==
  /\ rem = [p \in RemProcs |-> [at |-> rem[p].at, list |-> rem[p].list, delta |-> rem[p].delta]]
  /\ stale \in [RemProcs -> BOOLEAN]

(* While nothing clashed, a file that is not torn is the book of changes.  *)
FileIsBook == ~clash /\ form # "torn" => items = book

(* While nothing clashed, a list that nobody overtook is the book with the *)
(* changes of the one who holds it.                                        *)
ListIsBook == \A p \in RemProcs :
  ~clash /\ ~stale[p] /\ rem[p].at \in {"loaded", "writing"} =>
    rem[p].list = rem[p].delta @@ book

MissingIsEmpty ==
  form \in {"missing", "whole", "torn"} /\ (form = "missing" => items = RemNone)

RemInv == RemShape /\ FileIsBook /\ ListIsBook /\ MissingIsEmpty

(* One who loads the file, and adds to it, holds the book with the change. *)
LEMMA LoadsBook ==
  ASSUME RemInv, NEW p \in RemProcs, NEW base, NEW delta, Loaded(p, base, delta),
         form # "torn" => base = items, UNCHANGED <<form, items, book, clash>>
  PROVE  RemInv'
<1> DEFINE r == [at |-> "loaded", list |-> delta @@ base, delta |-> delta]
<1>1. /\ rem' = [rem EXCEPT ![p] = r]
      /\ stale' = [stale EXCEPT ![p] = form = "torn"]
  BY DEF Loaded
<1>2. rem'[p] = r /\ \A q \in RemProcs \ {p} : rem'[q] = rem[q]
  BY <1>1 DEF RemInv, RemShape
<1>3. RemShape'
  BY <1>1 DEF RemInv, RemShape
<1>4. stale'[p] = (form = "torn") /\ \A q \in RemProcs \ {p} : stale'[q] = stale[q]
  BY <1>1 DEF RemInv, RemShape
<1>5. ListIsBook'
  <2> SUFFICES ASSUME NEW q \in RemProcs, ~clash', ~stale'[q], rem'[q].at \in {"loaded", "writing"}
               PROVE  rem'[q].list = rem'[q].delta @@ book'
    BY DEF ListIsBook
  <2>1. CASE q = p
    <3>1. form # "torn" /\ ~clash /\ book' = book
      BY <1>4, <2>1
    <3>2. base = items /\ items = book
      BY <3>1 DEF RemInv, FileIsBook
    <3>3. rem'[q].list = delta @@ base /\ rem'[q].delta = delta
      BY <1>2, <2>1
    <3> QED
      BY <3>1, <3>2, <3>3
  <2>2. CASE q # p
    BY <1>2, <1>4, <2>2 DEF RemInv, ListIsBook
  <2> QED
    BY <2>1, <2>2
<1> QED
  BY <1>3, <1>5 DEF RemInv, FileIsBook, MissingIsEmpty

LEMMA RemInvKept == RemInv /\ [RemNext]_remVars => RemInv'
<1> SUFFICES ASSUME RemInv, [RemNext]_remVars PROVE RemInv'
  OBVIOUS
<1>1. CASE UNCHANGED remVars
  BY <1>1 DEF remVars, RemInv, RemShape, FileIsBook, ListIsBook, MissingIsEmpty
<1>2. ASSUME NEW c \in RemCallers, Add(c) \/ Done(c) \/ Snooze(c) PROVE RemInv'
  <2>1. c \in RemProcs /\ UNCHANGED <<form, items, book, clash>>
    BY <1>2 DEF Add, Done, Snooze, RemProcs
  <2>2. CASE Add(c)
    <3> DEFINE base == IF form = "whole" THEN items ELSE RemNone
    <3>1. PICK delta : Loaded(c, base, delta)
      BY <2>2 DEF Add
    <3>2. form # "torn" => base = items
      BY DEF RemInv, MissingIsEmpty
    <3> HIDE DEF base
    <3> QED
      BY <2>1, <3>1, <3>2, LoadsBook
  <2>3. CASE Done(c) \/ Snooze(c)
    <3>1. PICK delta : Loaded(c, items, delta)
      BY <2>3 DEF Done, Snooze
    <3> QED
      BY <2>1, <3>1, LoadsBook
  <2> QED
    BY <1>2, <2>2, <2>3
<1>3. CASE FireOverdue
  <2>1. RemTick \in RemProcs /\ UNCHANGED <<form, items, book, clash>>
    BY <1>3 DEF FireOverdue, RemProcs
  <2>2. PICK delta : Loaded(RemTick, items, delta)
    BY <1>3 DEF FireOverdue
  <2> QED
    BY <2>1, <2>2, LoadsBook
<1>4. ASSUME NEW p \in RemProcs, Truncate(p) PROVE RemInv'
  <2>1. /\ rem' = [rem EXCEPT ![p].at = "writing"] /\ rem[p].at = "loaded"
        /\ stale' = Others(p) /\ form' = "torn" /\ UNCHANGED <<items, book, clash>>
    BY <1>4 DEF Truncate
  <2>2. RemShape'
    BY <2>1 DEF RemInv, RemShape, Others
  <2>3. \A q \in RemProcs : /\ rem'[q].list = rem[q].list /\ rem'[q].delta = rem[q].delta
                            /\ ~stale'[q] => ~stale[q]
                            /\ q # p => rem'[q].at = rem[q].at
    BY <2>1 DEF RemInv, RemShape, Others
  <2>4. ListIsBook'
    BY <2>1, <2>3 DEF RemInv, ListIsBook
  <2> QED
    BY <2>1, <2>2, <2>4 DEF RemInv, FileIsBook, MissingIsEmpty
<1>5. ASSUME NEW p \in RemProcs, Fill(p) PROVE RemInv'
  <2>1. /\ rem' = [rem EXCEPT ![p] = IF p = RemTick THEN [rem[p] EXCEPT !.at = "saved"]
                                    ELSE RemIdle]
        /\ rem[p].at = "writing" /\ stale' = Others(p)
        /\ form' \in {"whole", "torn"} /\ items' = rem[p].list
        /\ book' = rem[p].delta @@ book /\ clash' = (clash \/ stale[p])
    BY <1>5 DEF Fill
  <2>2. RemShape'
    BY <2>1 DEF RemInv, RemShape, Others, RemIdle
  <2>3. FileIsBook'
    BY <2>1 DEF RemInv, ListIsBook, FileIsBook
  <2>4. rem'[p].at \in {"saved", "idle"}
    BY <2>1 DEF RemInv, RemShape, RemIdle
  <2>5. ASSUME NEW q \in RemProcs, ~stale'[q] PROVE rem'[q].at \notin {"loaded", "writing"}
    BY <2>1, <2>4, <2>5 DEF RemInv, RemShape, Others
  <2> QED
    BY <2>1, <2>2, <2>3, <2>5 DEF RemInv, ListIsBook, MissingIsEmpty
<1>6. CASE Publish
  <2>1. /\ rem' = [rem EXCEPT ![RemTick] = RemIdle]
        /\ UNCHANGED <<form, items, stale, book, clash>>
    BY <1>6 DEF Publish
  <2> QED
    BY <2>1 DEF RemInv, RemShape, FileIsBook, ListIsBook, MissingIsEmpty, RemIdle
<1>7. ASSUME NEW p \in RemProcs, Die(p) PROVE RemInv'
  <2>1. /\ rem' = [rem EXCEPT ![p] = RemIdle] /\ clash' = (clash \/ rem[p].at = "writing")
        /\ UNCHANGED <<form, items, stale, book>>
    BY <1>7 DEF Die
  <2> QED
    BY <2>1 DEF RemInv, RemShape, FileIsBook, ListIsBook, MissingIsEmpty, RemIdle
<1>8. CASE RemClock \/ \E i \in RemIds : Hear(i)
  <2>1. UNCHANGED <<form, items, rem, stale, book, clash>>
    BY <1>8 DEF RemClock, Hear
  <2> QED
    BY <2>1 DEF RemInv, RemShape, FileIsBook, ListIsBook, MissingIsEmpty
<1> QED
  BY <1>1, <1>2, <1>3, <1>4, <1>5, <1>6, <1>7, <1>8 DEF RemNext

(* Whoever else loads, changes and writes the file, as long as no two did  *)
(* it at once and nobody died in a write, it holds every change that was   *)
(* saved (reminder.go:80, :158, :217, :257).                               *)
THEOREM RemindersStayKept == RemSpec => []RemindersKept
<1>1. RemInit => RemInv
  BY DEF RemInit, RemInv, RemShape, FileIsBook, ListIsBook, MissingIsEmpty, RemIdle
<1>2. RemInv => RemindersKept
  BY DEF RemInv, FileIsBook, RemindersKept
<1> QED
  BY <1>1, <1>2, RemInvKept, PTL DEF RemSpec

-----------------------------------------------------------------------------
(* Startup.                                                                *)

Switches == [left : SUBSET UpPhases, to : {"on", "off"}]

(* A boot is of a day that has no mark yet, and a day whose boot ended has *)
(* one, or a later day has.                                                *)
BootInv ==
  /\ day \in 1 .. UpMaxDay /\ mark \in 0 .. UpMaxDay /\ boot \in 0 .. UpMaxDay
  /\ booted \in [1 .. UpMaxDay -> Nat]
  /\ mark <= day /\ boot <= day
  /\ boot # NoBoot => mark < boot
  /\ \A d \in 1 .. UpMaxDay : booted[d] <= 1 /\ (booted[d] > 0 => d <= mark)

Calling == {c \in UpCallers : calls[c] # NoCall}

(* What is not yet as the last call asked is left to the call under way or *)
(* to the start under way, as long as neither was disturbed.               *)
DreamTypes ==
  /\ up \in {"down", "ensuring", "up"} /\ fresh \in UpPhases \cup {NoPhase}
  /\ dreams \in [UpPhases -> {"absent", "on", "off"}]
  /\ calls \in [UpCallers -> Switches]
  /\ wished \in {"on", "off"} /\ upset \in BOOLEAN
  /\ fresh # NoPhase => up = "ensuring" /\ wished = "off"
  /\ up # "up" => \A c \in UpCallers : calls[c] = NoCall
  /\ up = "up" \/ wished = "on" \/ (\E c \in UpCallers : calls[c] # NoCall) =>
       \A p \in UpPhases : dreams[p] # "absent"

Asked ==
  /\ \A c \in UpCallers : calls[c] # NoCall => calls[c].to = wished
  /\ \A c, d \in UpCallers : calls[c] # NoCall /\ calls[d] # NoCall => c = d
  /\ \A p \in UpPhases :
       \/ dreams[p] \in {"absent", wished} \/ p = fresh
       \/ \E c \in UpCallers : p \in calls[c].left

DreamInv == DreamTypes /\ (~upset => Asked)

LEMMA BootInvInit == UpInit => BootInv
BY StartupAssumption DEF UpInit, BootInv, NoBoot

LEMMA BootInvNext == BootInv /\ [UpNext]_upVars => BootInv'
<1> SUFFICES ASSUME BootInv, [UpNext]_upVars PROVE BootInv'
  OBVIOUS
<1>1. CASE Ready
  BY <1>1, StartupAssumption DEF Ready, BootInv, NoBoot, BootRanToday
<1>2. CASE BootEnds
  <2>1. mark' = day /\ UNCHANGED day /\ boot' = NoBoot
    BY <1>2 DEF BootEnds, MarkBootRan
  <2>2. boot \in 1 .. UpMaxDay /\ booted[boot] = 0 /\ mark < boot /\ boot <= day
    <3>1. boot \in 1 .. UpMaxDay /\ mark < boot /\ boot <= day
      BY <1>2, StartupAssumption DEF BootEnds, BootInv, NoBoot
    <3>2. booted[boot] \in Nat /\ (booted[boot] > 0 => boot <= mark)
      BY <3>1 DEF BootInv
    <3>3. mark \in Nat /\ boot \in Nat
      BY <3>1, StartupAssumption DEF BootInv
    <3> QED
      BY <3>1, <3>2, <3>3
  <2>3. booted' = [booted EXCEPT ![boot] = 1]
    BY <1>2, <2>2 DEF BootEnds
  <2>4. booted' \in [1 .. UpMaxDay -> Nat]
    BY <2>2, <2>3 DEF BootInv
  <2>5. ASSUME NEW d \in 1 .. UpMaxDay
        PROVE  booted'[d] <= 1 /\ (booted'[d] > 0 => d <= mark')
    <3>1. CASE d = boot
      BY <2>1, <2>2, <2>3, <3>1 DEF BootInv
    <3>2. CASE d # boot
      <4>1. booted'[d] = booted[d]
        BY <2>3, <3>2 DEF BootInv
      <4>2. d \in Nat /\ mark \in Nat /\ day \in Nat /\ mark <= day
        BY StartupAssumption DEF BootInv
      <4> QED
        BY <2>1, <4>1, <4>2 DEF BootInv
    <3> QED
      BY <3>1, <3>2
  <2>6. day' \in 1 .. UpMaxDay /\ mark' \in 0 .. UpMaxDay /\ boot' \in 0 .. UpMaxDay
        /\ mark' <= day' /\ boot' <= day'
    BY <2>1, StartupAssumption DEF BootInv, NoBoot
  <2> QED
    BY <2>1, <2>4, <2>5, <2>6 DEF BootInv
<1>3. CASE UpDie
  <2>1. boot' = NoBoot /\ mark' \in {mark, day} /\ UNCHANGED <<day, booted>>
    BY <1>3 DEF UpDie
  <2>2. mark' \in 0 .. UpMaxDay /\ boot' \in 0 .. UpMaxDay /\ mark <= mark'
        /\ mark' <= day' /\ boot' <= day'
    BY <2>1, StartupAssumption DEF BootInv, NoBoot
  <2>3. ASSUME NEW d \in 1 .. UpMaxDay
        PROVE  booted[d] <= 1 /\ (booted[d] > 0 => d <= mark')
    <3>1. d \in Nat /\ mark \in Nat /\ mark' \in Nat
      BY <2>2, StartupAssumption DEF BootInv
    <3> QED
      BY <2>2, <3>1 DEF BootInv
  <2> QED
    BY <2>1, <2>2, <2>3 DEF BootInv
<1>4. CASE Midnight
  BY <1>4, StartupAssumption DEF Midnight, BootInv, NoBoot
<1>5. CASE UNCHANGED <<day, mark, boot, booted>>
  BY <1>5 DEF BootInv, NoBoot
<1> QED
  BY <1>1, <1>2, <1>3, <1>4, <1>5
  DEF UpNext, upVars, Start, EnsureJob, Switch, SwitchOne

LEMMA DreamInvInit == UpInit => DreamInv
<1> SUFFICES ASSUME UpInit PROVE DreamInv
  OBVIOUS
<1>1. NoCall \in Switches
  BY DEF NoCall, Switches
<1> QED
  BY <1>1 DEF UpInit, DreamInv, DreamTypes, Asked

LEMMA DreamInvNext == DreamInv /\ [UpNext]_upVars => DreamInv'
<1> SUFFICES ASSUME DreamInv, [UpNext]_upVars PROVE DreamInv'
  OBVIOUS
<1> USE DEF DreamInv
<1>0. NoCall \in Switches
  BY DEF NoCall, Switches
<1>1. CASE Start
  BY <1>1 DEF Start, DreamTypes, Asked
<1>2. CASE EnsureJob
  <2>1. CASE fresh = NoPhase
    <3>1. PICK p \in UpPhases : /\ dreams[p] = "absent" /\ fresh' = p
                                /\ dreams' = [dreams EXCEPT ![p] = "on"]
      BY <1>2, <2>1 DEF EnsureJob
    <3>2. UNCHANGED <<up, calls, wished, upset>> /\ up = "ensuring" /\ wished = "off"
          /\ \A c \in UpCallers : calls[c] = NoCall
      BY <1>2, <3>1 DEF EnsureJob, DreamTypes
    <3>3. dreams' \in [UpPhases -> {"absent", "on", "off"}]
      BY <3>1 DEF DreamTypes
    <3>4. DreamTypes'
      BY <3>1, <3>2, <3>3 DEF DreamTypes
    <3>5. \A q \in UpPhases : q = p \/ dreams'[q] = dreams[q]
      BY <3>1 DEF DreamTypes
    <3>6. Asked => Asked'
      BY <2>1, <3>1, <3>2, <3>5, StartupAssumption DEF Asked
    <3> QED
      BY <3>2, <3>4, <3>6
  <2>2. CASE fresh # NoPhase
    <3>1. dreams' = [dreams EXCEPT ![fresh] = "off"] /\ fresh' = NoPhase
      BY <1>2, <2>2 DEF EnsureJob
    <3>2. UNCHANGED <<up, calls, wished, upset>> /\ up = "ensuring"
          /\ \A c \in UpCallers : calls[c] = NoCall
      BY <1>2 DEF EnsureJob, DreamTypes
    <3>3. fresh \in UpPhases /\ dreams' \in [UpPhases -> {"absent", "on", "off"}]
      BY <2>2, <3>1 DEF DreamTypes
    <3>4. dreams'[fresh] = "off" /\ \A q \in UpPhases \ {fresh} : dreams'[q] = dreams[q]
      BY <3>1, <3>3 DEF DreamTypes
    <3>5. wished = "on" => \A q \in UpPhases : dreams[q] # "absent"
      BY DEF DreamTypes
    <3>6. DreamTypes'
      <4>1. wished' = "on" => \A q \in UpPhases : dreams'[q] # "absent"
        BY <3>2, <3>4, <3>5
      <4>2. up' # "up" /\ \A c \in UpCallers : calls'[c] = NoCall
        BY <3>2
      <4>3. /\ up' \in {"down", "ensuring", "up"} /\ wished' \in {"on", "off"}
            /\ upset' \in BOOLEAN /\ calls' \in [UpCallers -> Switches]
        BY <3>2 DEF DreamTypes
      <4>4. /\ fresh' \in UpPhases \cup {NoPhase}
            /\ fresh' # NoPhase => up' = "ensuring" /\ wished' = "off"
        BY <3>1
      <4> QED
        BY <3>3, <4>1, <4>2, <4>3, <4>4 DEF DreamTypes
    <3>7. wished' = "off"
      BY <2>2, <3>2 DEF DreamTypes
    <3>8. Asked => Asked'
      BY <3>1, <3>2, <3>4, <3>7 DEF Asked
    <3> QED
      BY <3>2, <3>6, <3>8
  <2> QED
    BY <2>1, <2>2
<1>3. CASE Ready
  <2>1. /\ up' = "up" /\ fresh = NoPhase /\ \A p \in UpPhases : dreams[p] # "absent"
        /\ UNCHANGED <<fresh, dreams, calls, wished, upset>>
    BY <1>3 DEF Ready
  <2> QED
    BY <2>1 DEF DreamTypes, Asked
<1>4. CASE UpDie
  BY <1>4, <1>0 DEF UpDie, DreamTypes, Asked
<1>5. ASSUME NEW c \in UpCallers, NEW to \in {"on", "off"}, Switch(c, to) PROVE DreamInv'
  <2>1. /\ up = "up" /\ calls[c] = NoCall
        /\ calls' = [calls EXCEPT ![c] = [left |-> UpPhases, to |-> to]] /\ wished' = to
        /\ upset' = (upset \/ \E d \in UpCallers \ {c} : calls[d] # NoCall)
        /\ UNCHANGED <<up, fresh, dreams>>
    BY <1>5 DEF Switch
  <2>2. [left |-> UpPhases, to |-> to] \in Switches
    BY DEF Switches
  <2>3. DreamTypes'
    BY <2>1, <2>2 DEF DreamTypes
  <2>4. ~upset' => Asked'
    <3> SUFFICES ASSUME ~upset' PROVE Asked'
      OBVIOUS
    <3>1. \A d \in UpCallers \ {c} : calls'[d] = NoCall
      BY <2>1 DEF DreamTypes
    <3>2. calls'[c].left = UpPhases /\ calls'[c].to = wished'
      BY <2>1 DEF DreamTypes
    <3> QED
      BY <3>1, <3>2 DEF Asked
  <2> QED
    BY <2>3, <2>4
<1>6. ASSUME NEW c \in UpCallers, SwitchOne(c) PROVE DreamInv'
  <2>1. PICK p \in calls[c].left :
          /\ dreams' = [dreams EXCEPT ![p] = calls[c].to]
          /\ calls' = [calls EXCEPT ![c] = IF calls[c].left = {p} THEN NoCall
                ELSE [left |-> calls[c].left \ {p}, to |-> calls[c].to]]
    BY <1>6 DEF SwitchOne
  <2>2. UNCHANGED <<up, fresh, wished, upset>>
    BY <1>6 DEF SwitchOne
  <2>3. PICK k : k = IF calls[c].left = {p} THEN NoCall
                     ELSE [left |-> calls[c].left \ {p}, to |-> calls[c].to]
    OBVIOUS
  <2>4. calls' = [calls EXCEPT ![c] = k] /\ calls[c] \in Switches /\ p \in UpPhases
    <3>1. calls[c] \in Switches
      BY DEF DreamTypes
    <3> QED
      BY <2>1, <2>3, <3>1 DEF Switches
  <2>5. k \in Switches /\ k.left = calls[c].left \ {p}
        /\ (k # NoCall => k.to = calls[c].to)
    BY <1>0, <2>3, <2>4 DEF Switches, NoCall
  <2>6. calls[c] # NoCall
    BY <1>6 DEF SwitchOne, NoCall
  <2>7. up = "up" /\ calls[c].to \in {"on", "off"} /\ \A q \in UpPhases : dreams[q] # "absent"
    BY <2>4, <2>6 DEF DreamTypes, Switches
  <2>8. DreamTypes'
    BY <2>1, <2>2, <2>4, <2>5, <2>7 DEF DreamTypes
  <2>9. ~upset => Asked'
    <3> SUFFICES ASSUME ~upset PROVE Asked'
      OBVIOUS
    <3>1. \A d \in UpCallers \ {c} : calls[d] = NoCall /\ calls'[d] = calls[d]
      BY <2>4, <2>6 DEF DreamTypes, Asked
    <3>2. calls'[c] = k /\ calls[c].to = wished
      BY <2>4, <2>6 DEF DreamTypes, Asked
    <3>3. ASSUME NEW q \in UpPhases
          PROVE  \/ dreams'[q] \in {"absent", wished} \/ q = fresh
                 \/ \E d \in UpCallers : q \in calls'[d].left
      <4>1. CASE q = p
        BY <2>1, <2>4, <3>2, <4>1 DEF DreamTypes
      <4>2. CASE q # p
        <5>1. dreams'[q] = dreams[q]
          BY <2>1, <4>2 DEF DreamTypes
        <5>2. \A d \in UpCallers : q \in calls[d].left => q \in calls'[d].left
          BY <2>5, <3>1, <3>2, <4>2
        <5> QED
          BY <5>1, <5>2 DEF Asked
      <4> QED
        BY <4>1, <4>2
    <3> QED
      BY <2>2, <2>5, <3>1, <3>2, <3>3 DEF Asked
  <2> QED
    BY <2>2, <2>8, <2>9
<1>7. CASE UNCHANGED <<up, fresh, dreams, calls, wished, upset>>
  BY <1>7 DEF DreamTypes, Asked
<1> QED
  BY <1>1, <1>2, <1>3, <1>4, <1>5, <1>6, <1>7 DEF UpNext, upVars, BootEnds, Midnight

(* What a daemon does when it starts is what was asked for: the dreaming   *)
(* is as the last call left it, and no day has two boots that ended, for   *)
(* any phases, callers, starts and crashes (dreaming.go:97,                *)
(* heartbeat.go:177).                                                      *)
THEOREM StartsAreAsAsked == UpSpec => []StartsAsAsked
<1>1. DreamInv /\ BootInv => StartsAsAsked
  <2> SUFFICES ASSUME DreamInv, BootInv PROVE StartsAsAsked
    OBVIOUS
  <2>1. BootOncePerDay
    BY DEF BootInv, BootOncePerDay
  <2>2. DreamsAsAsked
    <3> SUFFICES ASSUME up # "ensuring", ~upset, \A c \in UpCallers : calls[c] = NoCall
                 PROVE  /\ DreamingEnabled => wished = "on"
                        /\ \A p \in UpPhases : dreams[p] # "absent" => dreams[p] = wished
      BY DEF DreamsAsAsked
    <3>1. \A c \in UpCallers : calls[c].left = {}
      BY DEF NoCall
    <3>2. \A p \in UpPhases : dreams[p] \in {"absent", wished}
      BY <3>1, StartupAssumption DEF DreamInv, DreamTypes, Asked
    <3>3. wished \in {"on", "off"}
      BY DEF DreamInv, DreamTypes
    <3> QED
      BY <3>2, <3>3 DEF DreamingEnabled
  <2> QED
    BY <2>1, <2>2 DEF StartsAsAsked
<1> QED
  BY <1>1, BootInvInit, BootInvNext, DreamInvInit, DreamInvNext, PTL DEF UpSpec
=============================================================================
