------------------------------- MODULE Gateway -------------------------------
(***************************************************************************)
(* The life of the daemon and of its clients: how a client finds or starts *)
(* a daemon (client.go), how the daemon takes the socket and the PID file, *)
(* serves connections, stops when idle and cleans up (gateway.go), and how *)
(* a call travels: request, stream parts, one response, and the buffered   *)
(* channel the client's reader hands them over on.                         *)
(*                                                                         *)
(* Two files tie the processes together: sock, the socket path, and pid.   *)
(* Both survive a crash, and nobody checks whose they are.  A request is   *)
(* an agent run, the removal of the scheduled jobs, or a shutdown: the     *)
(* three that decide how long the daemon lives.                            *)
(***************************************************************************)
EXTENDS Integers, Sequences, FiniteSets

CONSTANTS
  Daemons,    \* processes that may be spawned, a bound
  Clients,    \* terminals and command lines
  Callers,    \* those that send requests; the others only make sure a daemon runs
  Kinds,      \* requests they send, of "run", "clear", "shutdown"
  MaxParts,   \* stream parts of a run, a bound
  ChanCap,    \* buffer of the channel Stream returns (64 in client.go:164)
  None

ASSUME GatewayAssumption ==
  /\ Kinds \subseteq {"run", "clear", "shutdown"}
  /\ MaxParts \in Nat /\ ChanCap \in Nat \ {0}
  /\ None \notin Daemons /\ Callers \subseteq Clients

VARIABLES
  sock, pid,     \* the two files: the process they lead to
  proc,          \* stage of every process
  armed,         \* is its idle timer running?
  idler,         \* stage of its onIdle callback
  jobs,          \* does the job store hold any job?
  accepted,      \* runs a handler was started for
  runs,          \* runs in the instance table
  at, conn,      \* stage of EnsureGateway, and the daemon of the connection
  call,          \* the client's request
  wire,          \* envelopes sent to the client, not yet read
  chan,          \* envelopes the consumer has not taken
  parts,         \* stream parts the run has sent
  crowded        \* has a daemon been started, or its files removed, beside another?

files  == <<sock, pid, crowded>>
daemon == <<proc, armed, idler, jobs>>
work   == <<accepted, runs, parts>>
client == <<at, conn>>
io     == <<call, wire, chan>>
vars   == <<files, daemon, work, client, io>>

TypeOK ==
  /\ sock \in Daemons \cup {None} /\ pid \in Daemons \cup {None}
  /\ proc \in [Daemons -> {"unborn", "spawned", "listening", "serving",
                           "closing", "unlisted", "gone"}]
  /\ armed \in [Daemons -> BOOLEAN] /\ jobs \in BOOLEAN /\ crowded \in BOOLEAN
  /\ idler \in [Daemons -> {"none", "checking", "leaving"}]
  /\ accepted \in [Daemons -> SUBSET Clients] /\ runs \in [Daemons -> SUBSET Clients]
  /\ at \in [Clients -> {"idle", "refused", "stale", "spawning", "polling",
                         "connected", "failed"}]
  /\ conn \in [Clients -> Daemons \cup {None}]
  /\ call \in [Clients -> Kinds \cup {"none", "waiting", "answered", "done", "hung"}]

Living(d)  == proc[d] \notin {"unborn", "gone"}
Listens(d) == d # None /\ proc[d] \in {"listening", "serving", "closing"}
Up(d)      == proc[d] \in {"serving", "closing", "unlisted"}

-----------------------------------------------------------------------------
(* EnsureGateway.                                                          *)

Connected(c) ==
  /\ Listens(sock)
  /\ at' = [at EXCEPT ![c] = "connected"]
  /\ conn' = [conn EXCEPT ![c] = sock]
  /\ armed' = IF proc[sock] = "serving" THEN [armed EXCEPT ![sock] = TRUE] ELSE armed
  /\ UNCHANGED <<files, proc, idler, jobs, work, io>>

Dial(c) ==
  /\ at[c] = "idle"
  /\ \/ Connected(c)
     \/ /\ ~Listens(sock)
        /\ at' = [at EXCEPT ![c] = "refused"]
        /\ UNCHANGED <<files, daemon, work, conn, io>>

ReadPid(c) ==
  /\ at[c] = "refused"
  /\ at' = [at EXCEPT ![c] =
              IF pid # None /\ ~Living(pid) THEN "stale" ELSE "spawning"]
  /\ UNCHANGED <<files, daemon, work, conn, io>>

ClearStale(c) ==
  /\ at[c] = "stale"
  /\ sock' = None /\ pid' = None
  /\ crowded' = (crowded \/ \E d \in Daemons : Living(d))
  /\ at' = [at EXCEPT ![c] = "spawning"]
  /\ UNCHANGED <<daemon, work, conn, io>>

Spawn(c, d) ==
  /\ at[c] = "spawning" /\ proc[d] = "unborn"
  /\ proc' = [proc EXCEPT ![d] = "spawned"]
  /\ crowded' = (crowded \/ \E e \in Daemons : Living(e))
  /\ at' = [at EXCEPT ![c] = "polling"]
  /\ UNCHANGED <<sock, pid, armed, idler, jobs, work, conn, io>>

Poll(c) == at[c] = "polling" /\ Connected(c)

(* Three seconds without a connection.                                     *)
GiveUp(c) ==
  /\ at[c] = "polling"
  /\ at' = [at EXCEPT ![c] = "failed"]
  /\ UNCHANGED <<files, daemon, work, conn, io>>

(* The user leaves, or starts the program again.                           *)
Close(c) ==
  /\ at[c] \in {"connected", "failed"}
  /\ at' = [at EXCEPT ![c] = "idle"]
  /\ conn' = [conn EXCEPT ![c] = None]
  /\ call' = [call EXCEPT ![c] = "none"]
  /\ wire' = [wire EXCEPT ![c] = <<>>] /\ chan' = [chan EXCEPT ![c] = <<>>]
  /\ UNCHANGED <<files, daemon, work>>

-----------------------------------------------------------------------------
(* The process.                                                            *)

(* New: the dreaming jobs are put in the store if they are missing.        *)
New(d) ==
  /\ proc[d] = "spawned" /\ ~jobs
  /\ jobs' = TRUE
  /\ UNCHANGED <<files, proc, armed, idler, work, client, io>>

(* Mutant: the old socket is removed after the new one is bound.           *)
BindThenRemove(d) ==
  /\ proc[d] = "spawned" /\ jobs
  /\ sock' = None
  /\ proc' = [proc EXCEPT ![d] = "listening"]
  /\ UNCHANGED <<pid, crowded, armed, idler, jobs, work, client, io>>

Listen(d) ==
  /\ proc[d] = "spawned" /\ jobs
  /\ sock' = d     \* whatever the path led to is removed first
  /\ proc' = [proc EXCEPT ![d] = "listening"]
  /\ UNCHANGED <<pid, crowded, armed, idler, jobs, work, client, io>>

Serve(d) ==
  /\ proc[d] = "listening"
  /\ pid' = d
  /\ proc' = [proc EXCEPT ![d] = "serving"]
  /\ armed' = [armed EXCEPT ![d] = TRUE]
  /\ UNCHANGED <<sock, crowded, idler, jobs, work, client, io>>

TimerFires(d) ==
  /\ proc[d] = "serving" /\ armed[d] /\ idler[d] = "none"
  /\ armed' = [armed EXCEPT ![d] = FALSE]
  /\ idler' = [idler EXCEPT ![d] = "checking"]
  /\ UNCHANGED <<files, proc, jobs, work, client, io>>

(* Mutant: a deferred timeout does not set the timer again.                *)
DeferForGood(d) ==
  /\ proc[d] = "serving" /\ idler[d] = "checking"
  /\ idler' = [idler EXCEPT ![d] =
                 IF runs[d] # {} \/ jobs THEN "none" ELSE "leaving"]
  /\ UNCHANGED <<files, proc, armed, jobs, work, client, io>>

OnIdle(d) ==
  /\ proc[d] = "serving" /\ idler[d] = "checking"
  /\ IF runs[d] # {} \/ jobs
     THEN /\ idler' = [idler EXCEPT ![d] = "none"]
          /\ armed' = [armed EXCEPT ![d] = TRUE]
     ELSE /\ idler' = [idler EXCEPT ![d] = "leaving"]
          /\ UNCHANGED armed
  /\ UNCHANGED <<files, proc, jobs, work, client, io>>

IdleShutdown(d) ==
  /\ proc[d] = "serving" /\ idler[d] = "leaving"
  /\ proc' = [proc EXCEPT ![d] = "closing"]
  /\ UNCHANGED <<files, armed, idler, jobs, work, client, io>>

(* The process is over: whoever waits for it waits for ever.               *)
Gone(d) ==
  /\ proc' = [proc EXCEPT ![d] = "gone"]
  /\ armed' = [armed EXCEPT ![d] = FALSE] /\ idler' = [idler EXCEPT ![d] = "none"]
  /\ accepted' = [accepted EXCEPT ![d] = {}] /\ runs' = [runs EXCEPT ![d] = {}]
  /\ parts' = [c \in Clients |-> IF c \in runs[d] THEN 0 ELSE parts[c]]
  /\ call' = [c \in Clients |->
                IF conn[c] = d /\ call[c] \in Kinds \cup {"waiting", "answered"}
                THEN "hung" ELSE call[c]]
  /\ wire' = [c \in Clients |-> IF conn[c] = d THEN <<>> ELSE wire[c]]

(* Start returns: the listener is closed, which unlinks the path ...       *)
CloseListener(d) ==
  /\ proc[d] = "closing"
  /\ sock' = None
  /\ proc' = [proc EXCEPT ![d] = "unlisted"]
  /\ UNCHANGED <<pid, crowded, armed, idler, jobs, work, client, io>>

(* ... and both files are removed once more.                               *)
Cleanup(d) ==
  /\ proc[d] = "unlisted"
  /\ sock' = None /\ pid' = None
  /\ Gone(d)
  /\ UNCHANGED <<crowded, jobs, client, chan>>

(* "ecl daemon stop" signals the process of the PID file, which has no     *)
(* handler for it.                                                         *)
DaemonStop ==
  /\ pid # None /\ Living(pid) /\ Gone(pid)
  /\ UNCHANGED <<files, jobs, client, chan>>

Crash(d) ==
  /\ Living(d) /\ Gone(d)
  /\ UNCHANGED <<files, jobs, client, chan>>

-----------------------------------------------------------------------------
(* A call.                                                                 *)

Send(c, kind) ==
  /\ at[c] = "connected" /\ call[c] \in {"none", "done"} /\ Living(conn[c])
  /\ kind = "run" => \A d \in Daemons : c \notin accepted[d] \cup runs[d]
  /\ call' = [call EXCEPT ![c] = kind]
  /\ UNCHANGED <<files, daemon, work, client, wire, chan>>

Respond(c) ==
  /\ wire' = [wire EXCEPT ![c] = Append(@, "response")]
  /\ call' = [call EXCEPT ![c] = "answered"]

(* The end of a run answers the request it was started by, if the client   *)
(* is still on that connection.                                            *)
Finish(d, c) ==
  IF conn[c] = d /\ call[c] = "waiting" THEN Respond(c) ELSE UNCHANGED <<wire, call>>

(* The loop of a connection resets the timer, then handles the request.    *)
HandleRequest(d, c) ==
  /\ conn[c] = d /\ Up(d) /\ call[c] \in Kinds
  /\ armed' = [armed EXCEPT ![d] = proc[d] = "serving"]
  /\ \/ /\ call[c] = "run"
        /\ call' = [call EXCEPT ![c] = "waiting"]
        /\ accepted' = [accepted EXCEPT ![d] = @ \cup {c}]
        /\ UNCHANGED <<proc, jobs, wire>>
     \/ /\ call[c] = "clear"
        /\ jobs' = FALSE /\ Respond(c)
        /\ UNCHANGED <<proc, accepted>>
     \/ /\ call[c] = "shutdown"
        /\ Respond(c)
        /\ proc' = [proc EXCEPT ![d] = IF @ = "serving" THEN "closing" ELSE @]
        /\ UNCHANGED <<jobs, accepted>>
  /\ UNCHANGED <<files, idler, runs, parts, client, chan>>

(* A malformed request, or no agent for it.                                *)
RejectRun(d, c) ==
  /\ Up(d) /\ c \in accepted[d]
  /\ accepted' = [accepted EXCEPT ![d] = @ \ {c}]
  /\ Finish(d, c)
  /\ UNCHANGED <<files, daemon, runs, parts, client, chan>>

RegisterRun(d, c) ==
  /\ Up(d) /\ c \in accepted[d]
  /\ accepted' = [accepted EXCEPT ![d] = @ \ {c}]
  /\ runs' = [runs EXCEPT ![d] = @ \cup {c}]
  /\ UNCHANGED <<files, daemon, parts, client, io>>

(* A part goes to the connection the run was asked on, if it is still open.*)
EmitPart(d, c) ==
  /\ Up(d) /\ c \in runs[d] /\ parts[c] < MaxParts
  /\ parts' = [parts EXCEPT ![c] = @ + 1]
  /\ wire' = IF conn[c] = d /\ call[c] = "waiting"
             THEN [wire EXCEPT ![c] = Append(@, "part")] ELSE wire
  /\ UNCHANGED <<files, daemon, accepted, runs, client, call, chan>>

FinishRun(d, c) ==
  /\ Up(d) /\ c \in runs[d]
  /\ runs' = [runs EXCEPT ![d] = @ \ {c}]
  /\ Finish(d, c)
  /\ parts' = [parts EXCEPT ![c] = 0]
  /\ UNCHANGED <<files, daemon, accepted, client, chan>>

(* Mutant: a response is dropped, like a part, when the channel is full.   *)
ReadDropping(c) ==
  /\ at[c] = "connected" /\ wire[c] # <<>>
  /\ wire' = [wire EXCEPT ![c] = Tail(@)]
  /\ chan' = IF Len(chan[c]) < ChanCap
             THEN [chan EXCEPT ![c] = Append(@, Head(wire[c]))] ELSE chan
  /\ UNCHANGED <<files, daemon, work, client, call>>

(* A part finds room or is dropped; a response waits for room.             *)
ReadLoop(c) ==
  /\ at[c] = "connected" /\ wire[c] # <<>>
  /\ Head(wire[c]) = "response" => Len(chan[c]) < ChanCap
  /\ wire' = [wire EXCEPT ![c] = Tail(@)]
  /\ chan' = IF Len(chan[c]) < ChanCap
             THEN [chan EXCEPT ![c] = Append(@, Head(wire[c]))] ELSE chan
  /\ UNCHANGED <<files, daemon, work, client, call>>

Take(c) ==
  /\ chan[c] # <<>>
  /\ chan' = [chan EXCEPT ![c] = Tail(@)]
  /\ call' = IF Head(chan[c]) = "response"
             THEN [call EXCEPT ![c] = "done"] ELSE call
  /\ UNCHANGED <<files, daemon, work, client, wire>>

-----------------------------------------------------------------------------
Init ==
  /\ sock = None /\ pid = None /\ crowded = FALSE /\ jobs = FALSE
  /\ proc = [d \in Daemons |-> "unborn"]
  /\ armed = [d \in Daemons |-> FALSE] /\ idler = [d \in Daemons |-> "none"]
  /\ accepted = [d \in Daemons |-> {}] /\ runs = [d \in Daemons |-> {}]
  /\ at = [c \in Clients |-> "idle"] /\ conn = [c \in Clients |-> None]
  /\ call = [c \in Clients |-> "none"] /\ parts = [c \in Clients |-> 0]
  /\ wire = [c \in Clients |-> <<>>] /\ chan = [c \in Clients |-> <<>>]

Idling(d)      == TimerFires(d) \/ OnIdle(d) \/ IdleShutdown(d)
Closing(d)     == CloseListener(d) \/ Cleanup(d)
Handling(d, c) == HandleRequest(d, c) \/ RejectRun(d, c) \/ RegisterRun(d, c)

Next ==
  \/ DaemonStop
  \/ \E d \in Daemons : \/ New(d) \/ Listen(d) \/ Serve(d) \/ Idling(d)
                        \/ Closing(d) \/ Crash(d)
  \/ \E c \in Clients : \/ Dial(c) \/ ReadPid(c) \/ ClearStale(c) \/ Poll(c)
                        \/ GiveUp(c) \/ Close(c) \/ ReadLoop(c) \/ Take(c)
                        \/ c \in Callers /\ \E kind \in Kinds : Send(c, kind)
  \/ \E d \in Daemons, c \in Clients : Spawn(c, d) \/ Handling(d, c)
                                        \/ EmitPart(d, c) \/ FinishRun(d, c)

(* The timer of the runtime fires, and a goroutine that can go on goes on. *)
(* A run need not end (it may wait for the user without a timeout), and a  *)
(* consumer need not take from its channel (the terminal may stop).        *)
Fairness ==
  /\ \A d \in Daemons : WF_vars(Serve(d) \/ Idling(d) \/ Closing(d))
  /\ \A c \in Clients : WF_vars(ReadLoop(c))
  /\ \A d \in Daemons, c \in Clients : WF_vars(Handling(d, c))

Spec     == Init /\ [][Next]_vars
FairSpec == Spec /\ Fairness

-----------------------------------------------------------------------------
(* While daemons follow one another, each started when no other is alive   *)
(* and no client cleans up after a dead one beside a new one, the files    *)
(* that crashes leave behind never hide a serving daemon: the socket and   *)
(* the PID file are its own (client.go:63-74, gateway.go:790-811, 1235).   *)
AloneIsReachable ==
  ~crowded => \A d \in Daemons : proc[d] = "serving" => sock = d /\ pid = d

(* However many stream parts were dropped because the consumer was slow,   *)
(* nobody who asked is left with nothing to wait for: his run still goes   *)
(* on, or the response gets to his channel, or waits at a channel that is  *)
(* full because nobody takes from it (client.go:118-136, 188-226).  Two    *)
(* ends are none of these: the client leaves, and the daemon dies, after   *)
(* which the caller waits for ever, "hung".                                *)
Going(c)    == call[c] = "waiting" /\ conn[c] # None
               /\ c \in accepted[conn[c]] \cup runs[conn[c]]
AtHand(c)   == Len(chan[c]) = ChanCap \/ \E k \in DOMAIN chan[c] : chan[c][k] = "response"
Returned(c) == call[c] \in {"none", "done", "hung"}
CallsReturn ==
  \A c \in Clients : ~Returned(c) ~> Returned(c) \/ Going(c) \/ AtHand(c)

(* A daemon whose timeout was deferred, for a run or a job, still stops    *)
(* once neither is left and nobody asks for anything (gateway.go:1220).    *)
Quiet(d) == runs[d] = {} /\ accepted[d] = {} /\ ~jobs
IdleDaemonStops ==
  \A d \in Daemons : [](proc[d] = "serving" => <>(proc[d] # "serving" \/ ~Quiet(d)))
=============================================================================
