----------------------------- MODULE Approvals ------------------------------
(***************************************************************************)
(* Tool calls that need a human: the permission checker, the approval      *)
(* gate, the bus that carries a request to the gateway, the notification   *)
(* made of it, and the clients that answer either the event or the         *)
(* notification, while other runs, cancels and crashes go on.              *)
(*                                                                         *)
(* A tool call is its tool, the pattern of its shell command (empty for    *)
(* other tools and for commands without one) and the directory it writes   *)
(* to.  An agent run is a goroutine that makes one call after another; how *)
(* its turn goes is AgentRun's subject.  meta.json of a session is written *)
(* in one step here; what else touches it is SessionStore's subject.  The  *)
(* permission modes no caller passes, hooks and the sandbox are left out,  *)
(* and so are notes of other sources: they push these out sooner, no more. *)
(***************************************************************************)
EXTENDS Notifications, FiniteSets

CONSTANTS
  Sessions, Agents,
  RunIds,      \* goroutines that execute runs, each used once
  Terminals,   \* connections that answer the events (ecl run)
  Doubled,     \* terminals whose answer is encoded twice, as ecl run does
  Inboxes,     \* connections that answer the notes (the TUI, ecl notifications)
  Calls,       \* tool calls the models can make
  None,        \* the session, agent or call of a goroutine that has none
  Tier,        \* EffectiveTier of every tool
  Writers,     \* tools whose target CheckWorkspaceBoundary looks at
  Roots,       \* directories in the workspace of every run
  BusCap,      \* buffer of a subscriber of the bus (32)
  Overlaps,    \* whether a session is run twice at a time
  MaxRequests, \* bound: approval requests
  MaxCrashes   \* bound: crashes of the daemon

Clients   == Terminals \cup Inboxes
Requests  == 1..MaxRequests
NoRequest == 0
Tools     == DOMAIN Tier
Purposes  == {"tool", "write"}
Answers   == {"yes", "always", "no"}
Approving == {"yes", "always"}

ASSUME ApprovalsAssumption ==
  /\ \A c \in Calls : /\ c.tool \in Tools /\ c.pattern \in Seq(STRING)
                      /\ c.pattern # <<>> => c.tool = "shell"
  /\ None \notin Calls \cup Sessions \cup Agents
  /\ Tier \in [Tools -> {"readonly", "modify", "dangerous"}]
  /\ Writers \subseteq Tools
  /\ Doubled \subseteq Terminals /\ Terminals \cap Inboxes = {}
  /\ BusCap \in Nat \ {0}
  /\ {MaxRequests, MaxCrashes} \subseteq Nat
  /\ Overlaps \in BOOLEAN

VARIABLES
  run,        \* what each goroutine of a run holds
  approved,   \* PermissionChecker.approved: one for the whole daemon
  saved,      \* approval patterns in meta.json of each session
  pending,    \* ApprovalGate.pending
  answers,    \* the channel of each request, with room for one answer
  bus,        \* the events the gateway has not taken from its subscription
  herald,     \* the request broadcastApprovalRequests has made a note of
  told,       \* events each terminal has been sent and not answered
  store,      \* the notifications
  client,     \* the request the handler of each connection works on
  issued,     \* requests made so far
  crashes,    \* crashes so far
  ruled,      \* history: requests somebody answered
  consented,  \* history: those whose first answer was yes or always
  granted,    \* history: sessions and keys of the first answers "always"
  lost,       \* history: events the bus dropped, notes pushed out of memory
  abandoned   \* history: requests whose run stopped waiting or died

gate  == <<pending, answers, issued>>
desk  == <<bus, herald, told, store, lost>>
perms == <<approved, saved>>
aux   == <<ruled, consented, granted, abandoned>>
vars  == <<run, perms, gate, desk, client, crashes, aux>>

Waiting == {"publish", "wait", "close"}
Phases  == Waiting \cup {"idle", "over", "model", "grant", "keys", "save",
                        "boundary", "execute"}

(* A key of the checker: agent, tool and, for a shell command, its pattern.*)
Key(agent, c) == <<agent, c.tool>> \o c.pattern
Covering(agent, c) == {SubSeq(Key(agent, c), 1, n) : n \in 2..Len(Key(agent, c))}
Keys == UNION {Covering(a, c) : a \in Agents, c \in Calls}

RunState ==
  [at : Phases, agent : Agents \cup {None}, session : Sessions \cup {None},
   roots : SUBSET (Roots \cup {c.dir : c \in Calls}), call : Calls \cup {None},
   asked : [Purposes -> Requests \cup {NoRequest}], for : Purposes,
   answer : Answers \cup {"none"}, keys : SUBSET Keys]

Notes == [id : Requests, resolved : BOOLEAN]

TypeOK ==
  /\ run \in [RunIds -> RunState]
  /\ approved \subseteq Keys /\ saved \in [Sessions -> SUBSET Keys]
  /\ issued \in 0..MaxRequests /\ crashes \in 0..MaxCrashes
  /\ {pending, ruled, consented, lost, abandoned} \subseteq SUBSET Requests
  /\ granted \subseteq Sessions \X Keys
  /\ answers \in [Requests -> {<<>>} \cup {<<a>> : a \in Answers}]
  /\ bus \in Seq(Requests) /\ Len(bus) <= BusCap
  /\ herald \in Requests \cup {NoRequest}
  /\ told \in [Terminals -> SUBSET Requests]
  /\ store \in [entries : Seq(Notes), file : Seq(Notes)]
  /\ Len(store.entries) <= NotesCap
  /\ client \in [Clients -> [at : {"free", "send", "resolve"},
                             req : Requests \cup {NoRequest}]]
-----------------------------------------------------------------------------
At(r)          == run[r].at
Asked(r)       == run[r].asked[run[r].for]
Dangerous(c)   == Tier[c.tool] = "dangerous"
Goto(r, phase) == run' = [run EXCEPT ![r].at = phase]

NotAsked == [p \in Purposes |-> NoRequest]
Fresh(agent, s) ==
  [at |-> "model", agent |-> agent, session |-> s, roots |-> Roots,
   call |-> None, asked |-> NotAsked, for |-> "tool", answer |-> "none", keys |-> {}]

Gone(phase) == [Fresh(None, None) EXCEPT !.at = phase, !.roots = {}]

(* The call is over, executed or refused, and the model goes on.           *)
NextCall(state) == [Fresh(state.agent, state.session) EXCEPT !.roots = state.roots]
-----------------------------------------------------------------------------
(* A run and its tool calls.                                               *)

Running(s) == {r \in RunIds : run[r].session = s}

(* Mutant: a continued session does not bring its approvals back.          *)
StartBare(r, agent, s) ==
  /\ At(r) = "idle"
  /\ Overlaps \/ Running(s) = {}
  /\ run' = [run EXCEPT ![r] = Fresh(agent, s)]
  /\ UNCHANGED <<perms, gate, desk, client, crashes, aux>>

(* The approvals of the session are loaded into the one checker.           *)
Start(r, agent, s) ==
  /\ At(r) = "idle"
  /\ Overlaps \/ Running(s) = {}
  /\ run' = [run EXCEPT ![r] = Fresh(agent, s)]
  /\ approved' = approved \cup saved[s]
  /\ UNCHANGED <<saved, gate, desk, client, crashes, aux>>

End(r) ==
  /\ At(r) = "model"
  /\ run' = [run EXCEPT ![r] = Gone("over")]
  /\ UNCHANGED <<perms, gate, desk, client, crashes, aux>>

isApproved(agent, c) == Covering(agent, c) \cap approved # {}

(* CheckWithMode under PermissionWriteOnly, which every caller passes.  An *)
(* allowed call that the rate limiter refuses changes nothing: the model   *)
(* goes on with another, as it may have done anyway.                       *)
Allow(r, c) ==
  /\ At(r) = "model"
  /\ isApproved(run[r].agent, c) \/ ~Dangerous(c)
  /\ run' = [run EXCEPT ![r].at = "boundary", ![r].call = c]
  /\ UNCHANGED <<perms, gate, desk, client, crashes, aux>>

Requesting(state, c, purpose, q) ==
  [state EXCEPT !.at = "publish", !.call = c, !.for = purpose, !.answer = "none",
                !.asked = [@ EXCEPT ![purpose] = q]]

(* ApprovalGate.Request up to the registration of the channel.             *)
Request(r, c, purpose) ==
  /\ issued < MaxRequests
  /\ issued' = issued + 1
  /\ pending' = pending \cup {issued'}
  /\ run' = [run EXCEPT ![r] = Requesting(@, c, purpose, issued')]
  /\ UNCHANGED <<perms, answers, desk, client, crashes, aux>>

Prompt(r, c) ==
  /\ At(r) = "model"
  /\ Dangerous(c) /\ ~isApproved(run[r].agent, c)
  /\ Request(r, c, "tool")

Inside(state) ==
  state.call.tool \notin Writers \/ state.call.dir \in state.roots

WithinWorkspace(r) ==
  /\ At(r) = "boundary" /\ Inside(run[r])
  /\ Goto(r, "execute")
  /\ UNCHANGED <<perms, gate, desk, client, crashes, aux>>

OutsideWorkspace(r) ==
  /\ At(r) = "boundary" /\ ~Inside(run[r])
  /\ Request(r, run[r].call, "write")

Execute(r) ==
  /\ At(r) = "execute"
  /\ run' = [run EXCEPT ![r] = NextCall(@)]
  /\ UNCHANGED <<perms, gate, desk, client, crashes, aux>>
-----------------------------------------------------------------------------
(* The rest of ApprovalGate.Request, and what the run does with the answer.*)

Publish(r) ==
  /\ At(r) = "publish" /\ Len(bus) < BusCap
  /\ bus' = Append(bus, Asked(r))
  /\ Goto(r, "wait")
  /\ UNCHANGED <<perms, gate, herald, told, store, lost, client, crashes, aux>>

(* The buffer stayed full for 100 ms.                                      *)
Drop(r) ==
  /\ At(r) = "publish" /\ Len(bus) = BusCap
  /\ lost' = lost \cup {Asked(r)}
  /\ Goto(r, "wait")
  /\ UNCHANGED <<perms, gate, bus, herald, told, store, client, crashes, aux>>

TakeAnswer(r) ==
  /\ At(r) = "wait" /\ answers[Asked(r)] # <<>>
  /\ run' = [run EXCEPT ![r].at = "close", ![r].answer = Head(answers[Asked(r)])]
  /\ answers' = [answers EXCEPT ![Asked(r)] = Tail(@)]
  /\ UNCHANGED <<perms, pending, issued, desk, client, crashes, aux>>

(* agent.cancel, agent.stop or the client's connection cancels the run; if *)
(* there is an answer too the select takes either.  Elsewhere a cancelled  *)
(* run comes to its next wait or to its end.                               *)
GiveUp(r) ==
  /\ At(r) = "wait"
  /\ Goto(r, "close")
  /\ abandoned' = abandoned \cup {Asked(r)}
  /\ UNCHANGED <<perms, gate, desk, client, crashes, ruled, consented, granted>>

(* The directory an approved write outside the workspace adds to the roots *)
(* of the run; the working directory of a shell command is not looked for. *)
Extension(c) == IF c.tool = "shell" THEN {} ELSE {c.dir}

Written(state) ==
  [state EXCEPT !.at = "execute", !.answer = "none",
                !.roots = @ \cup Extension(state.call)]

Passed(state, phase) == [state EXCEPT !.at = phase, !.answer = "none"]

(* Mutant: only an explicit no refuses.                                    *)
AfterUnlessNo(state) ==
  IF state.answer = "no" THEN NextCall(state)
  ELSE IF state.for = "write" THEN Written(state)
  ELSE Passed(state, IF state.answer = "always" THEN "grant" ELSE "boundary")

(* What a run goes on with once its request is answered or given up.       *)
After(state) ==
  IF state.answer \notin Approving THEN NextCall(state)
  ELSE IF state.for = "write" THEN Written(state)
  ELSE Passed(state, IF state.answer = "always" THEN "grant" ELSE "boundary")

Close(r) ==
  /\ At(r) = "close"
  /\ pending' = pending \ {Asked(r)}
  /\ run' = [run EXCEPT ![r] = After(@)]
  /\ UNCHANGED <<perms, answers, issued, desk, client, crashes, aux>>

(* "always": ApprovePattern or Approve, then persistApprovals, which saves *)
(* all the keys of the checker.                                            *)
Grant(r) ==
  /\ At(r) = "grant"
  /\ approved' = approved \cup {Key(run[r].agent, run[r].call)}
  /\ Goto(r, "keys")
  /\ UNCHANGED <<saved, gate, desk, client, crashes, aux>>

ApprovedKeys(r) ==
  /\ At(r) = "keys"
  /\ run' = [run EXCEPT ![r].at = "save", ![r].keys = approved]
  /\ UNCHANGED <<perms, gate, desk, client, crashes, aux>>

SavePatterns(r) ==
  /\ At(r) = "save"
  /\ saved' = [saved EXCEPT ![run[r].session] = run[r].keys]
  /\ run' = [run EXCEPT ![r].at = "boundary", ![r].keys = {}]
  /\ UNCHANGED <<approved, gate, desk, client, crashes, aux>>
-----------------------------------------------------------------------------
(* The gateway: the subscriber of the bus and the other notifications.     *)

Keep(new) ==
  /\ store' = new
  /\ lost' = lost \cup ({n.id : n \in ToSet(store.entries)}
                          \ {n.id : n \in ToSet(new.entries)})

MakeNote ==
  /\ herald = NoRequest /\ bus # <<>>
  /\ herald' = Head(bus) /\ bus' = Tail(bus)
  /\ Keep(Add(store, Note(Head(bus))))
  /\ UNCHANGED <<run, perms, gate, told, client, crashes, aux>>

Tell ==
  /\ herald # NoRequest
  /\ told' = [c \in Terminals |-> told[c] \cup {herald}]
  /\ herald' = NoRequest
  /\ UNCHANGED <<run, perms, gate, bus, store, lost, client, crashes, aux>>
-----------------------------------------------------------------------------
(* The handlers of the connections.                                        *)

Free == [at |-> "free", req |-> NoRequest]

(* A terminal answers each event once.  approval.respond is refused when   *)
(* the request does not wait any more, and when its data, encoded twice,   *)
(* is a JSON string and not the object that the handler expects.           *)
Respond(c, q) ==
  /\ client[c].at = "free" /\ q \in told[c]
  /\ told' = [told EXCEPT ![c] = @ \ {q}]
  /\ client' = IF c \notin Doubled /\ q \in pending
               THEN [client EXCEPT ![c] = [at |-> "send", req |-> q]] ELSE client
  /\ UNCHANGED <<run, perms, gate, bus, herald, store, lost, crashes, aux>>

(* notification.act: the note of such a request is resolved all the same.  *)
(* Nothing looks whether it is resolved already, so one client can answer  *)
(* a request again and again.                                              *)
Act(c, q) ==
  /\ client[c].at = "free"
  /\ \E n \in ToSet(store.entries) : n.id = q
  /\ client' = [client EXCEPT ![c] =
       [at |-> IF q \in pending THEN "send" ELSE "resolve", req |-> q]]
  /\ UNCHANGED <<run, perms, gate, desk, crashes, aux>>

Unanswered(r, q) == At(r) \in {"publish", "wait"} /\ Asked(r) = q

(* What an "always" to q allows, and in which session it was asked for.    *)
Standing(q) ==
  {<<run[r].session, Key(run[r].agent, run[r].call)>> :
     r \in {x \in RunIds : Unanswered(x, q) /\ run[x].for = "tool"}}

(* The user decides with the first answer to a request.                    *)
Rule(q, answer) ==
  /\ ruled' = ruled \cup {q}
  /\ consented' = consented \cup IF q \notin ruled /\ answer \in Approving
                                THEN {q} ELSE {}
  /\ granted' = granted \cup IF q \notin ruled /\ answer = "always"
                            THEN Standing(q) ELSE {}

(* Blocks while there is an answer in the channel: for good when the run   *)
(* has left without taking it.                                             *)
Send(c, answer) ==
  LET q == client[c].req
  IN  /\ client[c].at = "send" /\ answers[q] = <<>>
      /\ answers' = [answers EXCEPT ![q] = <<answer>>]
      /\ Rule(q, answer)
      /\ client' = [client EXCEPT ![c].at = "resolve"]
      /\ UNCHANGED <<run, perms, pending, issued, desk, crashes, abandoned>>

(* Mutant: approval.respond resolves whatever note is pending.             *)
ResolveSomeNote(c) ==
  /\ client[c].at = "resolve"
  /\ \/ /\ c \in Inboxes
        /\ Keep(Resolve(store, client[c].req))
     \/ /\ c \in Terminals
        /\ \E n \in Pending(store) : Keep(Resolve(store, n.id))
     \/ /\ c \in Terminals /\ Pending(store) = {}
        /\ Keep(store)
  /\ client' = [client EXCEPT ![c] = Free]
  /\ UNCHANGED <<run, perms, gate, bus, herald, told, crashes, aux>>

(* approval.respond looks for the note among the pending ones.             *)
ResolveNote(c) ==
  LET q == client[c].req
  IN  /\ client[c].at = "resolve"
      /\ Keep(IF c \in Inboxes \/ \E n \in Pending(store) : n.id = q
              THEN Resolve(store, q) ELSE store)
      /\ client' = [client EXCEPT ![c] = Free]
      /\ UNCHANGED <<run, perms, gate, bus, herald, told, crashes, aux>>

(* The daemon dies and is started again.                                   *)
Crash ==
  /\ crashes < MaxCrashes
  /\ crashes' = crashes + 1
  /\ run' = [r \in RunIds |-> Gone(IF At(r) = "idle" THEN "idle" ELSE "over")]
  /\ approved' = {} /\ pending' = {}
  /\ answers' = [q \in Requests |-> <<>>]
  /\ bus' = <<>> /\ herald' = NoRequest /\ told' = [c \in Terminals |-> {}]
  /\ Keep(Load(store.file))
  /\ client' = [c \in Clients |-> Free]
  /\ abandoned' = 1..issued
  /\ UNCHANGED <<saved, issued, ruled, consented, granted>>
-----------------------------------------------------------------------------
Init ==
  /\ run = [r \in RunIds |-> Gone("idle")]
  /\ approved = {} /\ pending = {} /\ issued = 0
  /\ saved = [s \in Sessions |-> {}]
  /\ answers = [q \in Requests |-> <<>>]
  /\ bus = <<>> /\ herald = NoRequest /\ told = [c \in Terminals |-> {}]
  /\ store = [entries |-> <<>>, file |-> <<>>] /\ lost = {}
  /\ client = [c \in Clients |-> Free]
  /\ crashes = 0
  /\ ruled = {} /\ consented = {} /\ granted = {} /\ abandoned = {}

RunStep(r) ==
  \/ \E a \in Agents, s \in Sessions : Start(r, a, s)
  \/ \E c \in Calls : Allow(r, c) \/ Prompt(r, c)
  \/ WithinWorkspace(r) \/ OutsideWorkspace(r) \/ Execute(r) \/ End(r)
  \/ Publish(r) \/ Drop(r) \/ TakeAnswer(r) \/ GiveUp(r) \/ Close(r)
  \/ Grant(r) \/ ApprovedKeys(r) \/ SavePatterns(r)

ClientStep(c) ==
  \/ \E q \in Requests : \/ c \in Terminals /\ Respond(c, q)
                         \/ c \in Inboxes /\ Act(c, q)
  \/ \E a \in Answers : Send(c, a)
  \/ ResolveNote(c)

Next ==
  \/ \E r \in RunIds : RunStep(r)
  \/ MakeNote \/ Tell
  \/ \E c \in Clients : ClientStep(c)
  \/ Crash

Spec == Init /\ [][Next]_vars
-----------------------------------------------------------------------------
(* Somebody answered "always" to a call like c of the agent, in a run of   *)
(* one of the sessions.                                                    *)
AlwaysSaid(sessions, agent, c) ==
  \E s \in sessions, key \in Covering(agent, c) : <<s, key>> \in granted

(* A tool of the dangerous tier is only executed if the first answer to    *)
(* this very call approved it or somebody said "always" to one like it;    *)
(* and one outside the workspace only if the first answer to that question *)
(* of this run approved it: whatever is answered twice or late, and        *)
(* whatever is saved, restored and lost (runtime.go, executeToolCall).     *)
(* "Always" counts here in whatever session it was said, as the checker    *)
(* is one for the daemon; AlwaysIsSessionScoped is what the code's         *)
(* comments say instead.                                                   *)
ConsentFrom(sessions, r) ==
  LET c == run[r].call
  IN  Dangerous(c) => \/ run[r].asked["tool"] \in consented
                      \/ AlwaysSaid(sessions, run[r].agent, c)

ConsentGiven ==
  \A r \in RunIds : At(r) = "execute" =>
    /\ ConsentFrom(Sessions, r)
    /\ ~Inside(run[r]) => run[r].asked["write"] \in consented

(* "Session-scoped approval caching" (PROJECT_SPEC.md:113; approval.go:24, *)
(* permission.go:44): what is allowed always is so in its session only.    *)
(* It is not: the checker belongs to the daemon (gateway.go, New).         *)
AlwaysIsSessionScoped ==
  \A r \in RunIds : At(r) = "execute" => ConsentFrom({run[r].session}, r)

(* A run that waits for an answer can get one: its request is on its way   *)
(* to the gateway or in a note that nobody has resolved, unless the bus    *)
(* dropped the event or the note was pushed out by newer ones (gateway.go, *)
(* broadcastApprovalRequests; notifications.go).                           *)
PendingIsVisible ==
  \A r \in RunIds :
    At(r) = "wait" /\ answers[Asked(r)] = <<>> =>
      \/ Asked(r) \in lost \cup ToSet(bus)
      \/ \E n \in Pending(store) : n.id = Asked(r)

(* A listed note asks about a request that still waits, or is just being   *)
(* resolved, unless the run was cancelled or died with the daemon          *)
(* (gateway.go, handleRequest and actOnApproval).                          *)
NoDeadNotes ==
  \A n \in Pending(store) :
    \/ n.id \in pending \cup abandoned
    \/ \E c \in Clients : client[c].req = n.id /\ client[c].at # "free"

(* Both: what the user is shown as pending is what runs wait for           *)
(* (gateway.go:1771, :919, bus.go:122).                                    *)
NotesMatchRequests == PendingIsVisible /\ NoDeadNotes

(* A restart finds the notifications the daemon had, read and resolved as  *)
(* they were, although additions are appended and all else rewrites the    *)
(* file (notifications.go).                                                *)
NotesOnDisk == Newest(store.file) = store.entries

(* What the meta.json of a session allows is never taken back, across      *)
(* other "always" answers, runs of other sessions and crashes, although    *)
(* each saves the keys of the checker over it: as long as no session is    *)
(* run twice at a time (runner.go, Run; runtime.go, persistApprovals).     *)
AlwaysIsRemembered ==
  [][\A s \in Sessions : saved[s] \subseteq saved'[s]]_vars
=============================================================================
