------------------------------ MODULE Terminal ------------------------------
(***************************************************************************)
(* The chat of the terminal (src/internal/ui/app.go) and the client that   *)
(* carries it (src/internal/gateway/client.go): tabs, turns sent from      *)
(* them, the stream of a turn's events through the client's reader, the    *)
(* goroutine runStream and the one channel streamCh that all tabs share,   *)
(* and the waiters (waitForStream) that hand its messages to Update.       *)
(*                                                                         *)
(* A waiter takes ONE message; Update asks for the next by starting a new  *)
(* waiter.  Every waiter is a goroutine of its own, so two of them deliver *)
(* what they took in any order.  Update itself is one thread: each action  *)
(* below that handles a message or a key is one call of Update.            *)
(*                                                                         *)
(* Bounds: one run per element of Runs; run r's answer is one of           *)
(* Scripts[r]; the channels hold ChCap and OutCap entries (64 in the code,    *)
(* OutCap counting the entry runStream holds while it waits for streamCh). *)
(***************************************************************************)
EXTENDS Naturals, Sequences, FiniteSets, SequencesExt

CONSTANTS
  Main,      \* the tab that is always there
  NewTabs,   \* the IDs of the tabs opened on a new session
  Listed,    \* the sessions the picker lists from the start
  Runs,      \* 1 .. n, the turns that may be sent
  Fresh,     \* Fresh[r]: the session the gateway makes for run r when it is given none
  Scripts,   \* Scripts[r]: the answers run r may give, sequences of events, the last one the response
  OutCap,    \* capacity of a call's channel in the client
  ChCap,     \* capacity of streamCh
  MaxMoves,  \* how often the user clears, cancels, opens or closes, and the gateway goes away, in all
  None

Sessions == Listed \cup {Fresh[r] : r \in Runs}
TabIds   == {Main} \cup NewTabs \cup Sessions

(* What a script may say before its response, the last of it. *)
Events == {"text", "call", "result", "start", "inner", "finish", "error"}

ASSUME CapAssumption == OutCap \in Nat \ {0} /\ ChCap \in Nat \ {0}
ASSUME TurnsAssumption ==
  /\ Runs \subseteq Nat /\ None \notin TabIds \cup Runs
  /\ \A r \in Runs : Scripts[r] \subseteq Seq(Events \cup {"ok", "fail"})

VARIABLES
  tabs,      \* the tabs shown: a sequence of [id, sid]
  active,    \* the index of the tab in front
  chat,      \* chat[t]: the items of the tab's message list
  streaming, \* streaming[t]: the text collected since the tab's last "done"
  busy,      \* busy[t]: the tab shows its spinner
  cancels,   \* cancels[t]: the run whose context ctrl+x cancels, or None
  run,       \* run[r]: [st, tab, sid, left], left the events the gateway has yet to send
  out,       \* out[r]: what the client has read for the call of run r
  reader,    \* the run whose response the reader is trying to hand over, holding the client's lock, or None
  ch,        \* streamCh
  waiters,   \* goroutines blocked in waitForStream
  taken,     \* messages a waiter has taken and not yet delivered to Update
  asked,     \* the agent.cancel calls on their way
  up,        \* the connection to the gateway stands
  moves,     \* how many such moves were made
  crowded    \* history: two messages were in waiters' hands at once
vars == <<tabs, active, chat, streaming, busy, cancels, run, out, reader, ch, waiters, taken, asked, up, moves, crowded>>
screen == <<tabs, active, chat, streaming, busy, cancels>>
wire   == <<run, out, reader, ch, asked, up>>
Move == moves < MaxMoves /\ moves' = moves + 1

(* An item of a message list: "you", "live", "tool", "agent", "system" or  *)
(* "error" (the line of an errorMsg), the run it is about, the messages it *)
(* shows, and whether it is closed.                                        *)
item(kind, r, text) == [kind |-> kind, of |-> r, text |-> text, done |-> FALSE]

Here  == tabs[active].id
Open  == {r \in Runs : run[r].st # "idle"}
TabOf(m) == run[m.of].tab

-----------------------------------------------------------------------------
(* The gateway's side of a run: it emits its events and then its response.  *)
(* The reader puts an event into the call's channel if there is room and    *)
(* loses it otherwise; for a response it waits, with the lock held.         *)

Free(r) == Len(out[r]) < OutCap

ReadEvent(r) ==
  /\ up /\ reader = None /\ run[r].st = "sent" /\ Len(run[r].left) > 1
  /\ out' = [out EXCEPT ![r] = IF Free(r) THEN Append(@, Head(run[r].left)) ELSE @]
  /\ run' = [run EXCEPT ![r].left = Tail(@)]
  /\ UNCHANGED <<screen, reader, ch, waiters, taken, asked, up, moves, crowded>>

ReadResponse(r) ==
  /\ up /\ reader = None /\ run[r].st = "sent" /\ Len(run[r].left) = 1
  /\ IF Free(r)
     THEN /\ out' = [out EXCEPT ![r] = Append(@, Head(run[r].left))]
          /\ run' = [run EXCEPT ![r].left = <<>>, ![r].st = "answered"]
          /\ UNCHANGED reader
     ELSE reader' = r /\ UNCHANGED <<out, run>>
  /\ UNCHANGED <<screen, ch, waiters, taken, asked, up, moves, crowded>>

HandOver ==
  /\ reader # None /\ Free(reader)
  /\ out' = [out EXCEPT ![reader] = Append(@, Head(run[reader].left))]
  /\ run' = [run EXCEPT ![reader].left = <<>>, ![reader].st = "answered"]
  /\ reader' = None
  /\ UNCHANGED <<screen, ch, waiters, taken, asked, up, moves, crowded>>

(* The gateway goes away.  The reader returns without closing a call's      *)
(* channel; a later send fails when it writes to the socket.                *)
Disconnect ==
  /\ Move
  /\ up /\ reader = None
  /\ up' = FALSE
  /\ UNCHANGED <<screen, run, out, reader, ch, waiters, taken, asked, crowded>>

-----------------------------------------------------------------------------
(* runStream, one goroutine per turn: it makes the call, forwards the       *)
(* events, turns the response into an error or the session's ID, and says   *)
(* "done" when it returns.                                                  *)

Put(r, kind) == ch' = Append(ch, [kind |-> kind, of |-> r, n |-> 0])
Room == Len(ch) < ChCap

Request(r) ==
  /\ run[r].st = "called" /\ reader = None /\ up
  /\ \E s \in Scripts[r] :
       run' = [run EXCEPT ![r].st = "sent",
                          ![r].left = [i \in DOMAIN s |-> [kind |-> s[i], of |-> r, n |-> i]],
                          ![r].sid = IF @ = None THEN Fresh[r] ELSE @]
  /\ UNCHANGED <<screen, out, reader, ch, waiters, taken, asked, up, moves, crowded>>

RequestFails(r) ==
  /\ run[r].st = "called" /\ reader = None /\ ~up /\ Room
  /\ Put(r, "oops")
  /\ run' = [run EXCEPT ![r].st = "returning"]
  /\ UNCHANGED <<screen, out, reader, waiters, taken, asked, up, moves, crowded>>

ForwardEvent(r) ==
  /\ out[r] # <<>> /\ Room /\ Head(out[r]).kind \notin {"ok", "fail"}
  /\ ch' = Append(ch, Head(out[r]))
  /\ out' = [out EXCEPT ![r] = Tail(@)]
  /\ UNCHANGED <<screen, run, reader, waiters, taken, asked, up, moves, crowded>>

ForwardResponse(r) ==
  /\ out[r] # <<>> /\ Room /\ Head(out[r]).kind \in {"ok", "fail"}
  /\ Put(r, IF Head(out[r]).kind = "ok" THEN "sid" ELSE "oops")
  /\ out' = [out EXCEPT ![r] = Tail(@)]
  /\ run' = [run EXCEPT ![r].st = "returning"]
  /\ UNCHANGED <<screen, reader, waiters, taken, asked, up, moves, crowded>>

Return(r) ==
  /\ run[r].st = "returning" /\ Room
  /\ Put(r, "done")
  /\ run' = [run EXCEPT ![r].st = "returned"]
  /\ UNCHANGED <<screen, out, reader, waiters, taken, asked, up, moves, crowded>>

-----------------------------------------------------------------------------
(* waitForStream: a waiter takes the first message; Update gets it later.   *)

Take ==
  /\ waiters > 0 /\ ch # <<>>
  /\ taken' = taken \cup {Head(ch)}
  /\ ch' = Tail(ch)
  /\ waiters' = waiters - 1
  /\ crowded' = (crowded \/ taken # {})
  /\ UNCHANGED <<screen, run, out, reader, asked, up, moves>>

Got(m, kinds) == m \in taken /\ m.kind \in kinds /\ taken' = taken \ {m}
Rewait == waiters' = waiters + 1
ChatOnly == UNCHANGED <<tabs, active, busy, cancels, moves, crowded>> /\ UNCHANGED wire

Live(cl) == SelectInSeq(cl, LAMBDA i : i.kind = "live")
WithLive(cl, text) == IF Live(cl) = 0 THEN Append(cl, item("live", None, text))
                                      ELSE [cl EXCEPT ![Live(cl)].text = text]

(* Mutant: the text is shown in the tab in front. *)
TextDeltaInFront(m) ==
  /\ Got(m, {"text"}) /\ Rewait
  /\ LET s == Append(streaming[TabOf(m)], m)
     IN streaming' = [streaming EXCEPT ![TabOf(m)] = s] /\ chat' = [chat EXCEPT ![Here] = WithLive(@, s)]
  /\ ChatOnly

TextDelta(m) ==
  /\ Got(m, {"text"}) /\ Rewait
  /\ LET t == TabOf(m)
         s == Append(streaming[t], m)
     IN streaming' = [streaming EXCEPT ![t] = s] /\ chat' = [chat EXCEPT ![t] = WithLive(@, s)]
  /\ ChatOnly

(* A tool call, or the start of a sub-agent, adds an item.                   *)
ToolCall(m) ==
  /\ Got(m, {"call", "start"}) /\ Rewait
  /\ chat' = [chat EXCEPT ![TabOf(m)] = Append(@, item(IF m.kind = "call" THEN "tool" ELSE "agent", m.of, <<>>))]
  /\ UNCHANGED streaming /\ ChatOnly

(* Its result is put into the item the index knows; without one it is lost.  *)
Close(cl, kind, r) == [i \in DOMAIN cl |-> IF cl[i].kind = kind /\ cl[i].of = r THEN [cl[i] EXCEPT !.done = TRUE] ELSE cl[i]]
ToolResult(m) ==
  /\ Got(m, {"result", "finish"}) /\ Rewait
  /\ chat' = [chat EXCEPT ![TabOf(m)] = Close(@, IF m.kind = "result" THEN "tool" ELSE "agent", m.of)]
  /\ UNCHANGED streaming /\ ChatOnly

(* A sub-agent's tool call goes into the item of the agent, if it is there.  *)
Nest(cl, m) == [i \in DOMAIN cl |-> IF cl[i].kind = "agent" /\ cl[i].of = m.of
                                    THEN [cl[i] EXCEPT !.text = Append(@, m)] ELSE cl[i]]
NestedTool(m) ==
  /\ Got(m, {"inner"}) /\ Rewait
  /\ chat' = [chat EXCEPT ![TabOf(m)] = Nest(@, m)]
  /\ UNCHANGED streaming /\ ChatOnly

RunError(m) ==
  /\ Got(m, {"error"}) /\ Rewait
  /\ chat' = [chat EXCEPT ![TabOf(m)] = Append(@, item("system", m.of, <<>>))]
  /\ busy' = [busy EXCEPT ![TabOf(m)] = FALSE]
  /\ UNCHANGED <<tabs, active, streaming, cancels, moves, crowded>> /\ UNCHANGED wire

(* Mutant: the end of a turn forgets the context ctrl+x would cancel too late. *)
DoneKeepsCancel(m) ==
  /\ Got(m, {"done"})
  /\ streaming' = [streaming EXCEPT ![TabOf(m)] = <<>>]
  /\ busy' = [busy EXCEPT ![TabOf(m)] = FALSE]
  /\ UNCHANGED <<tabs, active, chat, cancels, waiters, moves, crowded>> /\ UNCHANGED wire

(* The three messages after which Update does not wait for another.          *)
Done(m) ==
  /\ Got(m, {"done"})
  /\ streaming' = [streaming EXCEPT ![TabOf(m)] = <<>>]
  /\ busy' = [busy EXCEPT ![TabOf(m)] = FALSE]
  /\ cancels' = [cancels EXCEPT ![TabOf(m)] = None]
  /\ UNCHANGED <<tabs, active, chat, waiters, moves, crowded>> /\ UNCHANGED wire

SessionID(m) ==
  /\ Got(m, {"sid"})
  /\ LET i == SelectInSeq(tabs, LAMBDA x : x.id = TabOf(m))
     IN tabs' = IF i = 0 THEN tabs ELSE [tabs EXCEPT ![i].sid = run[m.of].sid]
  /\ UNCHANGED <<active, chat, streaming, busy, cancels, waiters, moves, crowded>> /\ UNCHANGED wire

(* An errorMsg carries no tab: its line goes to the tab in front, whosever   *)
(* the failure is, and stops that tab's spinner.                             *)
ShowError(of) == /\ chat' = [chat EXCEPT ![Here] = Append(@, item("error", of, <<>>))]
                 /\ busy' = [busy EXCEPT ![Here] = FALSE]
Error(m) ==
  /\ Got(m, {"oops"}) /\ ShowError(m.of)
  /\ UNCHANGED <<tabs, active, streaming, cancels, waiters, moves, crowded>> /\ UNCHANGED wire

-----------------------------------------------------------------------------
(* The keys.                                                                 *)

Idle == {r \in Runs : run[r].st = "idle"}
Next1 == CHOOSE r \in Idle : \A q \in Idle : r <= q

(* enter: the message is added, a goroutine started and ONE waiter with it.  *)
Send ==
  /\ Idle # {}
  /\ LET t == tabs[active]
     IN /\ chat' = [chat EXCEPT ![t.id] = Append(@, item("you", Next1, <<>>))]
        /\ busy' = [busy EXCEPT ![t.id] = TRUE]
        /\ cancels' = [cancels EXCEPT ![t.id] = Next1]
        /\ run' = [run EXCEPT ![Next1] = [st |-> "called", tab |-> t.id, sid |-> t.sid, left |-> <<>>]]
  /\ waiters' = waiters + 1
  /\ UNCHANGED <<tabs, active, streaming, out, reader, ch, taken, asked, up, moves, crowded>>

(* /clear *)
Clear ==
  /\ Move
  /\ chat' = [chat EXCEPT ![Here] = <<>>]
  /\ streaming' = [streaming EXCEPT ![Here] = <<>>]
  /\ UNCHANGED <<tabs, active, busy, cancels, waiters, taken, crowded>> /\ UNCHANGED wire

(* /status, /agents and /tools ask the gateway; without it the error is      *)
(* shown in whatever tab is in front, whose spinner it stops.                *)
AskFails ==
  /\ ~up /\ reader = None /\ busy[Here] /\ ShowError(None)
  /\ UNCHANGED <<tabs, active, streaming, cancels, waiters, taken, moves, crowded>> /\ UNCHANGED wire

(* ctrl+x: Stream ignores the context, so what counts is the call to the     *)
(* gateway, made only when the tab knows its session.                        *)
Cancel ==
  /\ Move
  /\ cancels[Here] # None
  /\ asked' = IF tabs[active].sid = None THEN asked ELSE asked \cup {[tab |-> Here, sid |-> tabs[active].sid]}
  /\ UNCHANGED <<screen, run, out, reader, ch, waiters, taken, up, crowded>>

(* The call arrives and ends a run of that session with an error.            *)
CancelArrives(a) ==
  /\ a \in asked /\ reader = None
  /\ asked' = asked \ {a}
  /\ LET hit == {r \in Runs : up /\ run[r].st = "sent" /\ run[r].sid = a.sid /\ Len(run[r].left) > 1}
     IN IF hit = {} THEN UNCHANGED run
                    ELSE \E r \in hit : run' = [run EXCEPT ![r].left = <<[kind |-> "fail", of |-> r, n |-> 0]>>]
  /\ UNCHANGED <<screen, out, reader, ch, waiters, taken, up, moves, crowded>>

Switch ==
  /\ Len(tabs) > 1
  /\ active' = (active % Len(tabs)) + 1
  /\ UNCHANGED <<tabs, chat, streaming, busy, cancels, waiters, taken, moves, crowded>> /\ UNCHANGED wire

CloseTab ==
  /\ Move
  /\ active > 1
  /\ tabs' = RemoveAt(tabs, active)
  /\ active' = IF active > Len(tabs) - 1 THEN Len(tabs) - 1 ELSE active
  /\ UNCHANGED <<chat, streaming, busy, cancels, waiters, taken, crowded>> /\ UNCHANGED wire

(* The picker: the first entry is a new session, the others are those the    *)
(* gateway knows.                                                            *)
NewTab(t) ==
  /\ Move
  /\ t \in NewTabs /\ \A i \in DOMAIN tabs : tabs[i].id # t
  /\ chat[t] = <<>> /\ \A r \in Runs : run[r].tab # t      \* the ID is the time: never used again
  /\ tabs' = Append(tabs, [id |-> t, sid |-> None])
  /\ active' = Len(tabs) + 1
  /\ UNCHANGED <<chat, streaming, busy, cancels, waiters, taken, crowded>> /\ UNCHANGED wire

Known == Listed \cup {run[r].sid : r \in {q \in Runs : run[q].st \notin {"idle", "called"}}}
OpenSession(s) ==
  /\ Move
  /\ s \in Known \ {None}
  /\ LET i == SelectInSeq(tabs, LAMBDA x : x.sid = s)
     IN IF i # 0 THEN active' = i /\ UNCHANGED tabs
                 ELSE tabs' = Append(tabs, [id |-> s, sid |-> s]) /\ active' = Len(tabs) + 1
  /\ UNCHANGED <<chat, streaming, busy, cancels, waiters, taken, crowded>> /\ UNCHANGED wire
-----------------------------------------------------------------------------
(* The terminal starts on the main tab.  The gateway's answer to connect     *)
(* never reaches it (ConnectWithCWD encodes its request twice and is refused)*)
(* so the tab has no session and there is no project tab.                    *)
Init ==
  /\ tabs = <<[id |-> Main, sid |-> None]>> /\ active = 1
  /\ chat = [t \in TabIds |-> <<>>] /\ streaming = [t \in TabIds |-> <<>>]
  /\ busy = [t \in TabIds |-> FALSE] /\ cancels = [t \in TabIds |-> None]
  /\ run = [r \in Runs |-> [st |-> "idle", tab |-> None, sid |-> None, left |-> <<>>]]
  /\ out = [r \in Runs |-> <<>>] /\ reader = None /\ ch = <<>>
  /\ waiters = 0 /\ taken = {} /\ asked = {} /\ up = TRUE /\ moves = 0 /\ crowded = FALSE

Stream == \/ HandOver \/ \E r \in Runs : \/ Request(r) \/ RequestFails(r) \/ ReadEvent(r) \/ ReadResponse(r)
                                         \/ ForwardEvent(r) \/ ForwardResponse(r) \/ Return(r)
Update == \E m \in taken : \/ TextDelta(m) \/ ToolCall(m) \/ ToolResult(m) \/ NestedTool(m) \/ RunError(m)
                           \/ Done(m) \/ SessionID(m) \/ Error(m)
Key == \/ Send \/ Clear \/ AskFails \/ Cancel \/ Switch \/ CloseTab
       \/ (\E t \in NewTabs : NewTab(t)) \/ (\E s \in Sessions : OpenSession(s))

Next == Stream \/ Take \/ Update \/ (\E a \in asked : CancelArrives(a)) \/ Key \/ Disconnect

Spec == Init /\ [][Next]_vars

-----------------------------------------------------------------------------
(* The questions and answers a tab shows are of the turns sent from it, and  *)
(* no piece of a text is shown twice, although all tabs share one channel    *)
(* and the user switches, closes and opens tabs meanwhile (handleStreamEvent,*)
(* app.go:1305).  The line that says a turn failed is NOT covered: it is     *)
(* shown in the tab that happens to be in front (errorMsg, app.go:499).      *)
AtHome ==
  \A t \in TabIds : \A i \in DOMAIN chat[t] :
    /\ chat[t][i].kind # "error" /\ chat[t][i].of # None => run[chat[t][i].of].tab = t
    /\ \A k \in DOMAIN chat[t][i].text : run[chat[t][i].text[k].of].tab = t
    /\ IsInjective(chat[t][i].text)

(* A spinner, or a context ctrl+x would cancel, belongs to a turn of that    *)
(* tab whose end Update has not seen (the streamDoneMsg case, app.go:413).   *)
Seen(r) == /\ run[r].st = "returned"
           /\ \A m \in taken \cup {ch[i] : i \in DOMAIN ch} : ~(m.kind = "done" /\ m.of = r)
BusyMeansWork ==
  \A t \in TabIds :
    /\ busy[t] => \E r \in Open : run[r].tab = t /\ ~Seen(r)
    /\ cancels[t] # None => run[cancels[t]].tab = t /\ ~Seen(cancels[t])

(* As long as no two waiters hold a message at once, the pieces of a turn's  *)
(* text are shown in the order they were sent (the reader, runStream,        *)
(* streamCh and Update keep it; losing some is allowed: the reader may).     *)
InOrder(text) == \A i, j \in DOMAIN text : i < j /\ text[i].of = text[j].of => text[i].n < text[j].n
OrderedAlone == ~crowded => \A t \in TabIds : InOrder(streaming[t])

(* The session a tab goes on with, and the one its ctrl+x cancels, is the    *)
(* one it was opened on or one made for a turn sent from it (app.go:422).    *)
OwnSession(t, s) == t = s \/ \E r \in Open : run[r].tab = t /\ run[r].sid = s
SessionsAtHome ==
  /\ \A i \in DOMAIN tabs : tabs[i].sid # None => OwnSession(tabs[i].id, tabs[i].sid)
  /\ \A a \in asked : OwnSession(a.tab, a.sid)

(* All three: an answer, its order and its session stay with the tab it    *)
(* was asked in, although the tabs share one channel (app.go:1408, :422);  *)
(* an error line need not.                                                 *)
AnswersAtHome == AtHome /\ OrderedAlone /\ SessionsAtHome
=============================================================================
