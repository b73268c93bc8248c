--------------------------- MODULE TerminalPrompt ---------------------------
(***************************************************************************)
(* The part of the terminal that takes the place of the editor             *)
(* (src/internal/ui/app.go): the prompt of a notification, which a pause   *)
(* of the user opens by itself, and the session picker; with the list of   *)
(* notifications behind it, fetched by goroutines of their own whenever    *)
(* the gateway says that an approval is asked for.                         *)
(*                                                                         *)
(* Every action that handles a key or a message is one call of Update and  *)
(* the View that follows it: View, too, changes the focus (See).           *)
(*                                                                         *)
(* Bounds: Notes may each be raised once; EventCap events wait in the      *)
(* client (64).                                                            *)
(***************************************************************************)
EXTENDS Naturals, Sequences, FiniteSets, SequencesExt

CONSTANTS
  Notes,      \* the notifications that may be raised
  Approvals,  \* those that ask for an approval: the gateway also sends an event
  Reminders,  \* those whose action the gateway may refuse
  Actions,    \* Actions[n]: the answers a notification offers, in the order shown
  Sessions,   \* the sessions the gateway lists
  Hidden,     \* those of kind "main" or archived
  EventCap,
  MaxActs,    \* answers given here, and askings for the sessions, in all
  None

ASSUME PromptAssumption ==
  /\ Approvals \subseteq Notes /\ Reminders \subseteq Notes /\ Hidden \subseteq Sessions
  /\ EventCap \in Nat \ {0}
  /\ \A n \in Notes : Actions[n] # <<>>      \* ActionsForSource is never empty and Add uses it

VARIABLES
  log,       \* the gateway's notifications, oldest first
  closed,    \* those resolved
  told,      \* approvals whose event was sent
  events,    \* events waiting in the client
  listeners, \* goroutines blocked in listenEvents
  fetches,   \* goroutines about to ask for the list
  inbox,     \* messages on their way to Update
  ticks,     \* debounce timers running
  acting,    \* calls of notification.act on their way
  pending, idx, nid, cursor,   \* pendingNotifs, activeNotifIdx, activeNotifID, notifActionCursor
  focus, lit,                  \* focus; the text area has the cursor
  recent,    \* a key was pressed less than notifDebounce ago
  items, pick, \* the picker's sessions and cursor
  shown,     \* what the prompt on the screen offers to confirm with enter
  acts       \* how many of the bounded keys were pressed
vars == <<log, closed, told, events, listeners, fetches, inbox, ticks, acting, pending, idx, nid, cursor,
          focus, lit, recent, items, pick, shown, acts>>
gateway == <<log, closed, told, events>>
flying  == <<listeners, fetches, inbox, ticks, acting>>
notice  == <<pending, idx, nid, cursor>>
picker  == <<items, pick>>
Act == acts < MaxActs /\ acts' = acts + 1

Nothing == [id |-> None, action |-> None]
Offered(list, i, c) == [id |-> list[i].id, action |-> Actions[list[i].id][c]]
Unresolved(list) == {i \in DOMAIN list : ~list[i].resolved}
FirstOf(S) == CHOOSE i \in S : \A j \in S : i <= j

-----------------------------------------------------------------------------
(* View: the prompt is drawn only for the notification it was opened on; if  *)
(* the list has changed under it the focus goes back, without the cursor.    *)

(* Mutant: the prompt is drawn for whatever is at its place in the list. *)
SeeByPlace(f) ==
  /\ focus' = IF f = "note" /\ idx' > Len(pending') THEN "editor" ELSE f
  /\ shown' = IF focus' = "note" THEN [id |-> nid', action |-> Actions[nid'][IF cursor' > Len(Actions[nid']) THEN 1 ELSE cursor']] ELSE Nothing

See(f) ==
  /\ focus' = IF f = "note" /\ (idx' > Len(pending') \/ pending'[idx'].id # nid') THEN "editor" ELSE f
  /\ shown' = IF focus' = "note" /\ cursor' <= Len(Actions[nid']) THEN Offered(pending', idx', cursor') ELSE Nothing

OpenAt(i) == idx' = i /\ nid' = pending[i].id /\ cursor' = 1 /\ lit' = FALSE /\ UNCHANGED pending

-----------------------------------------------------------------------------
(* The gateway: a notification is added; for an approval the event follows.  *)

Raise(n) ==
  /\ n \notin ToSet(log)
  /\ log' = Append(log, n)
  /\ UNCHANGED <<closed, told, events, focus, lit, recent, shown, acts>> /\ UNCHANGED <<flying, notice, picker>>

Broadcast(n) ==
  /\ n \in (ToSet(log) \cap Approvals) \ told
  /\ told' = told \cup {n}
  /\ events' = IF Len(events) < EventCap THEN Append(events, n) ELSE events
  /\ UNCHANGED <<log, closed, focus, lit, recent, shown, acts>> /\ UNCHANGED <<flying, notice, picker>>

AnswerElsewhere(n) ==
  /\ n \in ToSet(log) \ closed
  /\ closed' = closed \cup {n}
  /\ UNCHANGED <<log, told, events, focus, lit, recent, shown, acts>> /\ UNCHANGED <<flying, notice, picker>>

(* The call ends; whether the gateway took the action or refused it, the     *)
(* terminal is told that the notification is resolved.                       *)
ActReturns(a) ==
  /\ a \in acting
  /\ acting' = acting \ {a}
  /\ \/ closed' = closed \cup {a.id}
     \/ a.id \in Reminders /\ UNCHANGED closed
  /\ inbox' = inbox \cup {[kind |-> "resolved", id |-> a.id]}
  /\ UNCHANGED <<log, told, events, listeners, fetches, ticks, focus, lit, recent, shown, acts>> /\ UNCHANGED <<notice, picker>>

-----------------------------------------------------------------------------
(* Goroutines between the client and Update.                                 *)

Listen ==
  /\ listeners > 0 /\ events # <<>>
  /\ inbox' = inbox \cup {[kind |-> "event", id |-> Head(events)]}
  /\ events' = Tail(events) /\ listeners' = listeners - 1
  /\ UNCHANGED <<log, closed, told, fetches, ticks, acting, focus, lit, recent, shown, acts>> /\ UNCHANGED <<notice, picker>>

(* fetchNotifications: newest first; an empty list makes no message.         *)
Fetch ==
  /\ fetches > 0 /\ fetches' = fetches - 1
  /\ LET list == SelectSeq(Reverse(log), LAMBDA n : n \notin closed)
     IN inbox' = IF list = <<>> THEN inbox ELSE inbox \cup {[kind |-> "list", notes |-> list]}
  /\ UNCHANGED <<gateway, listeners, ticks, acting, focus, lit, recent, shown, acts>> /\ UNCHANGED <<notice, picker>>

Pause ==
  /\ recent /\ recent' = FALSE
  /\ UNCHANGED <<gateway, focus, lit, shown, acts>> /\ UNCHANGED <<flying, notice, picker>>

-----------------------------------------------------------------------------
(* Update: the messages.                                                     *)

Got(k) == {m \in inbox : m.kind = k}
Handled(m) == inbox' = inbox \ {m}
Quiet == UNCHANGED <<recent, acts>> /\ UNCHANGED gateway

(* Mutant: the listener is not started again after an approval event. *)
ApprovalEventOnce ==
  \E m \in Got("event") :
    /\ inbox' = (inbox \ {m}) \cup {[kind |-> "ask", id |-> m.id]}
    /\ UNCHANGED <<fetches, ticks, acting, notice, lit, picker, listeners>> /\ See(focus) /\ Quiet

(* handleGatewayEvent: the event becomes an ApprovalRequestMsg, and the next *)
(* one is listened for.                                                      *)
ApprovalEvent ==
  \E m \in Got("event") :
    /\ inbox' = (inbox \ {m}) \cup {[kind |-> "ask", id |-> m.id]} /\ listeners' = listeners + 1
    /\ UNCHANGED <<fetches, ticks, acting, notice, lit, picker>> /\ See(focus) /\ Quiet

ApprovalRequestMsg ==
  \E m \in Got("ask") :
    /\ Handled(m) /\ fetches' = fetches + 1
    /\ UNCHANGED <<listeners, ticks, acting, notice, lit, picker>> /\ See(focus) /\ Quiet

NotificationList ==
  \E m \in Got("list") :
    /\ Handled(m)
    /\ pending' = [i \in DOMAIN m.notes |-> [id |-> m.notes[i], resolved |-> FALSE]]
    /\ ticks' = ticks + 1
    /\ UNCHANGED <<listeners, fetches, acting, idx, nid, cursor, lit, picker>> /\ See(focus) /\ Quiet

(* The timer: the first unresolved notification opens by itself, unless the  *)
(* user is typing or is not in the editor.                                   *)
Debounce ==
  /\ ticks > 0 /\ ticks' = ticks - 1
  /\ IF focus = "editor" /\ ~recent /\ Unresolved(pending) # {}
     THEN OpenAt(FirstOf(Unresolved(pending))) /\ See("note")
     ELSE UNCHANGED <<notice, lit>> /\ See(focus)
  /\ UNCHANGED <<listeners, fetches, inbox, acting, picker>> /\ Quiet

NotifResolved ==
  \E m \in Got("resolved") :
    /\ Handled(m)
    /\ LET i == SelectInSeq(pending, LAMBDA n : n.id = m.id)
       IN pending' = IF i = 0 THEN pending ELSE [pending EXCEPT ![i].resolved = TRUE]
    /\ lit' = (lit \/ focus = "note")
    /\ UNCHANGED <<listeners, fetches, ticks, acting, idx, nid, cursor, picker>>
    /\ See(IF focus = "note" THEN "editor" ELSE focus) /\ Quiet

SessionPicker ==
  \E m \in Got("sessions") :
    /\ Handled(m)
    /\ items' = SelectSeq(m.list, LAMBDA s : s \notin Hidden) /\ pick' = 0 /\ lit' = FALSE
    /\ UNCHANGED <<listeners, fetches, ticks, acting, notice>> /\ See("picker") /\ Quiet

-----------------------------------------------------------------------------
(* Update: the keys, by the focus they find.                                 *)

Key(f) == focus = f /\ recent' = TRUE /\ UNCHANGED gateway /\ UNCHANGED <<listeners, fetches, ticks>>

(* A key that is typed into the editor or that the prompt or picker swallows.*)
OtherKey ==
  /\ ~recent /\ Key(focus)
  /\ UNCHANGED <<inbox, acting, notice, lit, picker, acts>> /\ See(focus)

Escape ==
  /\ focus \in {"note", "picker"} /\ Key(focus)
  /\ lit' = TRUE /\ UNCHANGED <<inbox, acting, notice, picker, acts>> /\ See("editor")

(* ctrl+j in the prompt: the next unresolved notification, or back.          *)
Cycle ==
  /\ Key("note")
  /\ LET later == {i \in Unresolved(pending) : i > idx}
         found == IF later # {} THEN later ELSE Unresolved(pending)
     IN /\ cursor' = 1 /\ UNCHANGED pending
        /\ IF found # {}
           THEN idx' = FirstOf(found) /\ nid' = pending[FirstOf(found)].id /\ UNCHANGED lit /\ See("note")
           ELSE UNCHANGED <<idx, nid>> /\ lit' = TRUE /\ See("editor")
  /\ UNCHANGED <<inbox, acting, picker, acts>>

Arrow ==
  /\ Key("note")
  /\ LET n == Len(Actions[pending[idx].id])
     IN \/ cursor' = IF cursor > 1 THEN cursor - 1 ELSE n
        \/ cursor' = IF cursor < n THEN cursor + 1 ELSE 1
  /\ UNCHANGED <<inbox, acting, pending, idx, nid, lit, picker, acts>> /\ See("note")

Confirm ==
  /\ Key("note") /\ Act /\ cursor <= Len(Actions[pending[idx].id])
  /\ acting' = acting \cup {Offered(pending, idx, cursor)}
  /\ lit' = TRUE /\ UNCHANGED <<inbox, notice, picker>> /\ See("editor")

PickerArrow ==
  /\ Key("picker")
  /\ \/ pick' = IF pick > 0 THEN pick - 1 ELSE Len(items)
     \/ pick' = IF pick < Len(items) THEN pick + 1 ELSE 0
  /\ UNCHANGED <<inbox, acting, notice, lit, items, acts>> /\ See("picker")

(* enter opens a tab (Terminal's NewTab and OpenSession).                    *)
PickerEnter ==
  /\ Key("picker")
  /\ lit' = TRUE /\ UNCHANGED <<inbox, acting, notice, picker, acts>> /\ See("editor")

(* ctrl+j in the editor or the chat, and /notif with an ID from the editor.  *)
OpenNotification ==
  /\ focus \in {"editor", "chat"} /\ Key(focus)
  /\ \/ Unresolved(pending) # {} /\ OpenAt(FirstOf(Unresolved(pending)))
     \/ focus = "editor" /\ lit /\ \E i \in DOMAIN pending : OpenAt(i)
  /\ UNCHANGED <<inbox, acting, picker, acts>> /\ See("note")

(* /notif with an ID and an action.                                          *)
ActByName(n) ==
  /\ Key("editor") /\ Act /\ lit /\ n \in ToSet(log)
  /\ \E i \in DOMAIN Actions[n] : acting' = acting \cup {[id |-> n, action |-> Actions[n][i]]}
  /\ UNCHANGED <<inbox, notice, lit, picker>> /\ See(focus)

FocusSwap ==
  /\ focus \in {"editor", "chat"} /\ Key(focus)
  /\ lit' = (focus = "chat")
  /\ UNCHANGED <<inbox, acting, notice, picker, acts>> /\ See(IF focus = "editor" THEN "chat" ELSE "editor")

(* ctrl+t or /sessions: the sessions are asked for.                          *)
AskSessions ==
  /\ focus \in {"editor", "chat"} /\ Key(focus) /\ Act
  /\ inbox' = inbox \cup {[kind |-> "sessions", list |-> SetToSeq(Sessions)]}
  /\ UNCHANGED <<acting, notice, lit, picker>> /\ See(focus)

-----------------------------------------------------------------------------
Init ==
  /\ log = <<>> /\ closed = {} /\ told = {} /\ events = <<>>
  /\ listeners = 1 /\ fetches = 1 /\ inbox = {} /\ ticks = 0 /\ acting = {}
  /\ pending = <<>> /\ idx = 1 /\ nid = None /\ cursor = 1
  /\ focus = "editor" /\ lit = TRUE /\ recent = FALSE
  /\ items = <<>> /\ pick = 0 /\ shown = Nothing /\ acts = 0

World == \E n \in Notes : Raise(n) \/ Broadcast(n) \/ AnswerElsewhere(n)
Goroutine == Listen \/ Fetch \/ \E a \in acting : ActReturns(a)
Message == ApprovalEvent \/ ApprovalRequestMsg \/ NotificationList \/ Debounce \/ NotifResolved \/ SessionPicker
Keys == \/ OtherKey \/ Escape \/ Cycle \/ Arrow \/ Confirm \/ PickerArrow \/ PickerEnter
        \/ OpenNotification \/ FocusSwap \/ AskSessions \/ \E n \in Notes : ActByName(n)

Next == World \/ Goroutine \/ Pause \/ Message \/ Keys
Spec == Init /\ [][Next]_vars

(* Goroutines run, and every message reaches Update at last.                 *)
FairSpec == /\ Spec /\ WF_vars(Listen) /\ WF_vars(Fetch) /\ WF_vars(ApprovalEvent)
            /\ WF_vars(ApprovalRequestMsg) /\ WF_vars(NotificationList)

-----------------------------------------------------------------------------
(* What enter confirms is what the screen offered: although lists arrive     *)
(* while the prompt is open, move its notification or take it away, an       *)
(* answer never goes to another request or with another action than the ones *)
(* highlighted (handleKey's enter, app.go:1058, and renderNotificationPrompt)*)
ActsOnShown == [][Confirm => acting' = acting \cup {shown}]_vars

(* An approval whose event reached the client is listed, or was answered     *)
(* meanwhile: the terminal goes on listening after every event and fetches   *)
(* after every request (handleGatewayEvent, app.go:1853).                    *)
ApprovalsGetListed ==
  \A n \in Approvals : n \in ToSet(events) ~> (n \in closed \/ \E i \in DOMAIN pending : pending[i].id = n)
=============================================================================
