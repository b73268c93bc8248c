------------------------ MODULE TerminalPromptProofs ------------------------
(***************************************************************************)
(* A theorem about TerminalPrompt, for any notifications, answers, events  *)
(* and sessions.                                                           *)
(***************************************************************************)
EXTENDS TerminalPrompt, TLAPS

(* While the prompt has the keys, the screen offers what stands under the  *)
(* cursor in the list as it is now.                                        *)
ScreenIsCurrent ==
  focus = "note" =>
    /\ ~(idx > Len(pending)) /\ pending[idx].id = nid
    /\ cursor <= Len(Actions[nid]) => shown = Offered(pending, idx, cursor)

(* Every View makes it so, whatever was handled before it. *)
LEMMA SeeShows == ASSUME NEW f, See(f) PROVE ScreenIsCurrent'
BY DEF See, ScreenIsCurrent, Offered

LEMMA UnseenStays ==
  ASSUME ScreenIsCurrent, UNCHANGED <<focus, shown, pending, idx, nid, cursor>>
  PROVE  ScreenIsCurrent'
BY DEF ScreenIsCurrent, Offered

LEMMA ScreenStaysCurrent == ScreenIsCurrent /\ [Next]_vars => ScreenIsCurrent'
<1> SUFFICES ASSUME ScreenIsCurrent, [Next]_vars PROVE ScreenIsCurrent'
  OBVIOUS
<1>1. CASE World \/ Goroutine \/ Pause \/ UNCHANGED vars
  <2>1. UNCHANGED <<focus, shown, pending, idx, nid, cursor>>
    BY <1>1 DEF World, Raise, Broadcast, AnswerElsewhere, Goroutine, Listen, Fetch, ActReturns,
                Pause, notice, vars
  <2> QED
    BY <2>1, UnseenStays
<1>2. CASE Message
  <2>1. \E f : See(f)
    BY <1>2 DEF Message, ApprovalEvent, ApprovalRequestMsg, NotificationList, Debounce,
                NotifResolved, SessionPicker
  <2> QED
    BY <2>1, SeeShows
<1>3. CASE Keys
  <2>1. \E f : See(f)
    BY <1>3 DEF Keys, OtherKey, Escape, Cycle, Arrow, Confirm, PickerArrow, PickerEnter,
                OpenNotification, FocusSwap, AskSessions, ActByName
  <2> QED
    BY <2>1, SeeShows
<1> QED
  BY <1>1, <1>2, <1>3 DEF Next

(* Whatever lists arrive while the prompt is open, enter sends the answer  *)
(* that the screen offers to the request it is shown for (app.go:1058).    *)
THEOREM EnterSendsWhatIsShown == Spec => ActsOnShown
<1>1. Init => ScreenIsCurrent
  BY DEF Init, ScreenIsCurrent
<1>2. ScreenIsCurrent /\ [Next]_vars => [Confirm => acting' = acting \cup {shown}]_vars
  BY DEF ScreenIsCurrent, Confirm, Key
<1> QED
  BY <1>1, <1>2, ScreenStaysCurrent, PTL DEF Spec, ActsOnShown
=============================================================================
