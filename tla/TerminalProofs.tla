--------------------------- MODULE TerminalProofs ---------------------------
(***************************************************************************)
(* Theorems about Terminal, for any number of tabs, turns, scripts and     *)
(* moves of the user, and any capacity of the channels.                    *)
(***************************************************************************)
EXTENDS Terminal, TLAPS, SequenceTheorems, WellFoundedInduction

LEMMA LeastExists ==
  ASSUME NEW S \in SUBSET Nat, S # {}
  PROVE  \E x \in S : \A y \in S : x <= y
<1>1. PICK x \in S : \A y \in S : ~(<<y, x>> \in OpToRel(<, Nat))
  BY NatLessThanWellFounded, WFMin
<1>2. \A y \in S : ~(y < x)
  BY <1>1 DEF OpToRel
<1> QED
  BY <1>2

(* SelectInSeq finds a place of the sequence where the test holds, or 0.   *)
LEMMA MinIsMember ==
  ASSUME NEW S \in SUBSET Nat, S # {}
  PROVE  Min(S) \in S
BY LeastExists DEF Min

-----------------------------------------------------------------------------
(* Typing.                                                                 *)

Kinds    == Events \cup {"ok", "fail", "sid", "oops", "done"}
Messages == [kind : Kinds, of : Runs, n : Nat]
States   == {"idle", "called", "sent", "answered", "returning", "returned"}
Sids     == Sessions \cup {None}
Items    == [kind : {"you", "live", "tool", "agent", "system", "error"}, of : Runs \cup {None},
             text : Seq(Messages), done : BOOLEAN]
RunStates == [st : States, tab : TabIds \cup {None}, sid : Sids, left : Seq(Messages)]

Tabs     == [id : TabIds, sid : Sids]

ScreenTypes ==
  /\ tabs \in Seq(Tabs)
  /\ active \in DOMAIN tabs
  /\ chat \in [TabIds -> Seq(Items)]
  /\ streaming \in [TabIds -> Seq(Messages)]
  /\ busy \in [TabIds -> BOOLEAN]
  /\ cancels \in [TabIds -> Runs \cup {None}]

WireTypes ==
  /\ run \in [Runs -> RunStates]
  /\ out \in [Runs -> Seq(Messages)]
  /\ reader \in Runs \cup {None}
  /\ reader # None => run[reader].left # <<>>
  /\ \A r \in Runs : run[r].st = "idle" => run[r].left = <<>>
  /\ ch \in Seq(Messages)
  /\ taken \subseteq Messages
  /\ asked \subseteq [tab : TabIds, sid : Sessions]

TypeOK == ScreenTypes /\ WireTypes

(* The run that Send starts is an idle one. *)
LEMMA NextIsIdle ==
  ASSUME Idle # {}
  PROVE  Next1 \in Idle
<1>1. Idle \in SUBSET Nat
  BY TurnsAssumption DEF Idle
<1> QED
  BY <1>1, LeastExists DEF Next1

LEMMA MemberOf ==
  ASSUME NEW S, NEW q \in Seq(S), NEW i \in DOMAIN q
  PROVE  q[i] \in S
OBVIOUS

LEMMA MappedSeq ==
  ASSUME NEW S, NEW n \in Nat, NEW f \in [1 .. n -> S]
  PROVE  f \in Seq(S)
OBVIOUS

LEMMA AppendTyped ==
  ASSUME NEW S, NEW q \in Seq(S), NEW v \in S
  PROVE  Append(q, v) \in Seq(S)
OBVIOUS

LEMMA ReplacedTyped ==
  ASSUME NEW S, NEW q \in Seq(S), NEW k, NEW v \in S
  PROVE  [q EXCEPT ![k] = v] \in Seq(S) /\ DOMAIN [q EXCEPT ![k] = v] = DOMAIN q
<1>1. q \in [1 .. Len(q) -> S] /\ Len(q) \in Nat /\ DOMAIN q = 1 .. Len(q)
  OBVIOUS
<1>2. [q EXCEPT ![k] = v] \in [1 .. Len(q) -> S]
  BY <1>1
<1> QED
  BY <1>1, <1>2, MappedSeq

LEMMA RemovedTyped ==
  ASSUME NEW S, NEW q \in Seq(S), NEW k \in DOMAIN q
  PROVE  /\ RemoveAt(q, k) \in Seq(S) /\ Len(RemoveAt(q, k)) = Len(q) - 1
         /\ \A i \in DOMAIN RemoveAt(q, k) : \E j \in DOMAIN q : RemoveAt(q, k)[i] = q[j]
<1>1. k \in 1 .. Len(q) /\ Len(q) \in Nat /\ DOMAIN q = 1 .. Len(q)
  OBVIOUS
<1> DEFINE a == SubSeq(q, 1, k - 1)
           b == SubSeq(q, k + 1, Len(q))
<1>2. /\ a \in Seq(S) /\ Len(a) = k - 1 /\ \A i \in 1 .. k - 1 : a[i] = q[i]
      /\ b \in Seq(S) /\ Len(b) = Len(q) - k /\ \A i \in 1 .. Len(q) - k : b[i] = q[k + i]
  <2>1. k \in Int /\ k - 1 \in Int /\ k + 1 \in Int /\ Len(q) \in Int /\ 1 \in Int
    BY <1>1
  <2>2. (\A i \in 1 .. k - 1 : q[i] \in S) /\ \A i \in k + 1 .. Len(q) : q[i] \in S
    BY <1>1
  <2>3. a \in Seq(S) /\ Len(a) = (IF 1 <= k - 1 THEN k - 1 - 1 + 1 ELSE 0)
        /\ \A i \in 1 .. k - 1 - 1 + 1 : a[i] = q[1 + i - 1]
    BY <2>1, <2>2, SubSeqProperties
  <2>4. b \in Seq(S) /\ Len(b) = (IF k + 1 <= Len(q) THEN Len(q) - (k + 1) + 1 ELSE 0)
        /\ \A i \in 1 .. Len(q) - (k + 1) + 1 : b[i] = q[k + 1 + i - 1]
    BY <2>1, <2>2, SubSeqProperties
  <2> HIDE DEF a, b
  <2>5. Len(a) = k - 1 /\ Len(b) = Len(q) - k
    BY <1>1, <2>3, <2>4
  <2>6. ASSUME NEW i \in 1 .. k - 1 PROVE a[i] = q[i]
    <3>1. i \in 1 .. k - 1 - 1 + 1 /\ 1 + i - 1 = i
      BY <1>1
    <3> QED
      BY <2>3, <3>1
  <2>7. ASSUME NEW i \in 1 .. Len(q) - k PROVE b[i] = q[k + i]
    <3>1. i \in 1 .. Len(q) - (k + 1) + 1 /\ k + 1 + i - 1 = k + i
      BY <1>1
    <3> QED
      BY <2>4, <3>1
  <2> QED
    BY <2>3, <2>4, <2>5, <2>6, <2>7
<1>3. RemoveAt(q, k) = a \o b
  BY DEF RemoveAt
<1> HIDE DEF a, b
<1>4. /\ a \o b \in Seq(S) /\ Len(a \o b) = Len(a) + Len(b)
      /\ \A i \in 1 .. Len(a) + Len(b) : (a \o b)[i] = IF i <= Len(a) THEN a[i] ELSE b[i - Len(a)]
  BY <1>2, ConcatProperties
<1>5. ASSUME NEW i \in 1 .. Len(a) + Len(b) PROVE \E j \in DOMAIN q : (a \o b)[i] = q[j]
  <2>1. CASE i <= Len(a)
    <3>1. (a \o b)[i] = q[i] /\ i \in DOMAIN q
      BY <1>1, <1>2, <1>4, <2>1
    <3> QED
      BY <3>1
  <2>2. CASE i > Len(a)
    <3>0. Len(a) = k - 1 /\ Len(b) = Len(q) - k
      BY <1>2
    <3>1. /\ i \in Int /\ ~(i <= Len(a))
          /\ i - Len(a) \in 1 .. Len(q) - k
      BY <1>1, <2>2, <3>0
    <3>3. (a \o b)[i] = b[i - Len(a)]
      BY ONLY <1>4, <3>1, i \in 1 .. Len(a) + Len(b)
    <3>2. b[i - Len(a)] = q[k + (i - Len(a))] /\ k + (i - Len(a)) \in DOMAIN q
      BY <1>1, <1>2, <3>1
    <3> QED
      BY <3>2, <3>3
  <2> QED
    BY <1>1, <1>2, <2>1, <2>2
<1>6. DOMAIN (a \o b) = 1 .. Len(a) + Len(b)
  BY <1>4
<1>7. Len(a) + Len(b) = Len(q) - 1
  BY <1>1, <1>2
<1> QED
  BY <1>3, <1>4, <1>5, <1>6, <1>7

LEMMA HereIsTab == ASSUME ScreenTypes PROVE tabs[active] \in Tabs /\ Here \in TabIds
<1>1. tabs[active] \in Tabs
  BY MemberOf DEF ScreenTypes
<1> QED
  BY <1>1 DEF Tabs, Here

LEMMA RunChanges ==
  ASSUME NEW x \in RunStates, NEW st \in States, NEW left \in Seq(Messages), NEW sid \in Sids
  PROVE  /\ [x EXCEPT !.left = left] \in RunStates
         /\ [x EXCEPT !.st = st] \in RunStates
         /\ [x EXCEPT !.left = left, !.st = st] \in RunStates
         /\ [x EXCEPT !.st = st, !.left = left, !.sid = sid] \in RunStates
BY DEF RunStates

LEMMA RunUpdate ==
  ASSUME NEW f \in [Runs -> RunStates], NEW r \in Runs, NEW st \in States, NEW left \in Seq(Messages)
  PROVE  /\ [f EXCEPT ![r].left = left] \in [Runs -> RunStates]
         /\ [f EXCEPT ![r].st = st] \in [Runs -> RunStates]
         /\ [f EXCEPT ![r].left = left, ![r].st = st] \in [Runs -> RunStates]
<1>0. f[r] \in RunStates
  OBVIOUS
<1>1. \A v \in RunStates : /\ [v EXCEPT !.left = left] \in RunStates
                            /\ [v EXCEPT !.st = st] \in RunStates
                            /\ [v EXCEPT !.left = left, !.st = st] \in RunStates
  BY DEF RunStates
<1>2. PICK x \in RunStates, y \in RunStates, z \in RunStates :
        x = [f[r] EXCEPT !.left = left] /\ y = [f[r] EXCEPT !.st = st]
          /\ z = [f[r] EXCEPT !.left = left, !.st = st]
  BY <1>0, <1>1
<1>4. /\ [f EXCEPT ![r].left = left] = [f EXCEPT ![r] = x]
      /\ [f EXCEPT ![r].st = st] = [f EXCEPT ![r] = y]
      /\ [f EXCEPT ![r].left = left, ![r].st = st] = [f EXCEPT ![r] = z]
  BY <1>2
<1> QED
  BY <1>4

LEMMA MainIsTab == Main \in TabIds /\ Sessions \subseteq TabIds /\ NewTabs \subseteq TabIds /\ None \notin TabIds
BY TurnsAssumption DEF TabIds

LEMMA InitTypes == Init => TypeOK
<1> SUFFICES ASSUME Init PROVE TypeOK
  OBVIOUS
<1>1. [st |-> "idle", tab |-> None, sid |-> None, left |-> <<>>] \in RunStates
  BY DEF RunStates, States, Sids
<1>2. tabs \in Seq(Tabs) /\ active \in DOMAIN tabs
  BY MainIsTab DEF Init, Tabs, Sids
<1> QED
  BY <1>1, <1>2, MainIsTab DEF Init, TypeOK, ScreenTypes, WireTypes, Sids

(* The client, runStream and streamCh. *)
LEMMA StreamTypes == TypeOK /\ Stream => TypeOK'
<1> SUFFICES ASSUME TypeOK, Stream PROVE TypeOK'
  OBVIOUS
<1> USE DEF TypeOK, WireTypes
<1>1. ScreenTypes'
  BY DEF Stream, HandOver, Request, RequestFails, ReadEvent, ReadResponse, ForwardEvent,
         ForwardResponse, Return, screen, ScreenTypes
<1>2. ASSUME NEW r \in Runs, run[r].left # <<>>
      PROVE  /\ Head(run[r].left) \in Messages /\ Tail(run[r].left) \in Seq(Messages)
             /\ Append(out[r], Head(run[r].left)) \in Seq(Messages)
  BY <1>2 DEF RunStates
<1>3. ASSUME NEW r \in Runs, NEW kind \in {"sid", "oops", "done"}
      PROVE  Append(ch, [kind |-> kind, of |-> r, n |-> 0]) \in Seq(Messages)
  BY DEF Messages, Kinds
<1>4. ASSUME NEW r \in Runs, NEW st \in States, NEW left \in Seq(Messages)
      PROVE  [run EXCEPT ![r].left = left, ![r].st = st] \in [Runs -> RunStates]
  BY RunUpdate, <1>4
<1>5. <<>> \in Seq(Messages) /\ "returning" \in States /\ "returned" \in States /\ "answered" \in States
  BY DEF States
<1>6. CASE HandOver
  <2>1. reader \in Runs /\ run[reader].left # <<>>
    BY <1>6 DEF HandOver
  <2>2. run' = [run EXCEPT ![reader].left = <<>>, ![reader].st = "answered"]
    BY <1>6 DEF HandOver
  <2>3. run' \in [Runs -> RunStates]
    BY ONLY <1>4, <1>5, <2>1, <2>2
  <2>4. \A q \in Runs : run'[q].st = "idle" => run'[q].left = <<>>
    BY <2>2
  <2> QED
    BY <1>1, <1>2, <1>6, <2>1, <2>3, <2>4 DEF HandOver
<1>7. ASSUME NEW r \in Runs, Request(r) PROVE TypeOK'
  <2>1. PICK s \in Scripts[r] :
          run' = [run EXCEPT ![r].st = "sent",
                             ![r].left = [i \in DOMAIN s |-> [kind |-> s[i], of |-> r, n |-> i]],
                             ![r].sid = IF @ = None THEN Fresh[r] ELSE @]
    BY <1>7 DEF Request
  <2> DEFINE left == [i \in DOMAIN s |-> [kind |-> s[i], of |-> r, n |-> i]]
             sid  == IF run[r].sid = None THEN Fresh[r] ELSE run[r].sid
  <2>2. s \in Seq(Events \cup {"ok", "fail"})
    BY TurnsAssumption
  <2>3. left \in Seq(Messages)
    <3>1. \A i \in 1 .. Len(s) : [kind |-> s[i], of |-> r, n |-> i] \in Messages
      BY <2>2 DEF Messages, Kinds
    <3>2. left \in [1 .. Len(s) -> Messages] /\ Len(s) \in Nat
      BY <2>2, <3>1
    <3> HIDE DEF left
    <3> QED
      BY <3>2, MappedSeq
  <2>4. sid \in Sids
    BY DEF RunStates, Sids, Sessions
  <2>5. [run[r] EXCEPT !.st = "sent", !.left = left, !.sid = sid] \in RunStates
    <3> HIDE DEF left, sid
    <3> QED
      BY <2>3, <2>4, RunChanges DEF States
  <2>6. run' = [run EXCEPT ![r] = [run[r] EXCEPT !.st = "sent", !.left = left, !.sid = sid]]
    BY <2>1
  <2>7. run' \in [Runs -> RunStates]
    <3> HIDE DEF left, sid
    <3> QED
      BY <2>5, <2>6
  <2>8. UNCHANGED <<out, reader, ch, taken, asked>> /\ reader = None
    BY <1>7 DEF Request
  <2>9. \A q \in Runs : run'[q].st = "idle" => run'[q].left = <<>>
    <3>1. run'[r].st = "sent"
      <4> HIDE DEF left, sid
      <4>1. run[r] \in RunStates
        OBVIOUS
      <4> QED
        BY <2>6, <4>1 DEF RunStates
    <3>2. \A q \in Runs : q = r \/ run'[q] = run[q]
      <4> HIDE DEF left, sid
      <4> QED
        BY <2>6
    <3> QED
      BY <3>1, <3>2
  <2> QED
    BY <1>1, <2>7, <2>8, <2>9
<1>8. ASSUME NEW r \in Runs, RequestFails(r) PROVE TypeOK'
  <2>1. run' \in [Runs -> RunStates] /\ ch' \in Seq(Messages) /\ reader' = None
    BY <1>3, <1>5, <1>8, RunUpdate DEF RequestFails, Put
  <2> QED
    BY <1>1, <1>8, <2>1 DEF RequestFails
<1>9. ASSUME NEW r \in Runs, ReadEvent(r) PROVE TypeOK'
  <2>1. run[r].left # <<>> /\ run[r].left \in Seq(Messages)
    BY <1>9 DEF ReadEvent, RunStates
  <2>2. run' \in [Runs -> RunStates]
    <3>1. PICK left \in Seq(Messages) : left = Tail(run[r].left)
      BY <1>2, <2>1
    <3>2. run' = [run EXCEPT ![r].left = left]
      BY <1>9, <3>1 DEF ReadEvent
    <3> QED
      BY <1>5, <3>2, RunUpdate
  <2>3. out' \in [Runs -> Seq(Messages)]
    BY <1>2, <1>9, <2>1 DEF ReadEvent
  <2> QED
    BY <1>1, <1>9, <2>2, <2>3 DEF ReadEvent
<1>10. ASSUME NEW r \in Runs, ReadResponse(r) PROVE TypeOK'
  <2>1. run[r].left # <<>> /\ run[r].left \in Seq(Messages)
    BY <1>10 DEF ReadResponse, RunStates
  <2>2. CASE Free(r)
    <3>0. run' = [run EXCEPT ![r].left = <<>>, ![r].st = "answered"]
      BY <1>10, <2>2 DEF ReadResponse
    <3>1. run' \in [Runs -> RunStates]
      BY ONLY <1>4, <1>5, <3>0
    <3>2. out' \in [Runs -> Seq(Messages)] /\ reader' = None
      BY <1>2, <1>10, <2>1, <2>2 DEF ReadResponse
    <3>3. \A q \in Runs : run'[q].st = "idle" => run'[q].left = <<>>
      BY <3>0
    <3> QED
      BY <1>1, <1>10, <3>1, <3>2, <3>3 DEF ReadResponse
  <2>3. CASE ~Free(r)
    BY <1>1, <1>10, <2>1, <2>3 DEF ReadResponse
  <2> QED
    BY <2>2, <2>3
<1>11. ASSUME NEW r \in Runs, ForwardEvent(r) PROVE TypeOK'
  <2>1. Head(out[r]) \in Messages /\ Tail(out[r]) \in Seq(Messages)
    BY <1>11 DEF ForwardEvent
  <2> QED
    BY <1>1, <1>11, <2>1 DEF ForwardEvent
<1>12. ASSUME NEW r \in Runs, ForwardResponse(r) PROVE TypeOK'
  <2>1. Tail(out[r]) \in Seq(Messages)
    BY <1>12 DEF ForwardResponse
  <2>2. out' \in [Runs -> Seq(Messages)] /\ ch' \in Seq(Messages) /\ run' \in [Runs -> RunStates]
    BY <1>3, <1>5, <1>12, <2>1, RunUpdate DEF ForwardResponse, Put
  <2>3. \A q \in Runs : run'[q].left = run[q].left
    BY <1>12 DEF ForwardResponse
  <2> QED
    BY <1>1, <1>12, <2>2, <2>3 DEF ForwardResponse
<1>13. ASSUME NEW r \in Runs, Return(r) PROVE TypeOK'
  <2>1. run' \in [Runs -> RunStates] /\ ch' \in Seq(Messages)
    BY <1>3, <1>5, <1>13, RunUpdate DEF Return, Put
  <2>2. \A q \in Runs : run'[q].left = run[q].left
    BY <1>13 DEF Return
  <2> QED
    BY <1>1, <1>13, <2>1, <2>2 DEF Return
<1> QED
  BY <1>6, <1>7, <1>8, <1>9, <1>10, <1>11, <1>12, <1>13 DEF Stream

(* What Update does to a message list. *)
LEMMA ListTypes ==
  ASSUME NEW cl \in Seq(Items), NEW text \in Seq(Messages), NEW m \in Messages
  PROVE  /\ \A kind \in {"you", "live", "tool", "agent", "system", "error"}, r \in Runs \cup {None} :
              Append(cl, item(kind, r, text)) \in Seq(Items)
         /\ \A k : [cl EXCEPT ![k].text = text] \in Seq(Items)
         /\ WithLive(cl, text) \in Seq(Items)
         /\ \A kind, r : Close(cl, kind, r) \in Seq(Items)
         /\ Nest(cl, m) \in Seq(Items)
<1>1. ASSUME NEW kind \in {"you", "live", "tool", "agent", "system", "error"}, NEW r \in Runs \cup {None}
      PROVE  Append(cl, item(kind, r, text)) \in Seq(Items)
  BY DEF item, Items
<1>2. ASSUME NEW k PROVE [cl EXCEPT ![k].text = text] \in Seq(Items)
  <2>1. CASE k \in DOMAIN cl
    <3>1. cl[k] \in Items
      BY <2>1, MemberOf
    <3>2. \A v \in Items : [v EXCEPT !.text = text] \in Items
      BY DEF Items
    <3>3. PICK v \in Items : v = [cl[k] EXCEPT !.text = text]
      BY <3>1, <3>2
    <3>4. [cl EXCEPT ![k].text = text] = [cl EXCEPT ![k] = v]
      BY <3>3
    <3> QED
      BY <3>4, ReplacedTyped
  <2>2. CASE k \notin DOMAIN cl
    <3>1. [cl EXCEPT ![k].text = text] = cl
      BY <2>2
    <3> QED
      BY <3>1
  <2> QED
    BY <2>1, <2>2
<1>3. WithLive(cl, text) \in Seq(Items)
  BY <1>1, <1>2 DEF WithLive
<1>4. \A i \in DOMAIN cl : cl[i] \in Items
  BY MemberOf
<1>5. ASSUME NEW kind, NEW r PROVE Close(cl, kind, r) \in Seq(Items)
  <2>1. \A v \in Items : [v EXCEPT !.done = TRUE] \in Items
    BY DEF Items
  <2>2. Close(cl, kind, r) \in [1 .. Len(cl) -> Items] /\ Len(cl) \in Nat
    BY <1>4, <2>1 DEF Close
  <2> QED
    BY <2>2, MappedSeq
<1>6. Nest(cl, m) \in Seq(Items)
  <2>1. ASSUME NEW v \in Items PROVE [v EXCEPT !.text = Append(@, m)] \in Items
    <3>1. PICK tx \in Seq(Messages) : tx = Append(v.text, m)
      BY AppendTyped DEF Items
    <3>2. [v EXCEPT !.text = tx] \in Items
      BY DEF Items
    <3> QED
      BY <3>1, <3>2
  <2>2. Nest(cl, m) \in [1 .. Len(cl) -> Items] /\ Len(cl) \in Nat
    BY <1>4, <2>1 DEF Nest
  <2> QED
    BY ONLY <2>2, MappedSeq
<1> QED
  BY <1>1, <1>2, <1>3, <1>5, <1>6

(* A step of Update that shows something in the list of tab t. *)
LEMMA ListUpdate ==
  ASSUME ScreenTypes, NEW t, NEW cl \in Seq(Items), chat' = [chat EXCEPT ![t] = cl]
  PROVE  chat' \in [TabIds -> Seq(Items)]
BY DEF ScreenTypes

LEMMA UpdateTypes == TypeOK /\ Update => TypeOK'
<1> SUFFICES ASSUME TypeOK, NEW m \in taken,
                    \/ TextDelta(m) \/ ToolCall(m) \/ ToolResult(m) \/ NestedTool(m) \/ RunError(m)
                    \/ Done(m) \/ SessionID(m) \/ Error(m)
             PROVE  TypeOK'
  BY DEF Update
<1>1. m \in Messages /\ taken \ {m} \subseteq Messages
  BY DEF TypeOK, WireTypes
<1>2. WireTypes'
  <2>1. UNCHANGED wire /\ taken' = taken \ {m}
    BY DEF TextDelta, ToolCall, ToolResult, NestedTool, RunError, Done, SessionID, Error, ShowError,
           Got, ChatOnly
  <2> QED
    BY <1>1, <2>1 DEF TypeOK, WireTypes, wire
<1>3. TabOf(m) \in TabIds \cup {None}
  BY <1>1 DEF TypeOK, WireTypes, RunStates, TabOf, Messages
<1>4. ScreenTypes
  BY DEF TypeOK
<1>5. m.of \in Runs \cup {None} /\ <<>> \in Seq(Messages)
  BY <1>1 DEF Messages
<1>6. CASE TextDelta(m)
  <2>1. CASE TabOf(m) \in TabIds
    <3> DEFINE s == Append(streaming[TabOf(m)], m)
    <3>1. s \in Seq(Messages) /\ chat[TabOf(m)] \in Seq(Items)
      BY <1>1, <1>4, <2>1 DEF ScreenTypes
    <3>2. WithLive(chat[TabOf(m)], s) \in Seq(Items)
      <4> HIDE DEF s
      <4> QED
        BY <1>1, <3>1, ListTypes
    <3>3. /\ chat' = [chat EXCEPT ![TabOf(m)] = WithLive(chat[TabOf(m)], s)]
          /\ streaming' = [streaming EXCEPT ![TabOf(m)] = s]
          /\ UNCHANGED <<tabs, active, busy, cancels>>
      BY <1>6 DEF TextDelta, ChatOnly
    <3> HIDE DEF s
    <3>4. chat' \in [TabIds -> Seq(Items)]
      BY <1>4, <3>2, <3>3, ListUpdate
    <3> QED
      BY <1>2, <1>4, <3>1, <3>3, <3>4 DEF TypeOK, ScreenTypes
  <2>2. CASE TabOf(m) \notin TabIds
    <3>1. UNCHANGED screen
      BY <1>4, <1>6, <2>2 DEF TextDelta, ChatOnly, ScreenTypes, screen
    <3> QED
      BY <1>2, <1>4, <3>1 DEF TypeOK, ScreenTypes, screen
  <2> QED
    BY <2>1, <2>2
<1>7. ASSUME NEW t, NEW cl, t \in TabIds => cl \in Seq(Items), chat' = [chat EXCEPT ![t] = cl],
             UNCHANGED <<tabs, active, streaming, cancels>>, busy' \in [TabIds -> BOOLEAN]
      PROVE  TypeOK'
  <2>1. chat' \in [TabIds -> Seq(Items)]
    BY <1>4, <1>7 DEF ScreenTypes
  <2> QED
    BY <1>2, <1>4, <1>7, <2>1 DEF TypeOK, ScreenTypes
<1>8. ASSUME NEW t \in TabIds PROVE chat[t] \in Seq(Items)
  BY <1>4, <1>8 DEF ScreenTypes
<1>9. busy \in [TabIds -> BOOLEAN] /\ \A t : [busy EXCEPT ![t] = FALSE] \in [TabIds -> BOOLEAN]
  BY <1>4 DEF ScreenTypes
<1>10. CASE ToolCall(m)
  <2>1. PICK kind \in {"tool", "agent"} :
          chat' = [chat EXCEPT ![TabOf(m)] = Append(chat[TabOf(m)], item(kind, m.of, <<>>))]
    BY <1>10 DEF ToolCall
  <2> QED
    BY <1>1, <1>5, <1>7, <1>8, <1>9, <1>10, <2>1, ListTypes DEF ToolCall, ChatOnly
<1>11. CASE ToolResult(m)
  <2>1. PICK kind \in {"tool", "agent"} :
          chat' = [chat EXCEPT ![TabOf(m)] = Close(chat[TabOf(m)], kind, m.of)]
    BY <1>11 DEF ToolResult
  <2> QED
    BY <1>1, <1>5, <1>7, <1>8, <1>9, <1>11, <2>1, ListTypes DEF ToolResult, ChatOnly
<1>12. CASE NestedTool(m)
  <2>1. chat' = [chat EXCEPT ![TabOf(m)] = Nest(chat[TabOf(m)], m)]
    BY <1>12 DEF NestedTool
  <2> QED
    BY <1>1, <1>5, <1>7, <1>8, <1>9, <1>12, <2>1, ListTypes DEF NestedTool, ChatOnly
<1>13. CASE RunError(m)
  <2>1. chat' = [chat EXCEPT ![TabOf(m)] = Append(chat[TabOf(m)], item("system", m.of, <<>>))]
    BY <1>13 DEF RunError
  <2> QED
    BY <1>1, <1>5, <1>7, <1>8, <1>9, <1>13, <2>1, ListTypes DEF RunError
<1>14. CASE Done(m)
  BY <1>2, <1>4, <1>5, <1>9, <1>14 DEF Done, TypeOK, ScreenTypes
<1>15. CASE SessionID(m)
  <2>1. PICK i : tabs' = tabs \/ tabs' = [tabs EXCEPT ![i].sid = run[m.of].sid]
    BY <1>15 DEF SessionID
  <2>2. run[m.of].sid \in Sids
    BY <1>1 DEF TypeOK, WireTypes, RunStates, Messages
  <2>3. tabs' \in Seq(Tabs) /\ DOMAIN tabs' = DOMAIN tabs
    <3>1. CASE i \in DOMAIN tabs
      <4>1. tabs[i] \in Tabs /\ tabs \in Seq(Tabs)
        BY <1>4, <3>1, MemberOf DEF ScreenTypes
      <4>2. \A v \in Tabs : [v EXCEPT !.sid = run[m.of].sid] \in Tabs
        BY <2>2 DEF Tabs
      <4>3. PICK v \in Tabs : v = [tabs[i] EXCEPT !.sid = run[m.of].sid]
        BY <4>1, <4>2
      <4>4. tabs' = tabs \/ tabs' = [tabs EXCEPT ![i] = v]
        BY <2>1, <4>3
      <4> QED
        BY <4>1, <4>4
    <3>2. CASE i \notin DOMAIN tabs
      BY <1>4, <2>1, <3>2 DEF ScreenTypes
    <3> QED
      BY <3>1, <3>2
  <2> QED
    BY <1>2, <1>4, <1>15, <2>3 DEF SessionID, TypeOK, ScreenTypes
<1>16. CASE Error(m)
  <2>1. chat' = [chat EXCEPT ![Here] = Append(chat[Here], item("error", m.of, <<>>))]
    BY <1>16 DEF Error, ShowError
  <2> QED
    BY <1>1, <1>5, <1>7, <1>8, <1>9, <1>16, <2>1, ListTypes DEF Error, ShowError
<1> QED
  BY <1>6, <1>10, <1>11, <1>12, <1>13, <1>14, <1>15, <1>16

LEMMA KeyTypes == TypeOK /\ Key => TypeOK'
<1> SUFFICES ASSUME TypeOK, Key PROVE TypeOK'
  OBVIOUS
<1>1. ScreenTypes /\ WireTypes /\ <<>> \in Seq(Messages) /\ <<>> \in Seq(Items)
  BY DEF TypeOK
<1>2. tabs[active] \in Tabs /\ Here \in TabIds /\ chat[Here] \in Seq(Items)
  BY <1>1, HereIsTab DEF ScreenTypes
<1>3. ASSUME UNCHANGED wire, taken' = taken PROVE WireTypes'
  BY <1>1, <1>3 DEF WireTypes, wire
<1>4. ASSUME UNCHANGED <<chat, streaming, busy, cancels>>, tabs' \in Seq(Tabs), active' \in DOMAIN tabs'
      PROVE  ScreenTypes'
  BY <1>1, <1>4 DEF ScreenTypes
<1>5. CASE Send
  <2>1. Next1 \in Runs
    BY <1>5, NextIsIdle DEF Send, Idle
  <2>2. chat' = [chat EXCEPT ![Here] = Append(chat[Here], item("you", Next1, <<>>))]
    BY <1>5 DEF Send, Here
  <2>3. PICK m \in Messages : TRUE
    <3>1. [kind |-> "done", of |-> Next1, n |-> 0] \in Messages
      BY <2>1 DEF Messages, Kinds
    <3> QED
      BY <3>1
  <2>4. Append(chat[Here], item("you", Next1, <<>>)) \in Seq(Items)
    BY <1>1, <1>2, <2>1, <2>3, ListTypes
  <2>5. ScreenTypes'
    BY <1>1, <1>2, <1>5, <2>1, <2>2, <2>4 DEF Send, ScreenTypes
  <2>6. [st |-> "called", tab |-> tabs[active].id, sid |-> tabs[active].sid, left |-> <<>>] \in RunStates
    BY <1>1, <1>2 DEF RunStates, States, Tabs
  <2>7. run' = [run EXCEPT ![Next1] = [st |-> "called", tab |-> tabs[active].id,
                                       sid |-> tabs[active].sid, left |-> <<>>]]
    BY <1>5 DEF Send
  <2>8. run' \in [Runs -> RunStates]
    BY <1>1, <2>6, <2>7 DEF WireTypes
  <2>9. reader # None => reader \in Runs /\ reader # Next1
    BY <1>1, <1>5, NextIsIdle DEF Send, WireTypes, Idle
  <2> QED
    BY <1>1, <1>5, <2>1, <2>5, <2>7, <2>8, <2>9 DEF Send, TypeOK, WireTypes
<1>6. CASE Clear
  BY <1>1, <1>3, <1>6 DEF Clear, TypeOK, ScreenTypes
<1>7. CASE AskFails
  <2>1. chat' = [chat EXCEPT ![Here] = Append(chat[Here], item("error", None, <<>>))]
    BY <1>7 DEF AskFails, ShowError
  <2>2. Append(chat[Here], item("error", None, <<>>)) \in Seq(Items)
    BY <1>1, <1>2 DEF item, Items
  <2> QED
    BY <1>1, <1>3, <1>7, <2>1, <2>2 DEF AskFails, ShowError, TypeOK, ScreenTypes
<1>8. CASE Cancel
  <2>1. UNCHANGED screen
    BY <1>8 DEF Cancel
  <2>2. asked' \subseteq [tab : TabIds, sid : Sessions]
    BY <1>1, <1>2, <1>8 DEF Cancel, WireTypes, Tabs, Sids, Here
  <2> QED
    BY <1>1, <1>8, <2>1, <2>2 DEF Cancel, TypeOK, ScreenTypes, WireTypes, screen
<1>9. CASE Switch
  <2>1. tabs' = tabs /\ active' \in DOMAIN tabs
    BY <1>1, <1>9 DEF Switch, ScreenTypes
  <2> QED
    BY <1>1, <1>3, <1>4, <1>9, <2>1 DEF Switch, TypeOK, ScreenTypes
<1>10. CASE CloseTab
  <2>1. tabs' \in Seq(Tabs) /\ Len(tabs') = Len(tabs) - 1
    BY <1>1, <1>10, RemovedTyped DEF CloseTab, ScreenTypes
  <2>2. active' \in DOMAIN tabs'
    BY <1>1, <1>10, <2>1 DEF CloseTab, ScreenTypes
  <2> QED
    BY <1>3, <1>4, <1>10, <2>1, <2>2 DEF CloseTab, TypeOK
<1>11. ASSUME NEW t \in NewTabs, NewTab(t) PROVE TypeOK'
  <2>1. [id |-> t, sid |-> None] \in Tabs
    BY MainIsTab DEF Tabs, Sids
  <2>2. tabs' \in Seq(Tabs) /\ active' \in DOMAIN tabs'
    BY <1>1, <1>11, <2>1, AppendTyped DEF NewTab, ScreenTypes
  <2> QED
    BY <1>3, <1>4, <1>11, <2>2 DEF NewTab, TypeOK
<1>12. ASSUME NEW s \in Sessions, OpenSession(s) PROVE TypeOK'
  <2>1. [id |-> s, sid |-> s] \in Tabs
    BY MainIsTab DEF Tabs, Sids
  <2>2. tabs' \in Seq(Tabs) /\ active' \in DOMAIN tabs'
    <3>1. tabs \in Seq(Tabs)
      BY <1>1 DEF ScreenTypes
    <3>2. \/ /\ SelectInSeq(tabs, LAMBDA x : x.sid = s) # 0
             /\ active' = SelectInSeq(tabs, LAMBDA x : x.sid = s) /\ UNCHANGED tabs
          \/ tabs' = Append(tabs, [id |-> s, sid |-> s]) /\ active' = Len(tabs) + 1
      BY <1>12 DEF OpenSession
    <3>3. CASE SelectInSeq(tabs, LAMBDA x : x.sid = s) # 0
               /\ active' = SelectInSeq(tabs, LAMBDA x : x.sid = s) /\ UNCHANGED tabs
      <4> DEFINE I == {i \in 1 .. Len(tabs) : tabs[i].sid = s}
      <4>1. I # {} /\ active' = Min(I)
        BY <3>3 DEF SelectInSeq
      <4>2. I \in SUBSET Nat /\ I \subseteq DOMAIN tabs
        BY <3>1
      <4>3. Min(I) \in I
        <5> HIDE DEF I
        <5> QED
          BY <4>1, <4>2, MinIsMember
      <4> HIDE DEF I
      <4> QED
        BY <3>1, <3>3, <4>1, <4>2, <4>3
    <3>4. CASE tabs' = Append(tabs, [id |-> s, sid |-> s]) /\ active' = Len(tabs) + 1
      BY <2>1, <3>1, <3>4, AppendTyped
    <3> QED
      BY <3>2, <3>3, <3>4
  <2> QED
    BY <1>3, <1>4, <1>12, <2>2 DEF OpenSession, TypeOK
<1> QED
  BY <1>5, <1>6, <1>7, <1>8, <1>9, <1>10, <1>11, <1>12 DEF Key

LEMMA TypesKept == TypeOK /\ [Next]_vars => TypeOK'
<1> SUFFICES ASSUME TypeOK, [Next]_vars PROVE TypeOK'
  OBVIOUS
<1>1. CASE Take
  <2>1. Head(ch) \in Messages /\ Tail(ch) \in Seq(Messages)
    BY <1>1 DEF Take, TypeOK, WireTypes
  <2> QED
    BY <1>1, <2>1 DEF Take, TypeOK, ScreenTypes, WireTypes, screen
<1>2. ASSUME NEW a \in asked, CancelArrives(a) PROVE TypeOK'
  <2>1. run' \in [Runs -> RunStates]
    <3>1. CASE run' = run
      BY <3>1 DEF TypeOK, WireTypes
    <3>2. CASE run' # run
      <4>1. PICK r \in Runs : run' = [run EXCEPT ![r].left = <<[kind |-> "fail", of |-> r, n |-> 0]>>]
        BY <1>2, <3>2 DEF CancelArrives
      <4>2. <<[kind |-> "fail", of |-> r, n |-> 0]>> \in Seq(Messages)
        BY DEF Messages, Kinds
      <4>3. PICK left \in Seq(Messages) : left = <<[kind |-> "fail", of |-> r, n |-> 0]>>
        BY <4>2
      <4>4. "sent" \in States /\ run \in [Runs -> RunStates]
        BY DEF States, TypeOK, WireTypes
      <4> QED
        BY <4>1, <4>3, <4>4, RunUpdate
    <3> QED
      BY <3>1, <3>2
  <2>2. UNCHANGED <<screen, out, reader, ch, taken>> /\ asked' \subseteq asked /\ reader = None
    BY <1>2 DEF CancelArrives
  <2>3. \A q \in Runs : run'[q].st = "idle" => run'[q].left = <<>>
    <3>1. \A q \in Runs : run'[q] = run[q] \/ (run[q].st = "sent" /\ run'[q].st = run[q].st)
      <4>1. CASE run' = run
        BY <4>1
      <4>2. CASE run' # run
        <5>1. PICK r \in Runs : /\ run[r].st = "sent"
                                /\ run' = [run EXCEPT ![r].left = <<[kind |-> "fail", of |-> r, n |-> 0]>>]
          BY <1>2, <4>2 DEF CancelArrives
        <5> QED
          BY <5>1 DEF TypeOK, WireTypes, RunStates
      <4> QED
        BY <4>1, <4>2
    <3> QED
      BY <3>1 DEF TypeOK, WireTypes
  <2> QED
    BY <2>1, <2>2, <2>3 DEF TypeOK, ScreenTypes, WireTypes, screen
<1>3. CASE Disconnect \/ UNCHANGED vars
  BY <1>3 DEF Disconnect, vars, TypeOK, ScreenTypes, WireTypes, screen
<1> QED
  BY <1>1, <1>2, <1>3, StreamTypes, UpdateTypes, KeyTypes DEF Next

-----------------------------------------------------------------------------
(* Runs and their messages.                                                *)

Of(r)     == {m \in Messages : m.of = r}
Spoken(r) == run[r].st \notin {"idle", "called"}
Heard     == {m \in Messages : Spoken(m.of)}

(* A run has a tab once it is sent; before the gateway was asked there is  *)
(* no message of it; and what the client reads for it is of it.            *)
HomeInv ==
  /\ \A r \in Runs : run[r].tab = None <=> run[r].st = "idle"
  /\ \A r \in Runs : ~Spoken(r) => out[r] = <<>> /\ run[r].left = <<>>
  /\ \A r \in Runs : out[r] \in Seq(Of(r)) /\ run[r].left \in Seq(Of(r))
  /\ ch \in Seq(Heard)
  /\ taken \subseteq Heard

(* A run keeps its tab, its session once it has one, and never goes back.  *)
Goes(r) ==
  /\ run'[r].tab = run[r].tab
  /\ run[r].sid = None \/ run'[r].sid = run[r].sid
  /\ run'[r].st = run[r].st \/ (run[r].st # "idle" /\ run'[r].st \notin {"idle", "called"})

LEMMA StreamGoes == TypeOK /\ HomeInv /\ Stream => \A r \in Runs : Goes(r)
<1> SUFFICES ASSUME TypeOK, HomeInv, Stream, NEW q \in Runs PROVE Goes(q)
  OBVIOUS
<1>1. /\ run \in [Runs -> RunStates] /\ (reader # None => reader \in Runs /\ Spoken(reader))
      /\ \A r \in Runs : out[r] # <<>> => Spoken(r)
  BY DEF TypeOK, WireTypes, HomeInv
<1>2. ASSUME NEW r \in Runs, NEW x, Spoken(r), run' = [run EXCEPT ![r].st = x], x \notin {"idle", "called"}
      PROVE  Goes(q)
  BY <1>1, <1>2 DEF Goes, Spoken, RunStates
<1>2a. ASSUME NEW r \in Runs, NEW x, run' = [run EXCEPT ![r].left = x]
       PROVE  Goes(q)
  BY <1>1, <1>2a DEF Goes, RunStates
<1>3. CASE HandOver
  BY <1>1, <1>3 DEF HandOver, Goes, Spoken, RunStates
<1>4. ASSUME NEW r \in Runs, Request(r) PROVE Goes(q)
  <2>1. PICK s \in Scripts[r] :
          run' = [run EXCEPT ![r].st = "sent",
                             ![r].left = [i \in DOMAIN s |-> [kind |-> s[i], of |-> r, n |-> i]],
                             ![r].sid = IF @ = None THEN Fresh[r] ELSE @]
    BY <1>4 DEF Request
  <2>2. run[r].st = "called"
    BY <1>4 DEF Request
  <2> QED
    BY <1>1, <2>1, <2>2 DEF Goes, RunStates
<1>5. ASSUME NEW r \in Runs, RequestFails(r) PROVE Goes(q)
  BY <1>1, <1>5 DEF RequestFails, Goes, RunStates
<1>6. ASSUME NEW r \in Runs, ReadEvent(r) PROVE Goes(q)
  <2>1. PICK x : run' = [run EXCEPT ![r].left = x]
    BY <1>6 DEF ReadEvent
  <2> QED
    BY <1>2a, <2>1
<1>7. ASSUME NEW r \in Runs, ReadResponse(r) PROVE Goes(q)
  <2>1. run' = run \/ run' = [run EXCEPT ![r].left = <<>>, ![r].st = "answered"]
    BY <1>7 DEF ReadResponse
  <2>2. run[r].st = "sent"
    BY <1>7 DEF ReadResponse
  <2> QED
    BY <1>1, <2>1, <2>2 DEF Goes, RunStates
<1>8. ASSUME NEW r \in Runs, ForwardEvent(r) PROVE Goes(q)
  BY <1>8 DEF ForwardEvent, Goes
<1>9. ASSUME NEW r \in Runs, ForwardResponse(r) PROVE Goes(q)
  <2>1. PICK x : x = "returning" /\ run' = [run EXCEPT ![r].st = x]
    BY <1>9 DEF ForwardResponse
  <2>2. Spoken(r) /\ x \notin {"idle", "called"}
    BY <1>1, <1>9, <2>1 DEF ForwardResponse
  <2> QED
    BY <1>2, <2>1, <2>2
<1>10. ASSUME NEW r \in Runs, Return(r) PROVE Goes(q)
  BY <1>1, <1>10 DEF Return, Goes, RunStates
<1> QED
  BY <1>3, <1>4, <1>5, <1>6, <1>7, <1>8, <1>9, <1>10 DEF Stream

LEMMA QuietGoes ==
  ASSUME TypeOK, \/ Take \/ Update \/ Disconnect \/ Clear \/ AskFails \/ Cancel \/ Switch \/ CloseTab
                 \/ (\E t \in NewTabs : NewTab(t)) \/ (\E s \in Sessions : OpenSession(s))
                 \/ UNCHANGED vars
  PROVE  UNCHANGED <<run, out>>
BY DEF Take, Update, Disconnect, Clear, AskFails, Cancel, Switch, CloseTab, NewTab, OpenSession, vars,
       TextDelta, ToolCall, ToolResult, NestedTool, RunError, Done, SessionID, Error, ChatOnly, wire

LEMMA CancelGoes ==
  ASSUME TypeOK, NEW a \in asked, CancelArrives(a)
  PROVE  /\ \A r \in Runs : Goes(r)
         /\ \/ run' = run
            \/ \E r \in Runs : /\ run[r].st = "sent"
                               /\ run' = [run EXCEPT ![r].left = <<[kind |-> "fail", of |-> r, n |-> 0]>>]
<1>1. \/ run' = run
      \/ \E r \in Runs : /\ run[r].st = "sent"
                         /\ run' = [run EXCEPT ![r].left = <<[kind |-> "fail", of |-> r, n |-> 0]>>]
  BY DEF CancelArrives
<1>2. ASSUME NEW r \in Runs, NEW x, run' = [run EXCEPT ![r].left = x], NEW q \in Runs
      PROVE  Goes(q)
  BY <1>2 DEF Goes, TypeOK, WireTypes, RunStates
<1>3. ASSUME run' = run, NEW q \in Runs PROVE Goes(q)
  BY <1>3 DEF Goes
<1>4. ASSUME NEW q \in Runs PROVE Goes(q)
  <2>1. CASE run' = run
    BY <1>3, <2>1
  <2>2. CASE run' # run
    <3>1. PICK r \in Runs : \E x : run' = [run EXCEPT ![r].left = x]
      BY <1>1, <2>2
    <3> QED
      BY <1>2, <3>1
  <2> QED
    BY <2>1, <2>2
<1> QED
  BY <1>1, <1>4

LEMMA SendGoes ==
  ASSUME TypeOK, Send
  PROVE  /\ Next1 \in Runs /\ run[Next1].st = "idle"
         /\ run'[Next1] = [st |-> "called", tab |-> Here, sid |-> tabs[active].sid, left |-> <<>>]
         /\ Here \in TabIds /\ Here # None
         /\ \A r \in Runs \ {Next1} : run'[r] = run[r]
<1>1. Next1 \in Runs /\ run[Next1].st = "idle"
  BY NextIsIdle DEF Send, Idle
<1>2. Here \in TabIds /\ Here # None
  BY HereIsTab, MainIsTab DEF TypeOK
<1> QED
  BY <1>1, <1>2 DEF Send, Here, TypeOK, WireTypes

LEMMA WiderSeq ==
  ASSUME NEW S, NEW T, S \subseteq T, NEW q \in Seq(S)
  PROVE  q \in Seq(T)
OBVIOUS

LEMMA EndsTyped ==
  ASSUME NEW S, NEW q \in Seq(S), q # <<>>
  PROVE  Head(q) \in S /\ Tail(q) \in Seq(S)
OBVIOUS

LEMMA HeardGrows ==
  ASSUME \A r \in Runs : Spoken(r) => Spoken(r)'
  PROVE  Heard \subseteq Heard'
BY DEF Heard, Messages

LEMMA HomeKept == TypeOK /\ HomeInv /\ [Next]_vars => HomeInv'
<1> SUFFICES ASSUME TypeOK, HomeInv, [Next]_vars PROVE HomeInv'
  OBVIOUS
<1>1. /\ run \in [Runs -> RunStates] /\ out \in [Runs -> Seq(Messages)] /\ ch \in Seq(Heard)
      /\ taken \subseteq Heard
      /\ \A r \in Runs : out[r] \in Seq(Of(r)) /\ run[r].left \in Seq(Of(r))
  BY DEF TypeOK, WireTypes, HomeInv
<1>2. ASSUME \A r \in Runs : Goes(r)
      PROVE  /\ \A r \in Runs : run'[r].tab = None <=> run'[r].st = "idle"
             /\ \A r \in Runs : Spoken(r) => Spoken(r)'
             /\ Heard \subseteq Heard'
  BY <1>2, HeardGrows DEF Goes, HomeInv, Spoken
<1>3. \A r \in Runs : (out[r] # <<>> => Spoken(r)) /\ (run[r].left # <<>> => Spoken(r))
  BY DEF HomeInv
<1>4. ASSUME NEW r \in Runs, \A q \in Runs : Goes(q), \A q \in Runs : q # r => run'[q] = run[q] /\ out'[q] = out[q],
             out'[r] \in Seq(Of(r)), run'[r].left \in Seq(Of(r)), Spoken(r)',
             ch' \in Seq(Heard'), taken' \subseteq Heard'
      PROVE  HomeInv'
  <2>1. \A q \in Runs : ~Spoken(q)' => out'[q] = <<>> /\ run'[q].left = <<>>
    BY <1>4 DEF HomeInv, Spoken
  <2>2. \A q \in Runs : out'[q] \in Seq(Of(q)) /\ run'[q].left \in Seq(Of(q))
    BY <1>1, <1>4
  <2> QED
    BY <1>2, <1>4, <2>1, <2>2 DEF HomeInv, Of
<1>5. ASSUME \A r \in Runs : Goes(r), ch' = ch, taken' = taken PROVE ch' \in Seq(Heard') /\ taken' \subseteq Heard'
  BY <1>1, <1>2, <1>5, WiderSeq
<1>6. CASE Stream
  <2>1. \A r \in Runs : Goes(r)
    BY <1>6, StreamGoes
  <2>2. ASSUME NEW r \in Runs, run[r].left # <<>>, UNCHANGED <<ch, taken>>,
               run' = [run EXCEPT ![r].left = <<>>, ![r].st = "answered"],
               out' = [out EXCEPT ![r] = Append(@, Head(run[r].left))]
        PROVE  HomeInv'
    <3>1. Head(run[r].left) \in Of(r)
      BY <1>1, <2>2, EndsTyped
    <3>2. out'[r] \in Seq(Of(r)) /\ run'[r].left = <<>> /\ run'[r].st = "answered"
      BY <1>1, <2>2, <3>1 DEF RunStates
    <3>3. \A q \in Runs : q # r => run'[q] = run[q] /\ out'[q] = out[q]
      BY <1>1, <2>2
    <3>4. Spoken(r)' /\ <<>> \in Seq(Of(r)) /\ UNCHANGED <<ch, taken>>
      BY <2>2, <3>2 DEF Spoken
    <3> QED
      BY <1>4, <1>5, <2>1, <3>2, <3>3, <3>4
  <2>3. ASSUME NEW r \in Runs, Request(r) PROVE HomeInv'
    <3>1. PICK s \in Scripts[r] :
            run' = [run EXCEPT ![r].st = "sent",
                               ![r].left = [i \in DOMAIN s |-> [kind |-> s[i], of |-> r, n |-> i]],
                               ![r].sid = IF @ = None THEN Fresh[r] ELSE @]
      BY <2>3 DEF Request
    <3>2. PICK left : left = [i \in DOMAIN s |-> [kind |-> s[i], of |-> r, n |-> i]]
      OBVIOUS
    <3>3. PICK sid : run' = [run EXCEPT ![r].st = "sent", ![r].left = left, ![r].sid = sid]
      BY <3>1, <3>2
    <3>4. left \in Seq(Of(r))
      <4>1. s \in Seq(Events \cup {"ok", "fail"})
        BY TurnsAssumption
      <4>2. \A i \in 1 .. Len(s) : [kind |-> s[i], of |-> r, n |-> i] \in Of(r)
        BY <4>1 DEF Of, Messages, Kinds
      <4>3. left \in [1 .. Len(s) -> Of(r)] /\ Len(s) \in Nat
        BY <3>2, <4>1, <4>2
      <4> QED
        BY <4>3, MappedSeq
    <3>5. run'[r].st = "sent" /\ run'[r].left = left /\ \A q \in Runs : q # r => run'[q] = run[q]
      BY <1>1, <3>3 DEF RunStates
    <3>6. UNCHANGED <<ch, taken, out>>
      BY <2>3 DEF Request
    <3> QED
      BY <1>1, <1>4, <1>5, <2>1, <3>4, <3>5, <3>6 DEF Spoken
  <2>4. ASSUME NEW r \in Runs, NEW m \in Of(r), Spoken(r)', ch' = Append(ch, m), taken' = taken,
               run'[r].left = run[r].left, \A q \in Runs : q # r => run'[q] = run[q],
               out' = out \/ (out[r] # <<>> /\ out' = [out EXCEPT ![r] = Tail(out[r])])
        PROVE  HomeInv'
    <3>1. out'[r] \in Seq(Of(r)) /\ \A q \in Runs : q # r => out'[q] = out[q]
      <4>1. out[r] # <<>> => Tail(out[r]) \in Seq(Of(r))
        BY <1>1, EndsTyped
      <4> QED
        BY <1>1, <2>4, <4>1
    <3>2. m \in Heard' /\ ch \in Seq(Heard')
      BY <1>1, <1>2, <2>1, <2>4, WiderSeq DEF Heard, Of
    <3>3. ch' \in Seq(Heard') /\ taken' \subseteq Heard'
      BY <1>1, <1>2, <2>1, <2>4, <3>2, AppendTyped
    <3> QED
      BY <1>1, <1>4, <2>1, <2>4, <3>1, <3>3
  <2>5. ASSUME NEW r \in Runs, NEW kind \in {"sid", "oops", "done"}
        PROVE  [kind |-> kind, of |-> r, n |-> 0] \in Of(r)
    BY DEF Of, Messages, Kinds
  <2>6. ASSUME NEW r \in Runs, NEW st, run' = [run EXCEPT ![r].st = st]
        PROVE  /\ run'[r].left = run[r].left /\ run'[r].st = st
               /\ \A q \in Runs : q # r => run'[q] = run[q]
    BY <1>1, <2>6 DEF RunStates
  <2>7. CASE HandOver
    <3>1. PICK r \in Runs : r = reader /\ run[r].left # <<>>
      BY <2>7 DEF HandOver, TypeOK, WireTypes
    <3> QED
      BY <2>2, <2>7, <3>1 DEF HandOver
  <2>8. ASSUME NEW r \in Runs, RequestFails(r) PROVE HomeInv'
    <3>1. PICK st : st = "returning" /\ run' = [run EXCEPT ![r].st = st]
      BY <2>8 DEF RequestFails
    <3>2. ch' = Append(ch, [kind |-> "oops", of |-> r, n |-> 0]) /\ UNCHANGED <<out, taken>>
      BY <2>8 DEF RequestFails, Put
    <3> QED
      BY <2>4, <2>5, <2>6, <3>1, <3>2 DEF Spoken
  <2>9. ASSUME NEW r \in Runs, ReadEvent(r) PROVE HomeInv'
    <3>1. PICK left : left = Tail(run[r].left) /\ run' = [run EXCEPT ![r].left = left]
      BY <2>9 DEF ReadEvent
    <3>2. run[r].left # <<>> /\ UNCHANGED <<ch, taken>>
      BY <2>9, <1>1 DEF ReadEvent
    <3>3. out' = [out EXCEPT ![r] = Append(out[r], Head(run[r].left))] \/ out' = out
      BY <1>1, <2>9 DEF ReadEvent
    <3>4. Head(run[r].left) \in Of(r) /\ left \in Seq(Of(r)) /\ Spoken(r)
      BY <1>1, <1>3, <3>1, <3>2, EndsTyped
    <3>5. Append(out[r], Head(run[r].left)) \in Seq(Of(r))
      BY <1>1, <3>4, AppendTyped
    <3>6. out'[r] \in Seq(Of(r)) /\ \A q \in Runs : q # r => out'[q] = out[q]
      BY <1>1, <3>3, <3>5
    <3>7. run'[r].left = left /\ \A q \in Runs : q # r => run'[q] = run[q]
      BY <1>1, <3>1 DEF RunStates
    <3> QED
      BY <1>2, <1>4, <1>5, <2>1, <3>2, <3>4, <3>6, <3>7
  <2>10. ASSUME NEW r \in Runs, ReadResponse(r) PROVE HomeInv'
    <3>1. CASE Free(r)
      <4>1. run[r].left # <<>> /\ UNCHANGED <<ch, taken>>
        BY <2>10, <1>1 DEF ReadResponse
      <4> QED
        BY <2>2, <2>10, <3>1, <4>1 DEF ReadResponse
    <3>2. CASE ~Free(r)
      <4>1. UNCHANGED <<run, out, ch, taken>>
        BY <2>10, <3>2 DEF ReadResponse
      <4> QED
        BY <4>1 DEF HomeInv, Spoken, Heard
    <3> QED
      BY <3>1, <3>2
  <2>11. ASSUME NEW r \in Runs, ForwardEvent(r) PROVE HomeInv'
    <3>1. Head(out[r]) \in Of(r) /\ Spoken(r) /\ out[r] # <<>>
      BY <1>1, <1>3, <2>11, EndsTyped DEF ForwardEvent
    <3> QED
      BY <1>2, <2>1, <2>4, <2>11, <3>1 DEF ForwardEvent
  <2>12. ASSUME NEW r \in Runs, ForwardResponse(r) PROVE HomeInv'
    <3>1. PICK kind \in {"sid", "oops"} : ch' = Append(ch, [kind |-> kind, of |-> r, n |-> 0])
      BY <2>12 DEF ForwardResponse, Put
    <3>2. PICK st : st = "returning" /\ run' = [run EXCEPT ![r].st = st]
      BY <2>12 DEF ForwardResponse
    <3>3. out[r] # <<>> /\ out' = [out EXCEPT ![r] = Tail(out[r])] /\ UNCHANGED taken
      BY <2>12 DEF ForwardResponse
    <3> QED
      BY <2>4, <2>5, <2>6, <3>1, <3>2, <3>3 DEF Spoken
  <2>13. ASSUME NEW r \in Runs, Return(r) PROVE HomeInv'
    <3>1. PICK st : st = "returned" /\ run' = [run EXCEPT ![r].st = st]
      BY <2>13 DEF Return
    <3>2. ch' = Append(ch, [kind |-> "done", of |-> r, n |-> 0]) /\ UNCHANGED <<out, taken>>
      BY <2>13 DEF Return, Put
    <3> QED
      BY <2>4, <2>5, <2>6, <3>1, <3>2 DEF Spoken
  <2> QED
    BY <1>6, <2>3, <2>7, <2>8, <2>9, <2>10, <2>11, <2>12, <2>13 DEF Stream
<1>7. CASE Take
  <2>1. UNCHANGED <<run, out>> /\ taken' = taken \cup {Head(ch)} /\ ch' = Tail(ch) /\ ch # <<>>
    BY <1>7 DEF Take, screen
  <2>2. Head(ch) \in Heard /\ Tail(ch) \in Seq(Heard)
    BY <1>1, <2>1, EndsTyped
  <2> QED
    BY <2>1, <2>2 DEF HomeInv, Spoken, Heard
<1>8. CASE Update \/ Clear \/ AskFails \/ Cancel \/ Switch \/ CloseTab \/ (\E t \in NewTabs : NewTab(t))
           \/ (\E s \in Sessions : OpenSession(s)) \/ Disconnect \/ UNCHANGED vars
  <2>1. UNCHANGED <<run, out>>
    BY <1>8, QuietGoes
  <2>2. UNCHANGED ch /\ taken' \subseteq taken
    BY <1>8 DEF Update, Disconnect, Clear, AskFails, Cancel, Switch, CloseTab, NewTab, OpenSession, vars,
       TextDelta, ToolCall, ToolResult, NestedTool, RunError, Done, SessionID, Error, ChatOnly, wire, Got
  <2> QED
    BY <2>1, <2>2 DEF HomeInv, Spoken, Heard
<1>9. ASSUME NEW a \in asked, CancelArrives(a) PROVE HomeInv'
  <2>1. UNCHANGED <<out, ch, taken>> /\ \A r \in Runs : Goes(r)
    BY <1>9, CancelGoes DEF CancelArrives
  <2>2. CASE run' = run
    BY <2>1, <2>2 DEF HomeInv, Spoken, Heard
  <2>3. CASE run' # run
    <3>1. PICK r \in Runs : /\ run[r].st = "sent"
                            /\ run' = [run EXCEPT ![r].left = <<[kind |-> "fail", of |-> r, n |-> 0]>>]
      BY <1>9, <2>3, CancelGoes
    <3>2. PICK left : left = <<[kind |-> "fail", of |-> r, n |-> 0]>>
      OBVIOUS
    <3>3. run'[r].left = left /\ run'[r].st = "sent" /\ \A q \in Runs : q # r => run'[q] = run[q]
      BY <1>1, <3>1, <3>2 DEF RunStates
    <3>4. left \in Seq(Of(r))
      BY <3>2 DEF Of, Messages, Kinds
    <3> QED
      BY <1>1, <1>4, <1>5, <2>1, <3>3, <3>4 DEF Spoken
  <2> QED
    BY <2>2, <2>3
<1>10. CASE Send
  <2>1. UNCHANGED <<out, ch, taken>>
    BY <1>10 DEF Send
  <2>2. PICK r \in Runs : r = Next1
    BY <1>10, SendGoes
  <2>3. /\ run[r].st = "idle" /\ run'[r].st = "called" /\ run'[r].left = <<>> /\ run'[r].tab # None
        /\ \A q \in Runs : q # r => run'[q] = run[q]
    BY <1>10, <2>2, SendGoes
  <2>4. \A q \in Runs : Spoken(q) <=> Spoken(q)'
    BY <2>3 DEF Spoken
  <2>5. Heard \subseteq Heard'
    BY <2>4, HeardGrows
  <2>6. ch' \in Seq(Heard') /\ taken' \subseteq Heard'
    BY <1>1, <2>1, <2>5, WiderSeq
  <2>7. out[r] = <<>> /\ <<>> \in Seq(Of(r))
    BY <2>3 DEF HomeInv, Spoken
  <2> QED
    BY <2>1, <2>3, <2>4, <2>6, <2>7 DEF HomeInv, Of
<1> QED
  BY <1>6, <1>7, <1>8, <1>9, <1>10 DEF Next, Key

-----------------------------------------------------------------------------
(* Spinners and what ctrl+x would cancel.                                  *)

Waiting == taken \cup {ch[i] : i \in DOMAIN ch}

LEMMA PutIsWaiting ==
  ASSUME NEW q \in Seq(Messages), NEW m \in Messages
  PROVE  {Append(q, m)[i] : i \in DOMAIN Append(q, m)} = {q[i] : i \in DOMAIN q} \cup {m}
<1>1. Append(q, m) \in Seq(Messages) /\ Len(Append(q, m)) = Len(q) + 1 /\ Len(q) \in Nat
  OBVIOUS
<1>2. /\ Append(q, m)[Len(q) + 1] = m /\ Len(q) + 1 \in DOMAIN Append(q, m)
      /\ \A i \in DOMAIN q : Append(q, m)[i] = q[i] /\ i \in DOMAIN Append(q, m)
      /\ \A i \in DOMAIN Append(q, m) : i \in DOMAIN q \/ i = Len(q) + 1
  BY <1>1
<1> QED
  BY <1>2

LEMMA TakeKeepsWaiting ==
  ASSUME NEW q \in Seq(Messages), q # <<>>
  PROVE  {q[i] : i \in DOMAIN q} = {Head(q)} \cup {Tail(q)[i] : i \in DOMAIN Tail(q)}
<1>1. Tail(q) \in Seq(Messages) /\ Len(Tail(q)) = Len(q) - 1 /\ Len(q) \in Nat \ {0} /\ Head(q) = q[1]
  OBVIOUS
<1>2. /\ 1 \in DOMAIN q
      /\ \A i \in DOMAIN Tail(q) : Tail(q)[i] = q[i + 1] /\ i + 1 \in DOMAIN q
      /\ \A i \in DOMAIN q : i = 1 \/ (i - 1 \in DOMAIN Tail(q) /\ Tail(q)[i - 1] = q[i])
  BY <1>1
<1> QED
  BY <1>1, <1>2

(* Only Update takes a message away.                                       *)
LEMMA WaitingStays ==
  ASSUME TypeOK, Stream \/ Take \/ Key \/ Disconnect \/ UNCHANGED vars \/ (\E a \in asked : CancelArrives(a))
  PROVE  Waiting \subseteq Waiting'
<1>1. ch \in Seq(Messages)
  BY DEF TypeOK, WireTypes
<1>2. ASSUME UNCHANGED <<ch, taken>> PROVE Waiting \subseteq Waiting'
  BY <1>2 DEF Waiting
<1>3. ASSUME NEW m \in Messages, ch' = Append(ch, m), UNCHANGED taken PROVE Waiting \subseteq Waiting'
  BY <1>1, <1>3, PutIsWaiting DEF Waiting
<1>4. ASSUME NEW r \in Runs, NEW kind \in {"sid", "oops", "done"}, Put(r, kind), UNCHANGED taken
      PROVE  Waiting \subseteq Waiting'
  <2>1. [kind |-> kind, of |-> r, n |-> 0] \in Messages
    BY DEF Messages, Kinds
  <2> QED
    BY <1>3, <1>4, <2>1 DEF Put
<1>5. ASSUME NEW r \in Runs, RequestFails(r) \/ ForwardResponse(r) \/ Return(r)
      PROVE  Waiting \subseteq Waiting'
  <2>1. \E kind \in {"sid", "oops", "done"} : Put(r, kind) /\ UNCHANGED taken
    BY <1>5 DEF RequestFails, ForwardResponse, Return
  <2> QED
    BY <1>4, <2>1
<1>6. ASSUME NEW r \in Runs, ForwardEvent(r) PROVE Waiting \subseteq Waiting'
  <2>1. Head(out[r]) \in Messages
    BY <1>6, EndsTyped DEF ForwardEvent, TypeOK, WireTypes
  <2> QED
    BY <1>3, <1>6, <2>1 DEF ForwardEvent
<1>7. CASE Take
  <2>1. ch # <<>> /\ taken' = taken \cup {Head(ch)} /\ ch' = Tail(ch)
    BY <1>7 DEF Take
  <2> QED
    BY <1>1, <2>1, TakeKeepsWaiting DEF Waiting
<1>8. CASE Key \/ Disconnect \/ UNCHANGED vars \/ (\E a \in asked : CancelArrives(a))
  <2>1. UNCHANGED <<ch, taken>>
    BY <1>8 DEF Key, Send, Clear, AskFails, Cancel, Switch, CloseTab, NewTab, OpenSession, Disconnect,
                CancelArrives, vars, wire
  <2> QED
    BY <1>2, <2>1
<1>9. CASE HandOver \/ \E r \in Runs : Request(r) \/ ReadEvent(r) \/ ReadResponse(r)
  <2>1. UNCHANGED <<ch, taken>>
    BY <1>9 DEF HandOver, Request, ReadEvent, ReadResponse
  <2> QED
    BY <1>2, <2>1
<1> QED
  BY <1>5, <1>6, <1>7, <1>8, <1>9 DEF Stream

LEMMA NextGoes ==
  ASSUME TypeOK, HomeInv, [Next]_vars, NEW r \in Runs, run[r].st # "idle"
  PROVE  Goes(r)
<1>1. CASE Stream
  BY <1>1, StreamGoes
<1>2. CASE Send
  BY <1>2, SendGoes DEF Goes
<1>3. ASSUME NEW a \in asked, CancelArrives(a) PROVE Goes(r)
  BY <1>3, CancelGoes
<1>4. CASE run' = run
  BY <1>4 DEF Goes
<1> QED
  BY <1>1, <1>2, <1>3, <1>4, QuietGoes DEF Next, Key

LEMMA HeardKept ==
  ASSUME TypeOK, HomeInv, [Next]_vars
  PROVE  Heard \subseteq Heard'
<1>1. ASSUME NEW r \in Runs, Spoken(r) PROVE Spoken(r)'
  <2>1. run[r].st # "idle"
    BY <1>1 DEF Spoken
  <2> QED
    BY <1>1, <2>1, NextGoes DEF Goes, Spoken
<1> QED
  BY <1>1, HeardGrows

(* A run whose end is not seen stays so until Update handles its "done".   *)
LEMMA StaysUnseen ==
  ASSUME TypeOK, HomeInv, [Next]_vars, NEW r \in Runs, run[r].st # "idle", ~Seen(r),
         \A m \in taken : Done(m) => m.of # r
  PROVE  ~Seen(r)' /\ run'[r].tab = run[r].tab /\ run'[r].st # "idle"
<1>1. run \in [Runs -> RunStates] /\ ch \in Seq(Messages)
  BY DEF TypeOK, WireTypes
<1>2. Goes(r)
  BY NextGoes
<1>3. run'[r].tab = run[r].tab /\ run'[r].st # "idle"
  BY <1>2 DEF Goes
<1>4. CASE run[r].st = "returned"
  <2>1. PICK m \in Waiting : m.kind = "done" /\ m.of = r
    BY <1>4 DEF Seen, Waiting
  <2>2. m \in Waiting'
    <3>1. CASE Update
      <4>1. PICK w \in taken : \/ TextDelta(w) \/ ToolCall(w) \/ ToolResult(w) \/ NestedTool(w) \/ RunError(w)
                               \/ Done(w) \/ SessionID(w) \/ Error(w)
        BY <3>1 DEF Update
      <4>2. taken' = taken \ {w} /\ UNCHANGED ch
        BY <4>1 DEF TextDelta, ToolCall, ToolResult, NestedTool, RunError, Done, SessionID, Error, Got,
                    ChatOnly, wire
      <4>3. w.kind = "done" => Done(w)
        BY <4>1 DEF TextDelta, ToolCall, ToolResult, NestedTool, RunError, SessionID, Error, Got
      <4>4. m # w
        BY <2>1, <4>3
      <4> QED
        BY <4>2, <4>4 DEF Waiting
    <3> QED
      BY <3>1, WaitingStays DEF Next
  <2> QED
    BY <1>3, <2>1, <2>2 DEF Seen, Waiting
<1>5. CASE run[r].st # "returned"
  <2>1. CASE Return(r)
    <3>1. [kind |-> "done", of |-> r, n |-> 0] \in Messages
      BY DEF Messages, Kinds
    <3>2. [kind |-> "done", of |-> r, n |-> 0] \in Waiting'
      BY <1>1, <2>1, <3>1, PutIsWaiting DEF Return, Put, Waiting
    <3> QED
      BY <1>3, <3>2 DEF Seen, Waiting
  <2>2. CASE ~Return(r)
    <3>1. run'[r].st # "returned"
      <4>1. ASSUME NEW q \in Runs, NEW x, run' = [run EXCEPT ![q].left = x] PROVE run'[r].st = run[r].st
        BY <1>1, <4>1 DEF RunStates
      <4>2. ASSUME NEW q \in Runs, NEW x, run' = [run EXCEPT ![q].st = x] PROVE run'[r].st \in {run[r].st, x}
        BY <1>1, <4>2 DEF RunStates
      <4>3. CASE HandOver
        BY <1>1, <1>5, <4>3 DEF HandOver, TypeOK, WireTypes, RunStates
      <4>4. ASSUME NEW q \in Runs, Request(q) PROVE run'[r].st # "returned"
        <5>1. PICK left, sid : run' = [run EXCEPT ![q].st = "sent", ![q].left = left, ![q].sid = sid]
          BY <4>4 DEF Request
        <5> QED
          BY <1>1, <1>5, <5>1 DEF RunStates
      <4>5. ASSUME NEW q \in Runs, RequestFails(q) PROVE run'[r].st # "returned"
        BY <1>1, <1>5, <4>5 DEF RequestFails, RunStates
      <4>6. ASSUME NEW q \in Runs, ReadEvent(q) PROVE run'[r].st # "returned"
        <5>1. PICK left : run' = [run EXCEPT ![q].left = left]
          BY <4>6 DEF ReadEvent
        <5> QED
          BY <1>5, <4>1, <5>1
      <4>7. ASSUME NEW q \in Runs, ReadResponse(q) PROVE run'[r].st # "returned"
        <5>1. run' = run \/ run' = [run EXCEPT ![q].left = <<>>, ![q].st = "answered"]
          BY <4>7 DEF ReadResponse
        <5> QED
          BY <1>1, <1>5, <5>1 DEF RunStates
      <4>8. ASSUME NEW q \in Runs, ForwardResponse(q) PROVE run'[r].st # "returned"
        <5>1. PICK x : x = "returning" /\ run' = [run EXCEPT ![q].st = x]
          BY <4>8 DEF ForwardResponse
        <5> QED
          BY <1>5, <4>2, <5>1
      <4>9. ASSUME NEW q \in Runs, Return(q) PROVE run'[r].st # "returned"
        <5>1. q # r
          BY <2>2, <4>9
        <5> QED
          BY <1>1, <1>5, <4>9, <5>1 DEF Return
      <4>10. ASSUME NEW q \in Runs, ForwardEvent(q) PROVE run'[r].st # "returned"
        BY <1>5, <4>10 DEF ForwardEvent
      <4>11. ASSUME NEW a \in asked, CancelArrives(a) PROVE run'[r].st # "returned"
        BY <1>1, <1>5, <4>11, CancelGoes DEF RunStates
      <4>12. CASE Send
        BY <1>5, <4>12, SendGoes
      <4>13. CASE run' = run
        BY <1>5, <4>13
      <4> QED
        BY <4>3, <4>4, <4>5, <4>6, <4>7, <4>8, <4>9, <4>10, <4>11, <4>12, <4>13, QuietGoes
        DEF Next, Stream, Key
    <3> QED
      BY <1>3, <3>1 DEF Seen
  <2> QED
    BY <2>1, <2>2
<1> QED
  BY <1>4, <1>5

Works(t) ==
  /\ busy[t] => \E r \in Open : run[r].tab = t /\ ~Seen(r)
  /\ cancels[t] # None => \E r \in Runs : r = cancels[t] /\ run[r].tab = t /\ ~Seen(r)

LEMMA WorksEverywhere == TypeOK => (BusyMeansWork <=> \A t \in TabIds : Works(t))
BY DEF BusyMeansWork, Works, TypeOK, ScreenTypes

BusyInv == TypeOK /\ HomeInv /\ \A t \in TabIds : Works(t)

LEMMA BusyKept == BusyInv /\ [Next]_vars => BusyInv'
<1> SUFFICES ASSUME TypeOK, HomeInv, \A t \in TabIds : Works(t), [Next]_vars, NEW t \in TabIds
             PROVE  Works(t)'
  BY TypesKept, HomeKept DEF BusyInv
<1>1. /\ busy \in [TabIds -> BOOLEAN] /\ cancels \in [TabIds -> Runs \cup {None}] /\ t # None
      /\ run \in [Runs -> RunStates]
  BY MainIsTab DEF TypeOK, ScreenTypes, WireTypes
<1>2. cancels[t] # None => cancels[t] \in Runs /\ run[cancels[t]].st # "idle"
                           /\ run[cancels[t]].tab = t /\ ~Seen(cancels[t])
  BY <1>1 DEF Works, HomeInv
<1>3. busy[t] => \E r \in Runs : run[r].st # "idle" /\ run[r].tab = t /\ ~Seen(r)
  BY DEF Works, Open
<1>4. ASSUME NEW m \in taken, Done(m), TabOf(m) = t PROVE ~busy'[t] /\ cancels'[t] = None
  BY <1>1, <1>4 DEF Done
<1>5. ASSUME busy'[t] => busy[t], cancels'[t] \in {cancels[t], None}
      PROVE  Works(t)'
  <2>1. ASSUME NEW r \in Runs, run[r].st # "idle", run[r].tab = t, ~Seen(r), busy'[t] \/ cancels'[t] # None
        PROVE  r \in Open' /\ run'[r].tab = t /\ ~Seen(r)'
    <3>1. \A m \in taken : Done(m) => m.of # r
      BY <1>4, <2>1 DEF TabOf
    <3> QED
      BY <2>1, <3>1, StaysUnseen DEF Open
  <2>2. ASSUME busy'[t] PROVE \E r \in Open' : run'[r].tab = t /\ ~Seen(r)'
    BY <1>3, <1>5, <2>1, <2>2
  <2>3. ASSUME cancels'[t] # None PROVE \E r \in Runs : r = cancels'[t] /\ run'[r].tab = t /\ ~Seen(r)'
    BY <1>2, <1>5, <2>1, <2>3
  <2> QED
    BY <2>2, <2>3 DEF Works
<1>6. CASE Send
  <2>1. PICK r \in Runs : r = Next1
    BY <1>6, SendGoes
  <2>2. /\ run'[r].st = "called" /\ run'[r].tab = Here /\ busy' = [busy EXCEPT ![Here] = TRUE]
        /\ cancels' = [cancels EXCEPT ![Here] = r]
    BY <1>6, <2>1, SendGoes DEF Send, Here
  <2>3. r \in Open' /\ ~Seen(r)'
    BY <2>2 DEF Open, Seen
  <2>4. CASE t = Here
    <3>1. cancels'[t] = r
      BY <1>1, <2>2, <2>4
    <3> QED
      BY <2>2, <2>3, <2>4, <3>1 DEF Works
  <2>5. CASE t # Here
    BY <1>1, <1>5, <2>2, <2>5
  <2> QED
    BY <2>4, <2>5
<1>7. CASE Update
  <2>1. PICK m \in taken : \/ TextDelta(m) \/ ToolCall(m) \/ ToolResult(m) \/ NestedTool(m) \/ RunError(m)
                           \/ Done(m) \/ SessionID(m) \/ Error(m)
    BY <1>7 DEF Update
  <2>2. (busy'[t] => busy[t]) /\ cancels'[t] \in {cancels[t], None}
    <3>1. CASE Done(m)
      BY <1>1, <3>1 DEF Done
    <3>2. CASE RunError(m) \/ Error(m)
      BY <1>1, <3>2 DEF RunError, Error, ShowError
    <3>3. CASE TextDelta(m) \/ ToolCall(m) \/ ToolResult(m) \/ NestedTool(m) \/ SessionID(m)
      BY <3>3 DEF TextDelta, ToolCall, ToolResult, NestedTool, SessionID, ChatOnly
    <3> QED
      BY <2>1, <3>1, <3>2, <3>3
  <2> QED
    BY <1>1, <1>5, <2>2
<1>8. CASE AskFails
  <2>1. busy' = [busy EXCEPT ![Here] = FALSE] /\ cancels' = cancels
    BY <1>8 DEF AskFails, ShowError
  <2> QED
    BY <1>1, <1>5, <2>1
<1>9. CASE Stream \/ Take \/ (\E a \in asked : CancelArrives(a)) \/ Disconnect \/ Clear \/ Cancel \/ Switch
           \/ CloseTab \/ (\E x \in NewTabs : NewTab(x)) \/ (\E s \in Sessions : OpenSession(s))
           \/ UNCHANGED vars
  <2>1. UNCHANGED <<busy, cancels>>
    BY <1>9 DEF Stream, HandOver, Request, RequestFails, ReadEvent, ReadResponse, ForwardEvent, ForwardResponse,
      Return, Take, CancelArrives, Disconnect, Clear, Cancel, Switch, CloseTab, NewTab, OpenSession, vars, screen
  <2> QED
    BY <1>5, <2>1
<1> QED
  BY <1>6, <1>7, <1>8, <1>9 DEF Next, Key

LEMMA InitHome == Init => HomeInv
<1> SUFFICES ASSUME Init PROVE HomeInv
  OBVIOUS
<1>1. \A r \in Runs : run[r] = [st |-> "idle", tab |-> None, sid |-> None, left |-> <<>>] /\ out[r] = <<>>
  BY DEF Init
<1>2. ch \in Seq(Heard) /\ taken \subseteq Heard
  BY DEF Init
<1>3. \A r \in Runs : run[r].tab = None /\ run[r].st = "idle" /\ run[r].left = <<>> /\ out[r] = <<>>
  BY <1>1
<1>4. \A r \in Runs : <<>> \in Seq(Of(r))
  OBVIOUS
<1> QED
  BY <1>2, <1>3, <1>4 DEF HomeInv

(* However many turns overlap, a tab whose spinner turns, or whose ctrl+x  *)
(* has a turn to cancel, has one whose end it has not yet shown (the       *)
(* streamDoneMsg case, app.go:413).                                        *)
THEOREM BusyTabsHaveWork == Spec => []BusyMeansWork
<1>1. Init => BusyInv
  BY InitTypes, InitHome DEF BusyInv, Init, Works
<1>2. BusyInv => BusyMeansWork
  BY WorksEverywhere DEF BusyInv
<1> QED
  BY <1>1, <1>2, BusyKept, PTL DEF Spec

-----------------------------------------------------------------------------
(* The line a turn's messages go along: the gateway, the channel of the    *)
(* call, streamCh, the waiters' hands, the screen.  The pieces of a text   *)
(* and the tool calls of a sub-agent are numbered; each stage holds older  *)
(* ones than the stages before it.                                         *)

Piece(m)      == m.kind \in {"text", "inner"}
Follows(m, w) == Piece(m) /\ Piece(w) /\ m.of = w.of => m.n < w.n
After(m)      == {w \in Messages : Follows(m, w)}
Before(m)     == {w \in Messages : Follows(w, m)}
Ascending(q)  == \A i, j \in DOMAIN q : i < j => Follows(q[i], q[j])

Read(r) == {m \in Of(r) : run[r].left \in Seq(After(m))}
Forwarded == {m \in Heard : run[m.of].left \in Seq(After(m)) /\ out[m.of] \in Seq(After(m))}
Past == {m \in Forwarded : ch \in Seq(After(m))}
Shown(t) == {m \in Past : Piece(m) /\ run[m.of].tab = t /\ m \notin taken}

LineInv ==
  /\ \A r \in Runs : Ascending(run[r].left) /\ Ascending(out[r]) /\ out[r] \in Seq(Read(r))
  /\ Ascending(ch) /\ ch \in Seq(Forwarded)
  /\ taken \subseteq Past

LEMMA SeqIsFunction == ASSUME NEW S, NEW q \in Seq(S) PROVE q \in [1 .. Len(q) -> S]
OBVIOUS

LEMMA NarrowerFunction ==
  ASSUME NEW D, NEW S, NEW T, NEW f \in [D -> S], \A x \in D : f[x] \in T
  PROVE  f \in [D -> T]
OBVIOUS

LEMMA TailAscends ==
  ASSUME NEW q \in Seq(Messages), q # <<>>, Ascending(q)
  PROVE  Ascending(Tail(q)) /\ Tail(q) \in Seq(After(Head(q)))
<1>1. /\ Tail(q) \in Seq(Messages) /\ Len(Tail(q)) = Len(q) - 1 /\ Len(q) \in Nat \ {0} /\ Head(q) = q[1]
      /\ \A i \in 1 .. Len(q) - 1 : Tail(q)[i] = q[i + 1]
  OBVIOUS
<1>1a. Tail(q) \in [1 .. Len(q) - 1 -> Messages]
  BY <1>1, SeqIsFunction
<1>2. \A i \in 1 .. Len(q) - 1 : i + 1 \in DOMAIN q /\ 1 \in DOMAIN q /\ 1 < i + 1 /\ Tail(q)[i] \in Messages
  BY <1>1
<1>3. \A i \in 1 .. Len(q) - 1 : Tail(q)[i] \in After(Head(q))
  BY <1>1, <1>2 DEF Ascending, After
<1>4. Tail(q) \in [1 .. Len(q) - 1 -> After(Head(q))] /\ Len(q) - 1 \in Nat
  <2>1. Tail(q) \in [1 .. Len(q) - 1 -> After(Head(q))]
    BY ONLY <1>1a, <1>3, NarrowerFunction
  <2> QED
    BY <1>1, <2>1
<1>5. Tail(q) \in Seq(After(Head(q)))
  BY ONLY <1>4, MappedSeq
<1>6. ASSUME NEW i \in 1 .. Len(q) - 1, NEW j \in 1 .. Len(q) - 1, i < j
      PROVE  Follows(Tail(q)[i], Tail(q)[j])
  <2>1. i + 1 < j + 1 /\ i + 1 \in DOMAIN q /\ j + 1 \in DOMAIN q
    BY <1>1, <1>2, <1>6
  <2>2. Follows(q[i + 1], q[j + 1])
    BY <2>1 DEF Ascending
  <2> QED
    BY <1>1, <2>2
<1> QED
  BY <1>1, <1>5, <1>6 DEF Ascending

LEMMA AppendAscends ==
  ASSUME NEW m \in Messages, NEW q \in Seq(Before(m)), Ascending(q)
  PROVE  Ascending(Append(q, m))
<1>1. /\ Len(q) \in Nat /\ DOMAIN q = 1 .. Len(q) /\ DOMAIN Append(q, m) = 1 .. Len(q) + 1
      /\ Append(q, m)[Len(q) + 1] = m /\ \A i \in 1 .. Len(q) : Append(q, m)[i] = q[i] /\ q[i] \in Before(m)
  OBVIOUS
<1>2. ASSUME NEW i \in 1 .. Len(q) + 1, NEW j \in 1 .. Len(q) + 1, i < j
      PROVE  Follows(Append(q, m)[i], Append(q, m)[j])
  <2>1. i \in 1 .. Len(q)
    BY <1>1, <1>2
  <2>2. CASE j \in 1 .. Len(q)
    BY <1>1, <1>2, <2>1, <2>2 DEF Ascending
  <2>3. CASE j = Len(q) + 1
    BY <1>1, <2>1, <2>3 DEF Before
  <2> QED
    BY <1>1, <2>2, <2>3
<1> QED
  BY <1>1, <1>2 DEF Ascending

(* What is all before m is older than m.                                   *)
LEMMA OlderBefore ==
  ASSUME NEW m \in Messages, NEW S \in SUBSET Messages, NEW q \in Seq(S), \A w \in S : m \in After(w)
  PROVE  q \in Seq(Before(m))
<1>1. S \subseteq Before(m)
  BY DEF After, Before
<1> QED
  BY <1>1, WiderSeq

LEMMA NoPiece ==
  ASSUME NEW m \in Messages, ~Piece(m), NEW w \in Messages
  PROVE  m \in After(w) /\ w \in After(m)
BY DEF After, Follows

LEMMA OneAscends ==
  ASSUME NEW q, q = <<>> \/ \E m : q = <<m>>
  PROVE  Ascending(q)
<1>1. CASE q = <<>>
  BY <1>1 DEF Ascending
<1>2. ASSUME NEW m, q = <<m>> PROVE Ascending(q)
  <2>1. \A i, j \in DOMAIN q : i = 1 /\ j = 1
    BY <1>2
  <2> QED
    BY <2>1 DEF Ascending
<1> QED
  BY <1>1, <1>2

(* What a script says is numbered from 1.                                  *)
LEMMA ScriptAscends ==
  ASSUME NEW r \in Runs, NEW s \in Scripts[r],
         NEW q, q = [i \in DOMAIN s |-> [kind |-> s[i], of |-> r, n |-> i]]
  PROVE  Ascending(q)
<1>1. s \in Seq(Events \cup {"ok", "fail"})
  BY TurnsAssumption
<1>2. \A i \in DOMAIN q : q[i].n = i
  OBVIOUS
<1> QED
  BY <1>2 DEF Ascending, Follows

LEMMA LineTyped ==
  ASSUME TypeOK, HomeInv
  PROVE  /\ run \in [Runs -> RunStates] /\ out \in [Runs -> Seq(Messages)] /\ ch \in Seq(Messages)
         /\ taken \subseteq Messages /\ \A r \in Runs : run[r].left \in Seq(Messages)
         /\ \A r \in Runs : (out[r] # <<>> => Spoken(r)) /\ (run[r].left # <<>> => Spoken(r))
         /\ Past \subseteq Forwarded /\ Forwarded \subseteq Heard /\ Heard \subseteq Messages
BY DEF TypeOK, WireTypes, RunStates, HomeInv, Past, Forwarded, Heard

LEMMA PlainAfter ==
  ASSUME NEW m \in Messages, ~Piece(m)
  PROVE  After(m) = Messages /\ \A w \in Messages : m \in After(w)
BY DEF After, Follows

(* The stages that a step leaves alone.                                    *)
LEMMA LineRests ==
  ASSUME TypeOK, HomeInv, LineInv, UNCHANGED <<out, ch>>, \A r \in Runs : run'[r].left = run[r].left,
         Heard \subseteq Heard', taken' \subseteq taken
  PROVE  LineInv' /\ Past \subseteq Past'
<1>1. \A m \in Heard : m.of \in Runs
  BY DEF Heard, Messages
<1>2. Forwarded \subseteq Forwarded' /\ \A r \in Runs : Read(r) = Read(r)'
  BY <1>1 DEF Forwarded, Read
<1>3. Past \subseteq Past'
  BY <1>2 DEF Past
<1>4. ch' \in Seq(Forwarded') /\ taken' \subseteq Past'
  BY <1>2, <1>3, WiderSeq DEF LineInv
<1>5. \A r \in Runs : Ascending(run[r].left)' /\ Ascending(out[r])' /\ out'[r] \in Seq(Read(r)')
  BY <1>2 DEF LineInv, Ascending
<1> QED
  BY <1>3, <1>4, <1>5 DEF LineInv, Ascending

(* The reader puts the oldest message of the gateway into the channel of   *)
(* the call, or loses it.                                                  *)
LEMMA LineRead ==
  ASSUME TypeOK, HomeInv, LineInv, NEW r \in Runs, NEW h, NEW left,
         run[r].left # <<>>, h = Head(run[r].left), left \in {Tail(run[r].left), <<>>},
         run'[r].left = left, \A q \in Runs : q # r => run'[q].left = run[q].left,
         out' = out \/ out' = [out EXCEPT ![r] = Append(out[r], h)],
         UNCHANGED <<ch, taken>>, Heard \subseteq Heard'
  PROVE  LineInv' /\ Past \subseteq Past'
<1>1. /\ h \in Of(r) /\ h \in Messages /\ run[r].left \in Seq(Messages) /\ out[r] \in Seq(Messages)
      /\ Ascending(run[r].left) /\ Ascending(out[r]) /\ out[r] \in Seq(Read(r))
  <2>1. run[r].left \in Seq(Of(r)) /\ Of(r) \subseteq Messages
    BY DEF HomeInv, Of
  <2>2. h \in Of(r)
    BY <2>1, EndsTyped
  <2> QED
    BY <2>1, <2>2, LineTyped DEF LineInv
<1>2. Ascending(left) /\ left \in Seq(After(h))
  <2>1. CASE left = <<>>
    BY <2>1, OneAscends
  <2>2. CASE left = Tail(run[r].left)
    BY <1>1, <2>2, TailAscends
  <2> QED
    BY <2>1, <2>2
<1>3. ASSUME NEW S, run[r].left \in Seq(S) PROVE h \in S /\ left \in Seq(S)
  <2>1. h \in S /\ Tail(run[r].left) \in Seq(S) /\ <<>> \in Seq(S)
    BY <1>3, EndsTyped
  <2> QED
    BY <2>1
<1>4. Read(r) \subseteq Read(r)' /\ h \in Read(r)' /\ Read(r) \subseteq Messages
  BY <1>1, <1>2, <1>3 DEF Read, Of
<1>5. out[r] \in Seq(Read(r)') /\ Append(out[r], h) \in Seq(Read(r)')
  BY <1>1, <1>4, WiderSeq, AppendTyped
<1>6. Ascending(Append(out[r], h))
  <2>1. \A w \in Read(r) : h \in After(w)
    BY <1>3 DEF Read
  <2>2. out[r] \in Seq(Before(h))
    BY <1>1, <1>4, <2>1, OlderBefore
  <2> QED
    BY <1>1, <2>2, AppendAscends
<1>7. /\ out'[r] \in {out[r], Append(out[r], h)} /\ \A q \in Runs : q # r => out'[q] = out[q]
  BY LineTyped
<1>8. Forwarded \subseteq Forwarded'
  <2> SUFFICES ASSUME NEW m \in Forwarded PROVE m \in Forwarded'
    OBVIOUS
  <2>1. m \in Heard' /\ m.of \in Runs /\ run[m.of].left \in Seq(After(m)) /\ out[m.of] \in Seq(After(m))
    BY DEF Forwarded, Heard, Messages
  <2>2. CASE m.of = r
    <3>1. h \in After(m) /\ left \in Seq(After(m))
      BY <1>3, <2>1, <2>2
    <3>2. Append(out[r], h) \in Seq(After(m))
      BY <2>1, <2>2, <3>1, AppendTyped
    <3> QED
      BY <1>7, <2>1, <2>2, <3>1, <3>2 DEF Forwarded
  <2>3. CASE m.of # r
    BY <1>7, <2>1, <2>3 DEF Forwarded
  <2> QED
    BY <2>2, <2>3
<1>9. Past \subseteq Past'
  BY <1>8 DEF Past
<1>10. ch' \in Seq(Forwarded') /\ taken' \subseteq Past' /\ Ascending(ch')
  BY <1>8, <1>9, WiderSeq DEF LineInv
<1>11. ASSUME NEW q \in Runs PROVE Ascending(run'[q].left) /\ Ascending(out'[q]) /\ out'[q] \in Seq(Read(q)')
  <2>1. CASE q = r
    BY <1>1, <1>2, <1>5, <1>6, <1>7, <2>1
  <2>2. CASE q # r
    <3>1. Read(q)' = Read(q) /\ out'[q] = out[q] /\ run'[q].left = run[q].left
      BY <1>7, <2>2 DEF Read
    <3> QED
      BY <3>1 DEF LineInv
  <2> QED
    BY <2>1, <2>2
<1> QED
  BY <1>9, <1>10, <1>11 DEF LineInv, Ascending

(* runStream puts the oldest message of the call's channel, or one of its  *)
(* own that is no piece, into streamCh.                                    *)
LEMMA LineForwarded ==
  ASSUME TypeOK, HomeInv, LineInv, NEW r \in Runs, NEW h \in Messages, h.of = r, h \in Heard',
         \/ out' = out /\ ~Piece(h)
         \/ out[r] # <<>> /\ out' = [out EXCEPT ![r] = Tail(out[r])] /\ (h = Head(out[r]) \/ ~Piece(h)),
         \A q \in Runs : run'[q].left = run[q].left,
         ch' = Append(ch, h), UNCHANGED taken, Heard \subseteq Heard'
  PROVE  LineInv' /\ Past \subseteq Past'
<1>1. /\ run[r].left \in Seq(Messages) /\ out[r] \in Seq(Messages) /\ ch \in Seq(Forwarded)
      /\ out[r] \in Seq(Read(r)) /\ Ascending(out[r]) /\ Ascending(ch) /\ Forwarded \subseteq Messages
      /\ Forwarded \subseteq Heard
  BY LineTyped DEF LineInv
<1>2. /\ \A q \in Runs : q # r => out'[q] = out[q]
      /\ out'[r] = out[r] \/ (out[r] # <<>> /\ out'[r] = Tail(out[r]))
  <2>1. out \in [Runs -> Seq(Messages)]
    BY LineTyped
  <2> QED
    BY <2>1
<1>3. ASSUME NEW S, out[r] \in Seq(S) PROVE out'[r] \in Seq(S)
  <2>1. out[r] # <<>> => Tail(out[r]) \in Seq(S)
    BY <1>3, EndsTyped
  <2> QED
    BY <1>2, <1>3, <2>1
<1>4. \A q \in Runs : Read(q)' = Read(q)
  BY DEF Read
<1>5. ASSUME NEW q \in Runs PROVE Ascending(run'[q].left) /\ Ascending(out'[q]) /\ out'[q] \in Seq(Read(q)')
  <2>1. CASE q = r
    <3>1. out'[r] \in Seq(Read(r))
      BY <1>1, <1>3
    <3>2. Ascending(out'[r])
      BY <1>1, <1>2, TailAscends
    <3> QED
      BY <1>4, <2>1, <3>1, <3>2 DEF LineInv
  <2>2. CASE q # r
    BY <1>2, <1>4, <2>2 DEF LineInv
  <2> QED
    BY <2>1, <2>2
<1>6. Forwarded \subseteq Forwarded'
  <2> SUFFICES ASSUME NEW m \in Forwarded PROVE m \in Forwarded'
    OBVIOUS
  <2>1. m \in Heard' /\ m.of \in Runs /\ run[m.of].left \in Seq(After(m)) /\ out[m.of] \in Seq(After(m))
    BY DEF Forwarded, Heard, Messages
  <2>2. out'[m.of] \in Seq(After(m))
    BY <1>2, <1>3, <2>1
  <2> QED
    BY <2>1, <2>2 DEF Forwarded
<1>7. \A w \in Forwarded : h \in After(w)
  <2> SUFFICES ASSUME NEW w \in Forwarded PROVE h \in After(w)
    OBVIOUS
  <2>1. CASE ~Piece(h) \/ w.of # r
    BY <2>1 DEF After, Follows
  <2>2. CASE Piece(h) /\ w.of = r
    <3>1. out[r] # <<>> /\ h = Head(out[r]) /\ out[r] \in Seq(After(w))
      BY <2>2 DEF Forwarded
    <3> QED
      BY <3>1, EndsTyped
  <2> QED
    BY <2>1, <2>2
<1>8. h \in Forwarded'
  <2>1. CASE ~Piece(h)
    <3>1. After(h) = Messages
      BY <2>1, PlainAfter
    <3>2. run'[r].left \in Seq(After(h)) /\ out'[r] \in Seq(After(h))
      BY <1>1, <1>3, <3>1
    <3> QED
      BY <3>2 DEF Forwarded
  <2>2. CASE Piece(h)
    <3>1. out[r] # <<>> /\ h = Head(out[r]) /\ out'[r] = Tail(out[r])
      <4>1. out \in [Runs -> Seq(Messages)]
        BY LineTyped
      <4> QED
        BY <2>2, <4>1
    <3>2. out'[r] \in Seq(After(h)) /\ h \in Read(r)
      <4>1. Tail(out[r]) \in Seq(After(Head(out[r])))
        BY <1>1, <3>1, TailAscends
      <4>2. Head(out[r]) \in Read(r)
        BY <1>1, <3>1, EndsTyped
      <4> QED
        BY <3>1, <4>1, <4>2
    <3> QED
      BY <3>2 DEF Forwarded, Read
  <2> QED
    BY <2>1, <2>2
<1>9. ch' \in Seq(Forwarded')
  BY <1>1, <1>6, <1>8, WiderSeq, AppendTyped
<1>10. Ascending(ch')
  <2>1. ch \in Seq(Before(h))
    BY <1>1, <1>7, OlderBefore
  <2> QED
    BY <1>1, <2>1, AppendAscends
<1>11. Past \subseteq Past'
  <2> SUFFICES ASSUME NEW m \in Past PROVE m \in Past'
    OBVIOUS
  <2>1. m \in Forwarded /\ ch \in Seq(After(m))
    BY DEF Past
  <2>2. ch' \in Seq(After(m))
    BY <1>7, <2>1, AppendTyped
  <2> QED
    BY <1>6, <2>1, <2>2 DEF Past
<1>12. taken' \subseteq Past'
  BY <1>11 DEF LineInv
<1> QED
  BY <1>5, <1>9, <1>10, <1>11, <1>12 DEF LineInv, Ascending

(* Only the head of streamCh is ever taken.                                *)
LEMMA LineTaken ==
  ASSUME TypeOK, HomeInv, LineInv, Take
  PROVE  /\ LineInv' /\ Past \subseteq Past' /\ Head(ch) \in Past'
         /\ \A m \in Past : Head(ch) \in After(m)
<1>1. ch # <<>> /\ ch' = Tail(ch) /\ taken' = taken \cup {Head(ch)} /\ UNCHANGED <<run, out>>
  BY DEF Take
<1>2. ch \in Seq(Messages) /\ ch \in Seq(Forwarded) /\ Ascending(ch)
  BY LineTyped DEF LineInv
<1>3. Head(ch) \in Forwarded /\ Tail(ch) \in Seq(Forwarded)
  BY <1>1, <1>2, EndsTyped
<1>4. Ascending(Tail(ch)) /\ Tail(ch) \in Seq(After(Head(ch)))
  BY <1>1, <1>2, TailAscends
<1>5. Forwarded' = Forwarded /\ \A r \in Runs : Read(r)' = Read(r)
  BY <1>1 DEF Forwarded, Heard, Spoken, Read
<1>6. ASSUME NEW m \in Past PROVE m \in Past' /\ Head(ch) \in After(m)
  <2>1. m \in Forwarded /\ ch \in Seq(After(m))
    BY DEF Past
  <2>2. Head(ch) \in After(m) /\ Tail(ch) \in Seq(After(m))
    BY <1>1, <2>1, EndsTyped
  <2> QED
    BY <1>1, <1>5, <2>1, <2>2 DEF Past
<1>7. Head(ch) \in Past'
  BY <1>1, <1>3, <1>4, <1>5 DEF Past
<1>8. taken' \subseteq Past'
  BY <1>1, <1>6, <1>7 DEF LineInv
<1> QED
  BY <1>1, <1>3, <1>4, <1>5, <1>6, <1>7, <1>8 DEF LineInv, Ascending

(* A run that starts to speak has nothing on the line yet.                 *)
LEMMA LineStarts ==
  ASSUME TypeOK, HomeInv, LineInv, NEW r \in Runs, Heard \subseteq Heard', UNCHANGED <<out, ch, taken>>,
         Ascending(run'[r].left), \A q \in Runs : q # r => run'[q].left = run[q].left,
         ~Spoken(r) \/ \A m \in Messages : run'[r].left \in Seq(After(m))
  PROVE  LineInv' /\ Past \subseteq Past'
<1>1. Forwarded \subseteq Forwarded'
  <2> SUFFICES ASSUME NEW m \in Forwarded PROVE m \in Forwarded'
    OBVIOUS
  <2>1. m \in Heard /\ m \in Heard' /\ m \in Messages /\ m.of \in Runs /\ Spoken(m.of)
        /\ run[m.of].left \in Seq(After(m)) /\ out[m.of] \in Seq(After(m))
    BY DEF Forwarded, Heard, Messages
  <2>2. run'[m.of].left \in Seq(After(m))
    BY <2>1
  <2> QED
    BY <2>1, <2>2 DEF Forwarded
<1>2. Past \subseteq Past'
  BY <1>1 DEF Past
<1>3. ch' \in Seq(Forwarded') /\ taken' \subseteq Past' /\ Ascending(ch')
  BY <1>1, <1>2, WiderSeq DEF LineInv
<1>4. ASSUME NEW q \in Runs PROVE Ascending(run'[q].left) /\ Ascending(out'[q]) /\ out'[q] \in Seq(Read(q)')
  <2>1. CASE q # r
    BY <2>1 DEF LineInv, Read
  <2>2. CASE q = r /\ ~Spoken(r)
    <3>1. out[r] = <<>>
      BY <2>2 DEF HomeInv
    <3> QED
      BY <2>2, <3>1, OneAscends
  <2>3. CASE q = r /\ \A m \in Messages : run'[r].left \in Seq(After(m))
    <3>1. Read(r)' = Of(r) /\ out[r] \in Seq(Of(r))
      BY <2>3 DEF Read, Of, HomeInv
    <3> QED
      BY <2>3, <3>1 DEF LineInv
  <2> QED
    BY <2>1, <2>2, <2>3
<1> QED
  BY <1>2, <1>3, <1>4 DEF LineInv, Ascending

LEMMA LineKept == TypeOK /\ HomeInv /\ LineInv /\ [Next]_vars => LineInv' /\ Past \subseteq Past'
<1> SUFFICES ASSUME TypeOK, HomeInv, LineInv, [Next]_vars PROVE LineInv' /\ Past \subseteq Past'
  OBVIOUS
<1>1. Heard \subseteq Heard' /\ HomeInv'
  BY HeardKept, HomeKept
<1>2. run \in [Runs -> RunStates] /\ out \in [Runs -> Seq(Messages)]
  BY LineTyped
<1>3. ASSUME NEW r \in Runs, NEW left, run' = [run EXCEPT ![r].left = left]
      PROVE  run'[r].left = left /\ \A q \in Runs : q # r => run'[q].left = run[q].left
  BY <1>2, <1>3 DEF RunStates
<1>4. ASSUME NEW r \in Runs, NEW st, run' = [run EXCEPT ![r].st = st]
      PROVE  run'[r].st = st /\ \A q \in Runs : run'[q].left = run[q].left
  BY <1>2, <1>4 DEF RunStates
<1>5. ASSUME NEW r \in Runs, NEW left, NEW st, run' = [run EXCEPT ![r].left = left, ![r].st = st]
      PROVE  run'[r].left = left /\ \A q \in Runs : q # r => run'[q].left = run[q].left
  BY <1>2, <1>5 DEF RunStates
<1>6. ASSUME NEW r \in Runs, NEW kind \in {"sid", "oops", "done"}, Spoken(r)'
      PROVE  LET h == [kind |-> kind, of |-> r, n |-> 0] IN h \in Messages /\ ~Piece(h) /\ h \in Heard' /\ h.of = r
  BY <1>6 DEF Messages, Kinds, Piece, Heard
<1>7. ASSUME NEW r \in Runs, NEW kind \in {"sid", "oops", "done"}, NEW st,
             st \notin {"idle", "called"}, Put(r, kind), taken' = taken, run' = [run EXCEPT ![r].st = st],
             out' = out \/ (out[r] # <<>> /\ out' = [out EXCEPT ![r] = Tail(out[r])])
      PROVE  LineInv' /\ Past \subseteq Past'
  <2>1. Spoken(r)'
    BY <1>4, <1>7 DEF Spoken
  <2>2. PICK h : h = [kind |-> kind, of |-> r, n |-> 0]
    OBVIOUS
  <2>3. h \in Messages /\ ~Piece(h) /\ h \in Heard' /\ h.of = r /\ ch' = Append(ch, h)
    BY <1>6, <1>7, <2>1, <2>2 DEF Put
  <2> QED
    BY <1>1, <1>4, <1>7, <2>3, LineForwarded
<1>8. CASE HandOver
  <2>1. PICK r \in Runs : r = reader /\ run[r].left # <<>>
    BY <1>8 DEF HandOver, TypeOK, WireTypes
  <2>2. PICK h : h = Head(run[r].left)
    OBVIOUS
  <2>3. PICK left : left = <<>>
    OBVIOUS
  <2>4. /\ run' = [run EXCEPT ![r].left = left, ![r].st = "answered"]
        /\ out' = [out EXCEPT ![r] = Append(out[r], h)] /\ UNCHANGED <<ch, taken>>
    BY <1>8, <2>1, <2>2, <2>3 DEF HandOver
  <2>5. run'[r].left = left /\ \A q \in Runs : q # r => run'[q].left = run[q].left
    BY <1>2, <2>4 DEF RunStates
  <2> QED
    BY <1>1, <2>1, <2>2, <2>3, <2>4, <2>5, LineRead
<1>9. ASSUME NEW r \in Runs, Request(r) PROVE LineInv' /\ Past \subseteq Past'
  <2>1. PICK s \in Scripts[r] :
          run' = [run EXCEPT ![r].st = "sent",
                             ![r].left = [i \in DOMAIN s |-> [kind |-> s[i], of |-> r, n |-> i]],
                             ![r].sid = IF @ = None THEN Fresh[r] ELSE @]
    BY <1>9 DEF Request
  <2>2. PICK left : left = [i \in DOMAIN s |-> [kind |-> s[i], of |-> r, n |-> i]]
    OBVIOUS
  <2>3. PICK sid : run' = [run EXCEPT ![r].st = "sent", ![r].left = left, ![r].sid = sid]
    BY <2>1, <2>2
  <2>4. run'[r].left = left /\ \A q \in Runs : q # r => run'[q].left = run[q].left
    BY <1>2, <2>3 DEF RunStates
  <2>5. Ascending(left)
    BY <2>2, ScriptAscends
  <2>6. ~Spoken(r) /\ UNCHANGED <<out, ch, taken>>
    BY <1>9 DEF Request, Spoken
  <2> QED
    BY <1>1, <2>4, <2>5, <2>6, LineStarts
<1>10. ASSUME NEW r \in Runs, RequestFails(r) PROVE LineInv' /\ Past \subseteq Past'
  <2>1. PICK st : st = "returning" /\ run' = [run EXCEPT ![r].st = st]
    BY <1>10 DEF RequestFails
  <2>2. st \notin {"idle", "called"}
    BY <2>1
  <2> QED
    BY <1>7, <1>10, <2>1, <2>2 DEF RequestFails
<1>11. ASSUME NEW r \in Runs, ReadEvent(r) PROVE LineInv' /\ Past \subseteq Past'
  <2>1. PICK left, h : left = Tail(run[r].left) /\ h = Head(run[r].left)
    OBVIOUS
  <2>2. /\ run' = [run EXCEPT ![r].left = left] /\ UNCHANGED <<ch, taken>>
        /\ out' = out \/ out' = [out EXCEPT ![r] = Append(out[r], h)]
        /\ run[r].left # <<>>
    <3>1. out' = [out EXCEPT ![r] = IF Free(r) THEN Append(out[r], h) ELSE out[r]]
      BY <1>11, <2>1 DEF ReadEvent
    <3>2. out' = out \/ out' = [out EXCEPT ![r] = Append(out[r], h)]
      BY <1>2, <3>1
    <3>3. run[r].left # <<>>
      BY <1>11 DEF ReadEvent
    <3> QED
      BY <1>11, <2>1, <3>2, <3>3 DEF ReadEvent
  <2> QED
    BY <1>1, <1>3, <2>1, <2>2, LineRead
<1>12. ASSUME NEW r \in Runs, ReadResponse(r) PROVE LineInv' /\ Past \subseteq Past'
  <2>1. CASE Free(r)
    <3>1. PICK left, h : left = <<>> /\ h = Head(run[r].left)
      OBVIOUS
    <3>2. /\ run' = [run EXCEPT ![r].left = left, ![r].st = "answered"] /\ UNCHANGED <<ch, taken>>
          /\ out' = [out EXCEPT ![r] = Append(out[r], h)] /\ run[r].left # <<>>
      BY <1>12, <2>1, <3>1 DEF ReadResponse
    <3>3. run'[r].left = left /\ \A q \in Runs : q # r => run'[q].left = run[q].left
      BY <1>2, <3>2 DEF RunStates
    <3> QED
      BY <1>1, <3>1, <3>2, <3>3, LineRead
  <2>2. CASE ~Free(r)
    <3>1. UNCHANGED <<run, out, ch, taken>>
      BY <1>12, <2>2 DEF ReadResponse
    <3> QED
      BY <1>1, <3>1, LineRests
  <2> QED
    BY <2>1, <2>2
<1>13. ASSUME NEW r \in Runs, ForwardEvent(r) PROVE LineInv' /\ Past \subseteq Past'
  <2>1. PICK h : h = Head(out[r])
    OBVIOUS
  <2>2. /\ out[r] # <<>> /\ ch' = Append(ch, h) /\ out' = [out EXCEPT ![r] = Tail(out[r])]
        /\ UNCHANGED <<run, taken>>
    BY <1>13, <2>1 DEF ForwardEvent
  <2>3. h \in Of(r) /\ Spoken(r)
    BY <2>1, <2>2, EndsTyped DEF HomeInv
  <2>4. h \in Messages /\ h.of = r /\ h \in Heard'
    BY <1>1, <2>3 DEF Of, Heard
  <2> QED
    BY <1>1, <2>1, <2>2, <2>4, LineForwarded
<1>14. ASSUME NEW r \in Runs, ForwardResponse(r) PROVE LineInv' /\ Past \subseteq Past'
  <2>1. PICK kind \in {"sid", "oops"} : Put(r, kind)
    BY <1>14 DEF ForwardResponse
  <2>2. PICK st : st = "returning" /\ run' = [run EXCEPT ![r].st = st]
    BY <1>14 DEF ForwardResponse
  <2>3. st \notin {"idle", "called"} /\ kind \in {"sid", "oops", "done"}
    BY <2>2
  <2>4. out[r] # <<>> /\ out' = [out EXCEPT ![r] = Tail(out[r])] /\ taken' = taken
    BY <1>14 DEF ForwardResponse
  <2> QED
    BY <1>7, <2>1, <2>2, <2>3, <2>4
<1>15. ASSUME NEW r \in Runs, Return(r) PROVE LineInv' /\ Past \subseteq Past'
  <2>1. PICK st : st = "returned" /\ run' = [run EXCEPT ![r].st = st]
    BY <1>15 DEF Return
  <2>2. st \notin {"idle", "called"}
    BY <2>1
  <2> QED
    BY <1>7, <1>15, <2>1, <2>2 DEF Return
<1>16. ASSUME NEW a \in asked, CancelArrives(a) PROVE LineInv' /\ Past \subseteq Past'
  <2>1. UNCHANGED <<out, ch, taken>>
    BY <1>16 DEF CancelArrives
  <2>2. CASE run' = run
    BY <1>1, <2>1, <2>2, LineRests
  <2>3. CASE run' # run
    <3>1. PICK r \in Runs : run' = [run EXCEPT ![r].left = <<[kind |-> "fail", of |-> r, n |-> 0]>>]
      BY <1>16, <2>3, CancelGoes
    <3>2. PICK h : h = [kind |-> "fail", of |-> r, n |-> 0]
      OBVIOUS
    <3>3. PICK left : left = <<h>>
      OBVIOUS
    <3>4. run' = [run EXCEPT ![r].left = left]
      BY <3>1, <3>2, <3>3
    <3>5. h \in Messages /\ ~Piece(h)
      BY <3>2 DEF Messages, Kinds, Piece
    <3>6. Ascending(left)
      BY <3>3, OneAscends
    <3>7. \A m \in Messages : left \in Seq(After(m))
      <4>1. \A m \in Messages : h \in After(m)
        BY <3>5, PlainAfter
      <4> QED
        BY <3>3, <4>1
    <3>8. run'[r].left = left /\ \A q \in Runs : q # r => run'[q].left = run[q].left
      BY <1>3, <3>4
    <3> QED
      BY <1>1, <2>1, <3>6, <3>7, <3>8, LineStarts
  <2> QED
    BY <2>2, <2>3
<1>17. CASE Send
  <2>1. UNCHANGED <<out, ch, taken>>
    BY <1>17 DEF Send
  <2>2. \A r \in Runs : run'[r].left = run[r].left
    BY <1>17, SendGoes DEF HomeInv, Spoken
  <2> QED
    BY <1>1, <2>1, <2>2, LineRests
<1>18. CASE Update \/ Clear \/ AskFails \/ Cancel \/ Switch \/ CloseTab \/ (\E t \in NewTabs : NewTab(t))
            \/ (\E s \in Sessions : OpenSession(s)) \/ Disconnect \/ UNCHANGED vars
  <2>1. UNCHANGED <<run, out>>
    BY <1>18, QuietGoes
  <2>2. UNCHANGED ch /\ taken' \subseteq taken
    BY <1>18 DEF Update, Disconnect, Clear, AskFails, Cancel, Switch, CloseTab, NewTab, OpenSession, vars,
       TextDelta, ToolCall, ToolResult, NestedTool, RunError, Done, SessionID, Error, ChatOnly, wire, Got
  <2> QED
    BY <1>1, <2>1, <2>2, LineRests
<1>19. CASE Take
  BY <1>19, LineTaken
<1> QED
  BY <1>8, <1>9, <1>10, <1>11, <1>12, <1>13, <1>14, <1>15, <1>16, <1>17, <1>18, <1>19 DEF Next, Stream, Key

-----------------------------------------------------------------------------
(* What a tab shows is of its own turns, and old.                          *)

Homely(t) == {x \in Items : /\ x.kind # "error" /\ x.of # None => run[x.of].tab = t
                            /\ x.text \in Seq(Shown(t)) /\ IsInjective(x.text)}

ShownInv == \A t \in TabIds :
  /\ streaming[t] \in Seq(Shown(t)) /\ IsInjective(streaming[t])
  /\ chat[t] \in Seq(Homely(t))

LEMMA ShownGrows ==
  ASSUME TypeOK, HomeInv, LineInv, [Next]_vars, NEW t \in TabIds
  PROVE  Shown(t) \subseteq Shown(t)' /\ Homely(t) \subseteq Homely(t)'
<1>1. Past \subseteq Past' /\ Past \subseteq Heard
  BY LineKept, LineTyped
<1>2. ASSUME NEW r \in Runs, run[r].st # "idle" PROVE run'[r].tab = run[r].tab
  BY <1>2, NextGoes DEF Goes
<1>3. ASSUME NEW m \in Shown(t) PROVE m \in Shown(t)'
  <2>1. m \in Past /\ m \in Past' /\ Piece(m) /\ run[m.of].tab = t /\ m \notin taken /\ m \in Messages
        /\ m.of \in Runs /\ Spoken(m.of)
    BY <1>1 DEF Shown, Heard, Messages
  <2>2. run'[m.of].tab = t
    BY <1>2, <2>1 DEF Spoken
  <2>3. m \notin taken'
    <3>1. CASE Take
      <4>1. Head(ch) \in After(m) /\ taken' = taken \cup {Head(ch)}
        BY <2>1, <3>1, LineTaken DEF Take
      <4>2. m \notin After(m)
        BY <2>1 DEF After, Follows, Messages
      <4> QED
        BY <2>1, <4>1, <4>2
    <3>2. CASE ~Take
      <4>1. taken' \subseteq taken
        BY <3>2 DEF Next, Stream, Key, Send, CancelArrives, HandOver, Request, RequestFails, ReadEvent,
           ReadResponse, ForwardEvent, ForwardResponse, Return, Update, Disconnect, Clear, AskFails, Cancel,
           Switch, CloseTab, NewTab, OpenSession, vars, TextDelta, ToolCall, ToolResult, NestedTool, RunError,
           Done, SessionID, Error, ChatOnly, wire, Got
      <4> QED
        BY <2>1, <4>1
    <3> QED
      BY <3>1, <3>2
  <2> QED
    BY <2>1, <2>2, <2>3 DEF Shown
<1>4. ASSUME NEW x \in Homely(t) PROVE x \in Homely(t)'
  <2>1. x \in Items /\ (x.kind # "error" /\ x.of # None => run[x.of].tab = t) /\ x.text \in Seq(Shown(t)) /\ IsInjective(x.text)
    BY DEF Homely
  <2>2. x.text \in Seq(Shown(t)')
    BY <1>3, <2>1, WiderSeq
  <2>3. x.kind # "error" /\ x.of # None => run'[x.of].tab = t
    <3> SUFFICES ASSUME x.kind # "error", x.of # None PROVE run'[x.of].tab = t
      OBVIOUS
    <3>1. x.of \in Runs /\ run[x.of].tab = t /\ t # None
      BY <2>1, MainIsTab DEF Items
    <3>2. run[x.of].st # "idle"
      BY <3>1 DEF HomeInv
    <3> QED
      BY <1>2, <3>1, <3>2
  <2> QED
    BY <2>1, <2>2, <2>3 DEF Homely
<1> QED
  BY <1>3, <1>4

LEMMA NewcomerInjective ==
  ASSUME NEW S, NEW q \in Seq(S), NEW m, m \notin S, IsInjective(q)
  PROVE  IsInjective(Append(q, m))
<1>0. PICK p : p = Append(q, m)
  OBVIOUS
<1>1. /\ Len(q) \in Nat /\ DOMAIN q = 1 .. Len(q) /\ DOMAIN p = 1 .. Len(q) + 1
      /\ p[Len(q) + 1] = m /\ \A i \in 1 .. Len(q) : p[i] = q[i] /\ q[i] \in S
  BY <1>0
<1>2. ASSUME NEW i \in 1 .. Len(q) + 1, NEW j \in 1 .. Len(q) + 1, p[i] = p[j]
      PROVE  i = j
  <2>1. CASE i \in 1 .. Len(q) /\ j \in 1 .. Len(q)
    BY <1>1, <1>2, <2>1 DEF IsInjective
  <2>2. CASE i = Len(q) + 1 /\ j = Len(q) + 1
    BY <2>2
  <2>3. CASE i \in 1 .. Len(q) /\ j = Len(q) + 1
    BY <1>1, <1>2, <2>3
  <2>4. CASE i = Len(q) + 1 /\ j \in 1 .. Len(q)
    BY <1>1, <1>2, <2>4
  <2> QED
    BY <1>1, <2>1, <2>2, <2>3, <2>4
<1>3. IsInjective(p)
  BY <1>1, <1>2 DEF IsInjective
<1> QED
  BY <1>0, <1>3

LEMMA EmptyInjective == IsInjective(<<>>)
BY DEF IsInjective

(* A message in a waiter's hands that is handled is shown where it belongs. *)
LEMMA HandledIsShown ==
  ASSUME TypeOK, HomeInv, LineInv, [Next]_vars, NEW m \in taken, taken' = taken \ {m}
  PROVE  /\ m \in Messages /\ m.of \in Runs /\ TabOf(m) \in TabIds /\ TabOf(m)' = TabOf(m)
         /\ \A t \in TabIds : m \notin Shown(t) /\ (Piece(m) /\ t = TabOf(m) => m \in Shown(t)')
<1>1. m \in Past /\ m \in Past' /\ m \in Messages /\ m.of \in Runs /\ Spoken(m.of)
  BY LineKept, LineTyped DEF LineInv, Heard, Messages
<1>2. run[m.of].tab \in TabIds /\ run'[m.of].tab = run[m.of].tab
  BY <1>1, NextGoes DEF Goes, Spoken, HomeInv, TypeOK, WireTypes, RunStates
<1> QED
  BY <1>1, <1>2 DEF Shown, TabOf

(* What Update does to a message list, again.                              *)
LEMMA ListHomely ==
  ASSUME NEW S \in SUBSET Items, NEW cl \in Seq(S), NEW text,
         \A x \in S : [x EXCEPT !.text = text] \in S, \A x \in S : [x EXCEPT !.done = TRUE] \in S,
         item("live", None, text) \in S
  PROVE  WithLive(cl, text) \in Seq(S) /\ \A kind, r : Close(cl, kind, r) \in Seq(S)
<1>1. WithLive(cl, text) \in Seq(S)
  <2>1. CASE Live(cl) = 0
    BY <2>1, AppendTyped DEF WithLive
  <2>2. CASE Live(cl) # 0
    <3>1. PICK k : k = Live(cl) /\ WithLive(cl, text) = [cl EXCEPT ![k].text = text]
      BY <2>2 DEF WithLive
    <3>2. CASE k \in DOMAIN cl
      <4>1. PICK v \in S : v = [cl[k] EXCEPT !.text = text]
        BY <3>2, MemberOf
      <4>2. [cl EXCEPT ![k].text = text] = [cl EXCEPT ![k] = v]
        BY <4>1
      <4> QED
        BY <3>1, <4>2, ReplacedTyped
    <3>3. CASE k \notin DOMAIN cl
      <4>1. [cl EXCEPT ![k].text = text] = cl
        BY <3>3
      <4> QED
        BY <3>1, <4>1
    <3> QED
      BY <3>2, <3>3
  <2> QED
    BY <2>1, <2>2
<1>2. ASSUME NEW kind, NEW r PROVE Close(cl, kind, r) \in Seq(S)
  <2>1. \A i \in DOMAIN cl : cl[i] \in S
    BY MemberOf
  <2>2. Close(cl, kind, r) \in [1 .. Len(cl) -> S] /\ Len(cl) \in Nat
    BY <2>1 DEF Close
  <2> QED
    BY <2>2, MappedSeq
<1> QED
  BY <1>1, <1>2

LEMMA NestHomely ==
  ASSUME NEW S, NEW T, S \subseteq T, NEW cl \in Seq(S), NEW m,
         \A v \in S : [v EXCEPT !.text = Append(v.text, m)] \in T
  PROVE  Nest(cl, m) \in Seq(T)
<1>1. \A i \in DOMAIN cl : cl[i] \in S
  BY MemberOf
<1>2. Nest(cl, m) \in [1 .. Len(cl) -> T] /\ Len(cl) \in Nat
  BY <1>1 DEF Nest
<1> QED
  BY ONLY <1>2, MappedSeq

(* What may be put into an item of the list of tab t.                      *)
Changes(t) ==
  /\ \A x \in Homely(t) : /\ [x EXCEPT !.done = TRUE] \in Homely(t)
                          /\ [x EXCEPT !.text = <<>>] \in Homely(t)
  /\ \A kind \in {"you", "live", "tool", "agent", "system", "error"}, r \in Runs \cup {None} :
       (kind # "error" /\ r # None => run[r].tab = t) => item(kind, r, <<>>) \in Homely(t)
  /\ \A text \in Seq(Shown(t)) : IsInjective(text) =>
       /\ \A x \in Homely(t) : [x EXCEPT !.text = text] \in Homely(t)
       /\ item("live", None, text) \in Homely(t)

Changing == \A t \in TabIds : Changes(t)

LEMMA HomelyChanges == Changing
<1> SUFFICES ASSUME NEW t \in TabIds PROVE Changes(t)
  BY DEF Changing
<1>1. \A s \in Seq(Shown(t)) : s \in Seq(Messages)
  BY WiderSeq DEF Shown, Past, Forwarded, Heard
<1>2. <<>> \in Seq(Shown(t)) /\ IsInjective(<<>>)
  BY EmptyInjective
<1>3. ASSUME NEW x \in Homely(t)
      PROVE  /\ [x EXCEPT !.done = TRUE] \in Homely(t)
             /\ [x EXCEPT !.text = <<>>] \in Homely(t)
  BY <1>1, <1>2 DEF Homely, Items
<1>4. ASSUME NEW kind \in {"you", "live", "tool", "agent", "system", "error"},
             NEW r \in Runs \cup {None}, kind # "error" /\ r # None => run[r].tab = t
      PROVE  item(kind, r, <<>>) \in Homely(t)
  BY <1>1, <1>2, <1>4 DEF Homely, Items, item
<1>5. ASSUME NEW text \in Seq(Shown(t)), IsInjective(text), NEW x \in Homely(t)
      PROVE  [x EXCEPT !.text = text] \in Homely(t)
  BY <1>1, <1>5 DEF Homely, Items
<1>6. ASSUME NEW text \in Seq(Shown(t)), IsInjective(text)
      PROVE  item("live", None, text) \in Homely(t)
  BY <1>1, <1>6 DEF Homely, Items, item
<1> QED
  BY <1>3, <1>4, <1>5, <1>6 DEF Changes

(* An item is added at the end of the list of tab u.                       *)
Adds(u, kind, r) ==
  /\ kind # "error" /\ r # None => run'[r].tab = u
  /\ UNCHANGED streaming
  /\ chat' = [chat EXCEPT ![u] = Append(chat[u], item(kind, r, <<>>))]

LEMMA ShownKept == TypeOK /\ HomeInv /\ LineInv /\ ShownInv /\ [Next]_vars => ShownInv'
<1> SUFFICES ASSUME TypeOK, HomeInv, LineInv, ShownInv, [Next]_vars, NEW t \in TabIds
             PROVE  /\ streaming'[t] \in Seq(Shown(t)') /\ IsInjective(streaming'[t])
                    /\ chat'[t] \in Seq(Homely(t)')
  BY DEF ShownInv
<1>1. /\ Shown(t) \subseteq Shown(t)' /\ Homely(t) \subseteq Homely(t)'
      /\ streaming[t] \in Seq(Shown(t)') /\ IsInjective(streaming[t]) /\ chat[t] \in Seq(Homely(t)')
      /\ streaming[t] \in Seq(Shown(t)) /\ chat[t] \in Seq(Homely(t))
  BY ShownGrows, WiderSeq DEF ShownInv
<1>2. Changing'
  BY HomelyChanges, PTL
<1>3. /\ \A x \in Homely(t)' : /\ [x EXCEPT !.done = TRUE] \in Homely(t)'
                               /\ [x EXCEPT !.text = <<>>] \in Homely(t)'
      /\ \A kind \in {"you", "live", "tool", "agent", "system", "error"}, r \in Runs \cup {None} :
           (kind # "error" /\ r # None => run'[r].tab = t) => item(kind, r, <<>>) \in Homely(t)'
      /\ \A text \in Seq(Shown(t)') : IsInjective(text) =>
           /\ \A x \in Homely(t)' : [x EXCEPT !.text = text] \in Homely(t)'
           /\ item("live", None, text) \in Homely(t)'
  BY <1>2 DEF Changing, Changes
<1>4. /\ streaming \in [TabIds -> Seq(Messages)] /\ chat \in [TabIds -> Seq(Items)]
      /\ <<>> \in Seq(Shown(t)') /\ <<>> \in Seq(Homely(t)') /\ IsInjective(<<>>)
  BY EmptyInjective DEF TypeOK, ScreenTypes
<1> DEFINE Goal == /\ streaming'[t] \in Seq(Shown(t)') /\ IsInjective(streaming'[t])
                   /\ chat'[t] \in Seq(Homely(t)')
<1>5. ASSUME streaming'[t] \in {streaming[t], <<>>}, chat'[t] \in Seq(Homely(t)') PROVE Goal
  BY <1>1, <1>4, <1>5
<1>6. ASSUME streaming'[t] \in {streaming[t], <<>>}, chat'[t] \in {chat[t], <<>>} PROVE Goal
  BY <1>1, <1>4, <1>6
<1>7. ASSUME NEW u, NEW kind \in {"you", "live", "tool", "agent", "system", "error"}, NEW r \in Runs \cup {None},
             Adds(u, kind, r)
      PROVE  Goal
  <2>1. CASE u = t
    <3>1. PICK i \in Homely(t)' : i = item(kind, r, <<>>)
      BY <1>3, <1>7, <2>1 DEF Adds
    <3>2. chat'[t] = Append(chat[t], i)
      BY <1>4, <1>7, <2>1, <3>1 DEF Adds
    <3>3. chat'[t] \in Seq(Homely(t)')
      BY <1>1, <3>2, AppendTyped
    <3> QED
      BY <1>5, <1>7, <3>3 DEF Adds
  <2>2. CASE u # t
    BY <1>4, <1>6, <1>7, <2>2 DEF Adds
  <2> QED
    BY <2>1, <2>2
<1>8. CASE Send
  <2>1. /\ Next1 \in Runs /\ run'[Next1].tab = Here /\ UNCHANGED streaming
        /\ chat' = [chat EXCEPT ![Here] = Append(chat[Here], item("you", Next1, <<>>))]
    BY <1>8, SendGoes DEF Send, Here
  <2>2. Adds(Here, "you", Next1)
    BY <2>1 DEF Adds
  <2> QED
    BY <1>7, <2>1, <2>2
<1>9. CASE AskFails
  <2>1. Adds(Here, "error", None)
    BY <1>9 DEF AskFails, ShowError, Adds
  <2> QED
    BY <1>7, <2>1
<1>10. CASE Clear
  <2>1. streaming'[t] \in {streaming[t], <<>>} /\ chat'[t] \in {chat[t], <<>>}
    BY <1>4, <1>10 DEF Clear
  <2> QED
    BY <1>6, <2>1
<1>11. CASE Stream \/ Take \/ (\E a \in asked : CancelArrives(a)) \/ Disconnect \/ Cancel \/ Switch
            \/ CloseTab \/ (\E x \in NewTabs : NewTab(x)) \/ (\E s \in Sessions : OpenSession(s))
            \/ UNCHANGED vars
  <2>1. UNCHANGED <<streaming, chat>>
    BY <1>11 DEF Stream, HandOver, Request, RequestFails, ReadEvent, ReadResponse, ForwardEvent, ForwardResponse,
      Return, Take, CancelArrives, Disconnect, Cancel, Switch, CloseTab, NewTab, OpenSession, vars, screen
  <2> QED
    BY <1>6, <2>1
<1>12. CASE Update
  <2>1. PICK m \in taken : \/ TextDelta(m) \/ ToolCall(m) \/ ToolResult(m) \/ NestedTool(m) \/ RunError(m)
                           \/ Done(m) \/ SessionID(m) \/ Error(m)
    BY <1>12 DEF Update
  <2>2. taken' = taken \ {m} /\ UNCHANGED run
    BY <2>1 DEF TextDelta, ToolCall, ToolResult, NestedTool, RunError, Done, SessionID, Error, Got, ChatOnly, wire
  <2>3. /\ m \in Messages /\ m.of \in Runs /\ TabOf(m) \in TabIds /\ m \notin Shown(t)
        /\ Piece(m) => \A x \in TabIds : x = TabOf(m) => m \in Shown(x)'
    BY <2>2, HandledIsShown
  <2>4. PICK u : u = TabOf(m) /\ run'[m.of].tab = u
    BY <2>2 DEF TabOf
  <2>5. CASE TextDelta(m)
    <3>1. PICK s : s = Append(streaming[u], m)
      OBVIOUS
    <3>2. /\ streaming' = [streaming EXCEPT ![u] = s] /\ Piece(m)
          /\ chat' = [chat EXCEPT ![u] = WithLive(chat[u], s)]
      BY <2>4, <2>5, <3>1 DEF TextDelta, Got, Piece
    <3>3. CASE u = t
      <4>1. s \in Seq(Shown(t)') /\ IsInjective(s)
        BY <1>1, <2>3, <2>4, <3>1, <3>2, <3>3, AppendTyped, NewcomerInjective
      <4>2. WithLive(chat[t], s) \in Seq(Homely(t)')
        <5>0. Homely(t)' \in SUBSET Items
          BY DEF Homely
        <5> QED
          BY <1>1, <1>3, <4>1, <5>0, ListHomely
      <4> QED
        BY <1>4, <3>2, <3>3, <4>1, <4>2
    <3>4. CASE u # t
      BY <1>4, <1>6, <3>2, <3>4
    <3> QED
      BY <3>3, <3>4
  <2>6. CASE ToolCall(m)
    <3>1. PICK kind \in {"tool", "agent"} :
            chat' = [chat EXCEPT ![u] = Append(chat[u], item(kind, m.of, <<>>))] /\ UNCHANGED streaming
      BY <2>4, <2>6 DEF ToolCall
    <3>3. Adds(u, kind, m.of)
      BY <2>4, <3>1 DEF Adds
    <3>2. kind \in {"you", "live", "tool", "agent", "system", "error"} /\ m.of \in Runs \cup {None}
      BY <2>3
    <3> QED
      BY <1>7, <3>2, <3>3
  <2>7. CASE ToolResult(m)
    <3>1. PICK kind : chat' = [chat EXCEPT ![u] = Close(chat[u], kind, m.of)] /\ UNCHANGED streaming
      BY <2>4, <2>7 DEF ToolResult
    <3>2. Close(chat[t], kind, m.of) \in Seq(Homely(t)')
      <4>0. Homely(t)' \in SUBSET Items
        BY DEF Homely
      <4>1. PICK text : text = <<>>
        OBVIOUS
      <4>2. /\ \A x \in Homely(t)' : [x EXCEPT !.text = text] \in Homely(t)'
            /\ item("live", None, text) \in Homely(t)'
        BY <1>3, <1>4, <4>1
      <4> QED
        BY <1>1, <1>3, <4>0, <4>2, ListHomely
    <3>3. chat'[t] \in Seq(Homely(t)')
      BY <1>1, <1>4, <3>1, <3>2
    <3> QED
      BY <1>5, <3>1, <3>3
  <2>8. CASE NestedTool(m)
    <3>1. chat' = [chat EXCEPT ![u] = Nest(chat[u], m)] /\ UNCHANGED streaming /\ Piece(m)
      BY <2>4, <2>8 DEF NestedTool, Got, Piece
    <3>2. CASE u = t
      <4>1. m \in Shown(t)'
        BY <2>3, <2>4, <3>1, <3>2
      <4>2. ASSUME NEW v \in Homely(t) PROVE [v EXCEPT !.text = Append(v.text, m)] \in Homely(t)'
        <5>1. PICK text : text = Append(v.text, m)
          OBVIOUS
        <5>2. v.text \in Seq(Shown(t)) /\ IsInjective(v.text)
          BY DEF Homely
        <5>3. text \in Seq(Shown(t)') /\ IsInjective(text)
          BY <1>1, <2>3, <4>1, <5>1, <5>2, WiderSeq, AppendTyped, NewcomerInjective
        <5>4. v \in Homely(t)'
          BY <1>1
        <5> QED
          BY <1>3, <5>1, <5>3, <5>4
      <4>3. Nest(chat[t], m) \in Seq(Homely(t)')
        BY <1>1, <4>2, NestHomely
      <4>4. chat'[t] \in Seq(Homely(t)')
        BY <1>4, <3>1, <3>2, <4>3
      <4> QED
        BY <1>5, <3>1, <4>4
    <3>3. CASE u # t
      BY <1>4, <1>6, <3>1, <3>3
    <3> QED
      BY <3>2, <3>3
  <2>9. CASE RunError(m)
    <3>1. m.of \in Runs \cup {None} /\ Adds(u, "system", m.of)
      BY <2>3, <2>4, <2>9 DEF RunError, Adds
    <3> QED
      BY <1>7, <3>1
  <2>10. CASE Done(m)
    <3>1. streaming'[t] \in {streaming[t], <<>>} /\ chat' = chat
      BY <1>4, <2>10 DEF Done
    <3> QED
      BY <1>6, <3>1
  <2>11. CASE SessionID(m)
    BY <1>6, <2>11 DEF SessionID
  <2>12. CASE Error(m)
    <3>1. m.of \in Runs \cup {None} /\ Adds(Here, "error", m.of)
      BY <2>3, <2>12 DEF Error, ShowError, Adds
    <3> QED
      BY <1>7, <3>1
  <2> QED
    BY <2>1, <2>5, <2>6, <2>7, <2>8, <2>9, <2>10, <2>11, <2>12
<1> QED
  BY <1>8, <1>9, <1>10, <1>11, <1>12 DEF Next, Key

LEMMA ShownHome == TypeOK /\ ShownInv => AtHome
<1> SUFFICES ASSUME TypeOK, ShownInv, NEW t \in TabIds, NEW i \in DOMAIN chat[t]
             PROVE  /\ chat[t][i].kind # "error" /\ chat[t][i].of # None => run[chat[t][i].of].tab = t
                    /\ \A k \in DOMAIN chat[t][i].text : run[chat[t][i].text[k].of].tab = t
                    /\ IsInjective(chat[t][i].text)
  BY DEF AtHome
<1>1. chat[t] \in Seq(Homely(t))
  BY DEF ShownInv
<1>2. PICK x \in Homely(t) : x = chat[t][i]
  BY <1>1, MemberOf
<1>3. /\ x.kind # "error" /\ x.of # None => run[x.of].tab = t
      /\ x.text \in Seq(Shown(t)) /\ IsInjective(x.text)
  BY DEF Homely
<1>4. \A k \in DOMAIN x.text : x.text[k] \in Shown(t)
  BY <1>3, MemberOf
<1> QED
  BY <1>2, <1>3, <1>4 DEF Shown

(* Alone, a waiter's message is younger than all that is shown.            *)
AloneInv == ~crowded =>
  /\ \A m, w \in taken : m = w
  /\ \A t \in TabIds : Ascending(streaming[t]) /\ \A m \in taken : streaming[t] \in Seq(Before(m))

LEMMA AloneKept == TypeOK /\ HomeInv /\ LineInv /\ ShownInv /\ AloneInv /\ [Next]_vars => AloneInv'
<1> SUFFICES ASSUME TypeOK, HomeInv, LineInv, ShownInv, AloneInv, [Next]_vars, ~crowded'
             PROVE  /\ \A m, w \in taken' : m = w
                    /\ \A t \in TabIds : /\ Ascending(streaming'[t])
                                         /\ \A m \in taken' : streaming'[t] \in Seq(Before(m))
  BY DEF AloneInv, Ascending
<1>1. /\ streaming \in [TabIds -> Seq(Messages)] /\ ch \in Seq(Messages) /\ taken \subseteq Messages
      /\ <<>> \in Seq({}) /\ Ascending(<<>>)
  BY OneAscends DEF TypeOK, ScreenTypes, WireTypes
<1>2. CASE Take
  <2>1. ~crowded /\ taken' = {Head(ch)} /\ UNCHANGED streaming /\ ch # <<>>
    BY <1>2 DEF Take, screen
  <2>2. PICK h \in Messages : h = Head(ch) /\ \A m \in Past : h \in After(m)
    BY <1>1, <1>2, <2>1, EndsTyped, LineTaken
  <2>3. ASSUME NEW t \in TabIds PROVE streaming[t] \in Seq(Before(h))
    <3>1. streaming[t] \in Seq(Shown(t))
      BY DEF ShownInv
    <3>2. Shown(t) \in SUBSET Messages /\ \A w \in Shown(t) : h \in After(w)
      BY <2>2 DEF Shown, Past, Forwarded, Heard
    <3> QED
      BY <3>1, <3>2, OlderBefore
  <2>4. \A t \in TabIds : Ascending(streaming[t])
    BY <2>1 DEF AloneInv
  <2> QED
    BY <2>1, <2>2, <2>3, <2>4
<1>3. ASSUME crowded' = crowded, taken' \subseteq taken, NEW t \in TabIds, streaming'[t] \in {streaming[t], <<>>}
      PROVE  Ascending(streaming'[t]) /\ \A m \in taken' : streaming'[t] \in Seq(Before(m))
  <2>1. \A S : <<>> \in Seq(S)
    OBVIOUS
  <2> QED
    BY <1>1, <1>3, <2>1 DEF AloneInv
<1>4. ASSUME crowded' = crowded, taken' \subseteq taken,
             \A t \in TabIds : streaming'[t] \in {streaming[t], <<>>}
      PROVE  /\ \A m, w \in taken' : m = w
             /\ \A t \in TabIds : /\ Ascending(streaming'[t])
                                  /\ \A m \in taken' : streaming'[t] \in Seq(Before(m))
  <2>1. \A m, w \in taken' : m = w
    BY <1>4 DEF AloneInv
  <2> QED
    BY <1>3, <1>4, <2>1
<1>5. ASSUME NEW m \in taken, TextDelta(m)
      PROVE  /\ \A v, w \in taken' : v = w
             /\ \A t \in TabIds : /\ Ascending(streaming'[t])
                                  /\ \A w \in taken' : streaming'[t] \in Seq(Before(w))
  <2>1. taken' = taken \ {m} /\ crowded' = crowded
    BY <1>5 DEF TextDelta, Got, ChatOnly
  <2>2. taken' = {}
    BY <2>1 DEF AloneInv
  <2>3. ASSUME NEW t \in TabIds PROVE Ascending(streaming'[t])
    <3>1. CASE t = TabOf(m)
      <4>1. streaming'[t] = Append(streaming[t], m)
        BY <1>1, <1>5, <3>1 DEF TextDelta
      <4>2. Ascending(streaming[t]) /\ streaming[t] \in Seq(Before(m)) /\ m \in Messages
        BY <1>1, <2>1 DEF AloneInv
      <4> QED
        BY <4>1, <4>2, AppendAscends
    <3>2. CASE t # TabOf(m)
      <4>1. streaming'[t] = streaming[t]
        BY <1>1, <1>5, <3>2 DEF TextDelta
      <4> QED
        BY <1>3, <2>1, <4>1
    <3> QED
      BY <3>1, <3>2
  <2> QED
    BY <2>2, <2>3
<1>6. ASSUME NEW m \in taken, ToolCall(m) \/ ToolResult(m) \/ NestedTool(m) \/ RunError(m)
                              \/ SessionID(m) \/ Error(m)
      PROVE  crowded' = crowded /\ taken' \subseteq taken /\ streaming' = streaming
  BY <1>6 DEF ToolCall, ToolResult, NestedTool, RunError, SessionID, Error, Got, ChatOnly
<1>7. ASSUME NEW m \in taken, Done(m)
      PROVE  crowded' = crowded /\ taken' \subseteq taken /\ \A t \in TabIds : streaming'[t] \in {streaming[t], <<>>}
  BY <1>1, <1>7 DEF Done, Got
<1>8. CASE Clear
  <2>1. crowded' = crowded /\ taken' \subseteq taken /\ \A t \in TabIds : streaming'[t] \in {streaming[t], <<>>}
    BY <1>1, <1>8 DEF Clear
  <2> QED
    BY <1>4, <2>1
<1>9. CASE Stream \/ (\E a \in asked : CancelArrives(a)) \/ Disconnect \/ Send \/ AskFails \/ Cancel \/ Switch
           \/ CloseTab \/ (\E x \in NewTabs : NewTab(x)) \/ (\E s \in Sessions : OpenSession(s))
           \/ UNCHANGED vars
  <2>1. UNCHANGED <<streaming, taken, crowded>>
    BY <1>9 DEF Stream, HandOver, Request, RequestFails, ReadEvent, ReadResponse, ForwardEvent, ForwardResponse,
      Return, CancelArrives, Disconnect, Send, AskFails, Cancel, Switch, CloseTab, NewTab, OpenSession, vars, screen
  <2> QED
    BY <1>4, <2>1
<1> QED
  BY <1>2, <1>4, <1>5, <1>6, <1>7, <1>8, <1>9 DEF Next, Key, Update

LEMMA AloneOrdered == TypeOK /\ ShownInv /\ AloneInv => OrderedAlone
<1> SUFFICES ASSUME TypeOK, ShownInv, AloneInv, ~crowded, NEW t \in TabIds,
                    NEW i \in DOMAIN streaming[t], NEW j \in DOMAIN streaming[t], i < j,
                    streaming[t][i].of = streaming[t][j].of
             PROVE  streaming[t][i].n < streaming[t][j].n
  BY DEF OrderedAlone, InOrder
<1>1. streaming[t] \in Seq(Shown(t))
  BY DEF ShownInv
<1>2. Piece(streaming[t][i]) /\ Piece(streaming[t][j])
  BY <1>1, MemberOf DEF Shown
<1>3. Follows(streaming[t][i], streaming[t][j])
  BY DEF AloneInv, Ascending
<1> QED
  BY <1>2, <1>3 DEF Follows

-----------------------------------------------------------------------------
(* The sessions of the tabs.                                               *)

OwnTabs == {x \in Tabs : x.sid # None => OwnSession(x.id, x.sid)}

SessionInv ==
  /\ tabs \in Seq(OwnTabs)
  /\ \A a \in asked : OwnSession(a.tab, a.sid)

LEMMA OwnKept ==
  ASSUME TypeOK, HomeInv, [Next]_vars
  PROVE  /\ \A t, s : s # None /\ OwnSession(t, s) => OwnSession(t, s)'
         /\ OwnTabs \subseteq OwnTabs'
<1>1. ASSUME NEW t, NEW s, s # None, OwnSession(t, s) PROVE OwnSession(t, s)'
  <2>1. CASE t = s
    BY <2>1 DEF OwnSession
  <2>2. CASE t # s
    <3>1. PICK r \in Runs : run[r].st # "idle" /\ run[r].tab = t /\ run[r].sid = s
      BY <1>1, <2>2 DEF OwnSession, Open
    <3>2. run'[r].st # "idle" /\ run'[r].tab = t /\ run'[r].sid = s
      BY <1>1, <3>1, NextGoes DEF Goes
    <3> QED
      BY <3>2 DEF OwnSession, Open
  <2> QED
    BY <2>1, <2>2
<1>2. OwnTabs \subseteq OwnTabs'
  BY <1>1 DEF OwnTabs
<1> QED
  BY <1>1, <1>2

(* The place SelectInSeq returns is one where the test holds.              *)
LEMMA TabFound ==
  ASSUME NEW S, NEW q \in Seq(S), NEW id, SelectInSeq(q, LAMBDA x : x.id = id) # 0
  PROVE  LET i == SelectInSeq(q, LAMBDA x : x.id = id) IN i \in DOMAIN q /\ q[i].id = id
<1> DEFINE I == {i \in 1 .. Len(q) : q[i].id = id}
<1>1. I # {} /\ SelectInSeq(q, LAMBDA x : x.id = id) = Min(I)
  BY DEF SelectInSeq
<1>2. I \in SUBSET Nat /\ I \subseteq DOMAIN q /\ \A i \in I : q[i].id = id
  OBVIOUS
<1>3. Min(I) \in I
  <2> HIDE DEF I
  <2> QED
    BY <1>1, <1>2, MinIsMember
<1> HIDE DEF I
<1> QED
  BY <1>1, <1>2, <1>3

LEMMA SessionKept == TypeOK /\ HomeInv /\ SessionInv /\ [Next]_vars => SessionInv'
<1> SUFFICES ASSUME TypeOK, HomeInv, SessionInv, [Next]_vars PROVE SessionInv'
  OBVIOUS
<1>1. /\ tabs \in Seq(OwnTabs) /\ tabs \in Seq(OwnTabs') /\ active \in DOMAIN tabs /\ OwnTabs \subseteq OwnTabs'
      /\ OwnTabs \subseteq Tabs
  BY OwnKept, WiderSeq DEF SessionInv, TypeOK, ScreenTypes, OwnTabs
<1>2. \A a \in asked : OwnSession(a.tab, a.sid)'
  <2> SUFFICES ASSUME NEW a \in asked PROVE OwnSession(a.tab, a.sid)'
    OBVIOUS
  <2>1. a.sid # None
    BY MainIsTab DEF TypeOK, WireTypes
  <2> QED
    BY <2>1, OwnKept DEF SessionInv
<1>3. ASSUME tabs' \in Seq(OwnTabs'), asked' \subseteq asked PROVE SessionInv'
  BY <1>2, <1>3 DEF SessionInv
<1>4. CASE Cancel
  <2>1. tabs' = tabs
    BY <1>4 DEF Cancel, screen
  <2>2. PICK x \in OwnTabs : x = tabs[active]
    BY <1>1, MemberOf
  <2>3. asked' = IF x.sid = None THEN asked ELSE asked \cup {[tab |-> x.id, sid |-> x.sid]}
    BY <1>4, <2>2 DEF Cancel, Here
  <2>4. x.sid # None => OwnSession(x.id, x.sid)'
    BY OwnKept DEF OwnTabs
  <2>5. \A a \in asked' : OwnSession(a.tab, a.sid)'
    BY <1>2, <2>3, <2>4
  <2> QED
    BY <1>1, <2>1, <2>5 DEF SessionInv
<1>5. CASE CloseTab
  <2>1. active \in DOMAIN tabs /\ tabs' = RemoveAt(tabs, active) /\ asked' = asked
    BY <1>1, <1>5 DEF CloseTab, wire
  <2>2. tabs' \in Seq(OwnTabs')
    BY <1>1, <2>1, RemovedTyped
  <2> QED
    BY <1>3, <2>1, <2>2
<1>6. ASSUME NEW t \in NewTabs, NewTab(t) PROVE SessionInv'
  <2>1. [id |-> t, sid |-> None] \in OwnTabs'
    BY MainIsTab DEF OwnTabs, Tabs, Sids
  <2> QED
    BY <1>1, <1>3, <1>6, <2>1, AppendTyped DEF NewTab, wire
<1>7. ASSUME NEW s \in Sessions, OpenSession(s) PROVE SessionInv'
  <2>1. [id |-> s, sid |-> s] \in OwnTabs'
    BY MainIsTab DEF OwnTabs, Tabs, Sids, OwnSession
  <2>2. tabs' = tabs \/ tabs' = Append(tabs, [id |-> s, sid |-> s])
    BY <1>7 DEF OpenSession
  <2>3. tabs' \in Seq(OwnTabs')
    BY <1>1, <2>1, <2>2, AppendTyped
  <2> QED
    BY <1>3, <1>7, <2>3 DEF OpenSession, wire
<1>8. ASSUME NEW m \in taken, SessionID(m) PROVE SessionInv'
  <2>1. PICK t, s : t = TabOf(m) /\ s = run[m.of].sid
    OBVIOUS
  <2>2. m.of \in Runs /\ run[m.of].st # "idle" /\ run' = run /\ asked' = asked
    BY <1>8 DEF HomeInv, Heard, Spoken, Messages, SessionID, wire
  <2>3. s \in Sids /\ (s # None => OwnSession(t, s))
    BY <2>1, <2>2 DEF TypeOK, WireTypes, RunStates, OwnSession, Open, TabOf
  <2>4. s # None => OwnSession(t, s)'
    BY <2>3, OwnKept
  <2>5. CASE SelectInSeq(tabs, LAMBDA x : x.id = TabOf(m)) = 0
    <3>1. tabs' = tabs
      BY <1>8, <2>5 DEF SessionID
    <3> QED
      BY <1>1, <1>3, <2>2, <3>1
  <2>6. CASE SelectInSeq(tabs, LAMBDA x : x.id = TabOf(m)) # 0
    <3>1. PICK i \in DOMAIN tabs : tabs[i].id = t /\ tabs' = [tabs EXCEPT ![i].sid = s]
      <4>1. SelectInSeq(tabs, LAMBDA x : x.id = t) # 0
        BY <2>1, <2>6
      <4>2. LET i == SelectInSeq(tabs, LAMBDA x : x.id = t) IN i \in DOMAIN tabs /\ tabs[i].id = t
        BY <1>1, <4>1, TabFound
      <4>3. LET i == SelectInSeq(tabs, LAMBDA x : x.id = t) IN tabs' = [tabs EXCEPT ![i].sid = s]
        BY <1>8, <2>1, <2>6 DEF SessionID
      <4> QED
        BY <4>2, <4>3
    <3>2. tabs[i] \in Tabs
      BY <1>1, MemberOf
    <3>3. PICK v : v = [tabs[i] EXCEPT !.sid = s]
      OBVIOUS
    <3>4. v \in OwnTabs'
      BY <2>3, <2>4, <3>1, <3>2, <3>3 DEF OwnTabs, Tabs
    <3>5. tabs' = [tabs EXCEPT ![i] = v]
      BY <3>1, <3>3
    <3>6. tabs' \in Seq(OwnTabs')
      BY <1>1, <3>4, <3>5, ReplacedTyped
    <3> QED
      BY <1>3, <2>2, <3>6
  <2> QED
    BY <2>5, <2>6
<1>9. ASSUME NEW m \in taken, TextDelta(m) \/ ToolCall(m) \/ ToolResult(m) \/ NestedTool(m) \/ RunError(m)
                              \/ Done(m) \/ Error(m)
      PROVE SessionInv'
  <2>1. tabs' = tabs /\ asked' = asked
    BY <1>9 DEF TextDelta, ToolCall, ToolResult, NestedTool, RunError, Done, Error, ChatOnly, wire
  <2> QED
    BY <1>1, <1>3, <2>1
<1>10. CASE Stream \/ Take \/ (\E a \in asked : CancelArrives(a)) \/ Disconnect \/ Send \/ Clear \/ AskFails
            \/ Switch \/ UNCHANGED vars
  <2>1. tabs' = tabs /\ asked' \subseteq asked
    BY <1>10 DEF Stream, HandOver, Request, RequestFails, ReadEvent, ReadResponse, ForwardEvent, ForwardResponse,
      Return, Take, CancelArrives, Disconnect, Send, Clear, AskFails, Switch, vars, screen, wire
  <2> QED
    BY <1>1, <1>3, <2>1
<1> QED
  BY <1>4, <1>5, <1>6, <1>7, <1>8, <1>9, <1>10 DEF Next, Key, Update

LEMMA OwnAtHome == SessionInv => SessionsAtHome
<1> SUFFICES ASSUME SessionInv PROVE SessionsAtHome
  OBVIOUS
<1>1. \A i \in DOMAIN tabs : tabs[i] \in OwnTabs
  BY MemberOf DEF SessionInv
<1> QED
  BY <1>1 DEF SessionInv, SessionsAtHome, OwnTabs

LEMMA InitAnswers == Init => LineInv /\ ShownInv /\ AloneInv /\ SessionInv
<1> SUFFICES ASSUME Init PROVE LineInv /\ ShownInv /\ AloneInv /\ SessionInv
  OBVIOUS
<1>1. /\ Ascending(<<>>) /\ IsInjective(<<>>) /\ \A S : <<>> \in Seq(S)
  BY OneAscends, EmptyInjective
<1>2. \A r \in Runs : run[r].left = <<>> /\ out[r] = <<>>
  BY DEF Init
<1>3. LineInv
  BY <1>1, <1>2 DEF Init, LineInv
<1>4. ShownInv /\ AloneInv
  BY <1>1 DEF Init, ShownInv, AloneInv
<1>5. [id |-> Main, sid |-> None] \in OwnTabs
  BY MainIsTab DEF OwnTabs, Tabs, Sids
<1>6. SessionInv
  BY <1>5 DEF Init, SessionInv
<1> QED
  BY <1>3, <1>4, <1>6

AnswersInv == TypeOK /\ HomeInv /\ LineInv /\ ShownInv /\ AloneInv /\ SessionInv

(* Whatever the user opens, closes and switches meanwhile, however many    *)
(* turns share the channel and however the waiters overtake each other, a  *)
(* tab shows only its own turns and no piece twice, in the order sent when *)
(* no two waiters hold one at once, and goes on with its own session       *)
(* (handleStreamEvent, app.go:1305, :1408, :422).  It says nothing of the  *)
(* lines of errors, which the tab in front gets (errorMsg, app.go:499).    *)
THEOREM AnswersStayAtHome == Spec => []AnswersAtHome
<1>1. Init => AnswersInv
  BY InitTypes, InitHome, InitAnswers DEF AnswersInv
<1>2. AnswersInv /\ [Next]_vars => AnswersInv'
  <2> SUFFICES ASSUME AnswersInv, [Next]_vars PROVE AnswersInv'
    OBVIOUS
  <2>1. TypeOK' /\ HomeInv' /\ LineInv' /\ ShownInv' /\ AloneInv' /\ SessionInv'
    BY TypesKept, HomeKept, LineKept, ShownKept, AloneKept, SessionKept DEF AnswersInv
  <2> QED
    BY <2>1 DEF AnswersInv
<1>3. AnswersInv => AnswersAtHome
  BY ShownHome, AloneOrdered, OwnAtHome DEF AnswersInv, AnswersAtHome
<1> QED
  BY <1>1, <1>2, <1>3, PTL DEF Spec
=============================================================================
