-------------------------- MODULE ApprovalsProofs ---------------------------
(***************************************************************************)
(* Theorems about Approvals, for every set of sessions, agents, runs,      *)
(* clients and calls, and every capacity and bound.                        *)
(***************************************************************************)
EXTENDS Approvals, SequenceTheorems, TLAPS

Stores == [entries : Seq(Notes), file : Seq(Notes)]
-----------------------------------------------------------------------------
(* The store of the notifications.                                         *)

LEMMA NewestType ==
  ASSUME NEW notes \in Seq(Notes)
  PROVE  Newest(notes) \in Seq(Notes) /\ Len(Newest(notes)) <= NotesCap
<1>1. Len(notes) \in Nat /\ NotesCap \in Nat \ {0}
  BY NotesAssumption, LenProperties DEF NotesAssumption
<1>2. CASE Len(notes) > NotesCap
  <2>1. \A i \in Len(notes) - NotesCap + 1 .. Len(notes) : notes[i] \in Notes
    BY <1>1, <1>2, ElementOfSeq
  <2> QED BY <1>1, <1>2, <2>1, SubSeqProperties DEF Newest
<1>3. CASE ~(Len(notes) > NotesCap)
  BY <1>1, <1>3 DEF Newest
<1> QED BY <1>2, <1>3

LEMMA AddType ==
  ASSUME NEW s \in Stores, NEW note \in Notes
  PROVE  Add(s, note) \in Stores /\ Len(Add(s, note).entries) <= NotesCap
<1>1. Append(s.entries, note) \in Seq(Notes) /\ Append(s.file, note) \in Seq(Notes)
  BY DEF Stores
<1> QED BY <1>1, NewestType DEF Add, Stores

LEMMA LoadType ==
  ASSUME NEW file \in Seq(Notes)
  PROVE  Load(file) \in Stores /\ Len(Load(file).entries) <= NotesCap
BY NewestType DEF Load, Stores

LEMMA ResolveType ==
  ASSUME NEW s \in Stores, Len(s.entries) <= NotesCap, NEW id
  PROVE  Resolve(s, id) \in Stores /\ Len(Resolve(s, id).entries) <= NotesCap
<1> DEFINE old == s.entries
           Resolved(n) == IF n.id = id THEN [n EXCEPT !.resolved = TRUE] ELSE n
           new == [i \in DOMAIN old |-> Resolved(old[i])]
<1>1. old \in Seq(Notes) /\ DOMAIN old = 1..Len(old) /\ Len(old) \in Nat
  BY LenProperties DEF Stores
<1>2. \A n \in Notes : Resolved(n) \in Notes
  BY DEF Notes
<1>3. \A i \in 1..Len(old) : Resolved(old[i]) \in Notes
  BY <1>1, <1>2, ElementOfSeq
<1>4. Resolve(s, id) = s \/ Resolve(s, id) = [entries |-> new, file |-> new]
  BY DEF Resolve, Rewrite
<1> HIDE DEF old, Resolved
<1>5. new \in [1..Len(old) -> Notes]
  BY <1>1, <1>3
<1>6. new \in Seq(Notes) /\ Len(new) = Len(old)
  BY <1>1, <1>5
<1> HIDE DEF new
<1> QED BY <1>4, <1>6 DEF Stores, old

LEMMA LostType ==
  ASSUME NEW s \in Stores
  PROVE  {n.id : n \in ToSet(s.entries)} \subseteq Requests
<1>1. \A i \in DOMAIN s.entries : s.entries[i] \in Notes
  BY DEF Stores
<1>2. \A n \in Notes : n.id \in Requests
  BY DEF Notes
<1> QED BY <1>1, <1>2 DEF ToSet
-----------------------------------------------------------------------------
LEMMA KeyType ==
  ASSUME NEW a \in Agents, NEW c \in Calls
  PROVE  Key(a, c) \in Keys
<1> DEFINE S == Agents \cup Tools \cup STRING
<1>1. c.tool \in Tools /\ c.pattern \in Seq(STRING)
  BY ApprovalsAssumption DEF ApprovalsAssumption
<1>2. c.pattern \in Seq(S)
  BY <1>1, SeqMonotonic
<1>3. <<a, c.tool>> \in Seq(S) /\ Len(<<a, c.tool>>) = 2
  BY <1>1
<1> HIDE DEF S
<1>4. /\ Key(a, c) \in Seq(S)
      /\ Len(Key(a, c)) = 2 + Len(c.pattern) /\ Len(c.pattern) \in Nat
  BY <1>2, <1>3, ConcatProperties, LenProperties DEF Key
<1>5. Key(a, c) = SubSeq(Key(a, c), 1, Len(Key(a, c)))
  BY <1>4, SubSeqFull
<1>6. Len(Key(a, c)) \in 2..Len(Key(a, c))
  BY <1>4
<1>7. Key(a, c) \in Covering(a, c)
  BY <1>5, <1>6 DEF Covering
<1> QED BY <1>7 DEF Keys
-----------------------------------------------------------------------------
LEMMA FreshType ==
  /\ \A a \in Agents, s \in Sessions : Fresh(a, s) \in RunState
  /\ \A phase \in Phases : Gone(phase) \in RunState
  /\ \A state \in RunState : NextCall(state) \in RunState
BY DEF Fresh, Gone, NextCall, RunState, NotAsked, Purposes, Phases

LEMMA AfterType ==
  ASSUME NEW state \in RunState, state.call \in Calls
  PROVE  After(state) \in RunState
<1>1. NextCall(state) \in RunState
  BY FreshType
<1>2. Extension(state.call) \subseteq {c.dir : c \in Calls}
  BY DEF Extension
<1>3. state.roots \cup Extension(state.call) \subseteq Roots \cup {c.dir : c \in Calls}
  BY <1>2 DEF RunState
<1>4. /\ Written(state) \in RunState
      /\ \A phase \in Phases : Passed(state, phase) \in RunState
  BY <1>3 DEF Written, Passed, RunState, Phases
<1> QED BY <1>1, <1>4 DEF After, Phases
-----------------------------------------------------------------------------
(* The inductive invariant of the types: a run has what its phase needs.   *)
(* Between the answer and the execution it carries the consent with it:    *)
(* the approving answer stands in its channel or in the run, and whoever   *)
(* goes on past the gate was approved or asked (Permitted).  That needs    *)
(* more than the types, so the lemmas say what a step keeps of it.         *)

Gated == {"grant", "keys", "save", "boundary", "execute"}

Covered(state, keys) == Covering(state.agent, state.call) \cap keys # {}

Placed(state) ==
  /\ state.at \notin {"idle", "over"} =>
       state.agent \in Agents /\ state.session \in Sessions
  /\ state.at \notin {"idle", "over", "model"} => state.call \in Calls
  /\ state.at \in Waiting => state.asked[state.for] \in Requests
  /\ state.at \in {"publish", "wait"} => state.answer = "none"

Permitted(state, keys, yes) ==
  /\ state.at \in Gated \/ (state.at \in Waiting /\ state.for = "write") =>
       (Dangerous(state.call) =>
          Covered(state, keys) \/ state.asked["tool"] \in yes)
  /\ state.at = "close" /\ state.answer \in Approving =>
       state.asked[state.for] \in yes
  /\ state.at = "execute" /\ ~Inside(state) => state.asked["write"] \in yes

Sound(state, keys, yes) == Placed(state) /\ Permitted(state, keys, yes)

ClientsPlaced == \A c \in Clients : client[c].at # "free" => client[c].req \in Requests

IInv == TypeOK /\ (\A r \in RunIds : Placed(run[r])) /\ ClientsPlaced

(* The approving answer that r is about to take counts as consent.         *)
Backed(r) ==
  At(r) = "wait" =>
    \A a \in Approving : answers[Asked(r)] = <<a>> => Asked(r) \in consented

(* What r becomes, with the keys of the checker, is permitted if r was.    *)
Stays(r, new, keys) ==
  /\ Placed(new)
  /\ Permitted(run[r], approved, consented) /\ Backed(r) =>
       Permitted(new, keys, consented)

(* More keys and more consent permit no less.                              *)
LEMMA PermittedGrows ==
  ASSUME NEW state, NEW keys, NEW more, keys \subseteq more,
         NEW yes, NEW others, yes \subseteq others
  PROVE  Permitted(state, keys, yes) => Permitted(state, more, others)
<1>1. Covered(state, keys) => Covered(state, more)
  BY DEF Covered
<1> QED BY <1>1 DEF Permitted

LEMMA FreshSound ==
  ASSUME NEW keys, NEW yes
  PROVE  /\ \A a \in Agents, s \in Sessions : Sound(Fresh(a, s), keys, yes)
         /\ Sound(Gone("idle"), keys, yes) /\ Sound(Gone("over"), keys, yes)
BY DEF Sound, Placed, Permitted, Fresh, Gone, Waiting, Gated

LEMMA NextCallSound ==
  ASSUME NEW state \in RunState, NEW keys, NEW yes, Placed(state),
         state.at \notin {"idle", "over"}
  PROVE  Sound(NextCall(state), keys, yes)
BY DEF Sound, Placed, Permitted, NextCall, Fresh, Waiting, Gated

LEMMA AfterSound ==
  ASSUME NEW state \in RunState, NEW keys, NEW yes, Placed(state),
         state.at = "close"
  PROVE  /\ Placed(After(state))
         /\ Permitted(state, keys, yes) => Permitted(After(state), keys, yes)
<1>1. CASE state.answer \notin Approving
  BY <1>1, NextCallSound DEF Sound, After
<1>2. CASE state.answer \in Approving /\ state.for = "write"
  <2> DEFINE new == Written(state)
  <2>1. /\ new.at = "execute" /\ new.call = state.call
        /\ new.agent = state.agent /\ new.session = state.session
        /\ new.asked = state.asked
    BY DEF RunState, Written
  <2>2. Placed(new) /\ (Permitted(state, keys, yes) => Permitted(new, keys, yes))
    BY <1>2, <2>1 DEF Placed, Permitted, Covered, Waiting, Gated
  <2> QED BY <1>2, <2>2 DEF After
<1>3. CASE state.answer \in Approving /\ state.for # "write"
  <2> DEFINE new == Passed(state, IF state.answer = "always" THEN "grant" ELSE "boundary")
  <2>1. state.for = "tool"
    BY <1>3 DEF RunState, Purposes
  <2>2. /\ new.at \in {"grant", "boundary"} /\ new.call = state.call
        /\ new.agent = state.agent /\ new.session = state.session
        /\ new.asked = state.asked
    BY DEF RunState, Passed
  <2>3. Placed(new) /\ (Permitted(state, keys, yes) => Permitted(new, keys, yes))
    BY <1>3, <2>1, <2>2 DEF Placed, Permitted, Covered, Waiting, Gated
  <2> QED BY <1>3, <2>3 DEF After
<1> QED BY <1>1, <1>2, <1>3
-----------------------------------------------------------------------------
(* What each step of a run does to it and to the permissions.              *)
RunEffect(r) ==
  /\ run' = [run EXCEPT ![r] = run'[r]]
  /\ run'[r] \in RunState
  /\ Stays(r, run'[r], approved')
  /\ approved \subseteq approved' /\ approved' \subseteq Keys
  /\ saved' \in [Sessions -> SUBSET Keys]
  /\ consented' = consented

LEMMA StartEffect ==
  ASSUME IInv, NEW r \in RunIds, NEW a \in Agents, NEW s \in Sessions, Start(r, a, s)
  PROVE  RunEffect(r)
<1>1. Fresh(a, s) \in RunState /\ Stays(r, Fresh(a, s), approved')
  BY FreshType, FreshSound DEF Stays, Sound
<1>2. run' = [run EXCEPT ![r] = Fresh(a, s)] /\ run'[r] = Fresh(a, s)
  BY DEF Start, IInv, TypeOK
<1>3. approved' = approved \cup saved[s] /\ UNCHANGED <<saved, consented>>
  BY DEF Start, aux
<1> QED BY <1>1, <1>2, <1>3 DEF RunEffect, IInv, TypeOK

LEMMA EndEffect ==
  ASSUME IInv, NEW r \in RunIds, End(r)
  PROVE  RunEffect(r)
<1>1. Gone("over") \in RunState /\ Stays(r, Gone("over"), approved')
  BY FreshType, FreshSound DEF Stays, Sound, Phases
<1>2. run' = [run EXCEPT ![r] = Gone("over")] /\ run'[r] = Gone("over")
  BY DEF End, IInv, TypeOK
<1> QED BY <1>1, <1>2 DEF End, RunEffect, IInv, TypeOK, perms, aux

LEMMA RequestEffect ==
  ASSUME IInv, NEW r \in RunIds, NEW c \in Calls, NEW purpose \in Purposes,
         At(r) \in {"model", "boundary"}, Request(r, c, purpose),
         purpose = "write" =>
           c = run[r].call /\ At(r) = "boundary"
  PROVE  RunEffect(r)
<1> DEFINE old == run[r]
           new == run'[r]
<1>1. old \in RunState /\ Placed(old)
  BY DEF IInv, TypeOK
<1>2. issued' \in Requests
  BY ApprovalsAssumption DEF IInv, TypeOK, Request, Requests, ApprovalsAssumption
<1>3. /\ run' = [run EXCEPT ![r] = new]
      /\ new = Requesting(old, c, purpose, issued')
  BY DEF Request, IInv, TypeOK
<1>4. [old.asked EXCEPT ![purpose] = issued'] \in [Purposes -> Requests \cup {NoRequest}]
  BY <1>1, <1>2 DEF RunState
<1>5. Requesting(old, c, purpose, issued') \in RunState
  BY <1>1, <1>4 DEF Requesting, RunState, Phases, Waiting
<1>6. /\ new.at = "publish" /\ new.call = c /\ new.for = purpose
      /\ new.asked[purpose] = issued' /\ new.answer = "none"
      /\ new.agent = old.agent /\ new.session = old.session
      /\ purpose = "write" => new.asked["tool"] = old.asked["tool"]
  BY <1>1, <1>3 DEF Requesting, RunState, Purposes
<1>7. UNCHANGED <<approved, saved, consented>>
  BY DEF Request, perms, aux
<1>8. Placed(new)
  BY <1>1, <1>2, <1>6 DEF At, Placed, Waiting
<1>9. Stays(r, new, approved)
  BY <1>1, <1>6, <1>8 DEF At, Stays, Permitted, Covered, Waiting, Gated
<1> QED BY <1>3, <1>5, <1>7, <1>9 DEF RunEffect, IInv, TypeOK

(* A step that moves a run on without touching the permissions.            *)
LEMMA QuietEffect ==
  ASSUME IInv, NEW r \in RunIds, NEW new \in RunState,
         run' = [run EXCEPT ![r] = new],
         Stays(r, new, approved), UNCHANGED <<approved, saved, consented>>
  PROVE  RunEffect(r)
<1>1. r \in DOMAIN run
  BY DEF IInv, TypeOK
<1>2. run'[r] = new
  BY <1>1
<1> QED BY <1>2 DEF RunEffect, IInv, TypeOK

LEMMA GotoEffect ==
  ASSUME IInv, NEW r \in RunIds, NEW phase \in Phases, Goto(r, phase),
         UNCHANGED <<approved, saved, consented>>,
         Stays(r, [run[r] EXCEPT !.at = phase], approved)
  PROVE  RunEffect(r)
<1> DEFINE new == [run[r] EXCEPT !.at = phase]
<1>1. run[r] \in RunState
  BY DEF IInv, TypeOK
<1>2. new \in RunState
  BY <1>1 DEF RunState
<1>3. run' = [run EXCEPT ![r] = new]
  BY DEF Goto, IInv, TypeOK
<1> HIDE DEF new
<1>4. Stays(r, new, approved)
  BY DEF new
<1> QED BY <1>2, <1>3, <1>4, QuietEffect

(* What a run keeps when only its phase changes.                           *)
LEMMA PhaseChange ==
  ASSUME NEW state \in RunState, NEW phase
  PROVE  LET new == [state EXCEPT !.at = phase]
         IN  /\ new.at = phase /\ new.call = state.call /\ new.for = state.for
             /\ new.agent = state.agent /\ new.session = state.session
             /\ new.asked = state.asked /\ new.answer = state.answer
             /\ new.roots = state.roots
BY DEF RunState

LEMMA AllowEffect ==
  ASSUME IInv, NEW r \in RunIds, NEW c \in Calls, Allow(r, c)
  PROVE  RunEffect(r)
<1> DEFINE old == run[r]
           new == [old EXCEPT !.at = "boundary", !.call = c]
<1>1. old \in RunState /\ Placed(old) /\ old.at = "model"
  BY DEF IInv, TypeOK, Allow, At
<1>2. new \in RunState
  BY <1>1 DEF RunState, Phases
<1>3. run' = [run EXCEPT ![r] = new]
  BY DEF Allow, IInv, TypeOK
<1>4. /\ new.at = "boundary" /\ new.call = c
      /\ new.agent = old.agent /\ new.session = old.session
  BY <1>1 DEF RunState
<1>5. Dangerous(c) => Covered(new, approved)
  BY <1>4 DEF Allow, isApproved, Covered
<1>6. Stays(r, new, approved)
  BY <1>1, <1>4, <1>5 DEF Stays, Placed, Permitted, Waiting, Gated
<1>7. UNCHANGED <<approved, saved, consented>>
  BY DEF Allow, perms, aux
<1> QED BY <1>2, <1>3, <1>6, <1>7, QuietEffect

LEMMA PublishEffect ==
  ASSUME IInv, NEW r \in RunIds, Publish(r) \/ Drop(r)
  PROVE  RunEffect(r)
<1>1. run[r] \in RunState /\ Placed(run[r]) /\ run[r].at = "publish"
  BY DEF IInv, TypeOK, Publish, Drop, At
<1>2. Stays(r, [run[r] EXCEPT !.at = "wait"], approved)
  BY <1>1, PhaseChange DEF Stays, Placed, Permitted, Covered, Waiting, Gated
<1>3. Goto(r, "wait") /\ UNCHANGED <<approved, saved, consented>>
  BY DEF Publish, Drop, perms, aux
<1> QED BY <1>2, <1>3, GotoEffect DEF Phases, Waiting

LEMMA WithinEffect ==
  ASSUME IInv, NEW r \in RunIds, WithinWorkspace(r)
  PROVE  RunEffect(r)
<1>1. /\ run[r] \in RunState /\ Placed(run[r])
      /\ run[r].at = "boundary" /\ Inside(run[r])
  BY DEF IInv, TypeOK, WithinWorkspace, At
<1>2. Inside([run[r] EXCEPT !.at = "execute"])
  BY <1>1, PhaseChange DEF Inside
<1>3. Stays(r, [run[r] EXCEPT !.at = "execute"], approved)
  BY <1>1, <1>2, PhaseChange DEF Stays, Placed, Permitted, Covered, Waiting, Gated
<1>4. Goto(r, "execute") /\ UNCHANGED <<approved, saved, consented>>
  BY DEF WithinWorkspace, perms, aux
<1> QED BY <1>3, <1>4, GotoEffect DEF Phases

LEMMA GiveUpEffect ==
  ASSUME IInv, NEW r \in RunIds, GiveUp(r)
  PROVE  RunEffect(r)
<1>1. run[r] \in RunState /\ Placed(run[r]) /\ run[r].at = "wait"
  BY DEF IInv, TypeOK, GiveUp, At
<1>2. Stays(r, [run[r] EXCEPT !.at = "close"], approved)
  BY <1>1, PhaseChange DEF Stays, Placed, Permitted, Covered, Waiting, Gated, Approving
<1>3. Goto(r, "close") /\ UNCHANGED <<approved, saved, consented>>
  BY DEF GiveUp, perms
<1> QED BY <1>2, <1>3, GotoEffect DEF Phases, Waiting

LEMMA TakeEffect ==
  ASSUME IInv, NEW r \in RunIds, TakeAnswer(r)
  PROVE  RunEffect(r)
<1> DEFINE old == run[r]
           q == Asked(r)
           new == [old EXCEPT !.at = "close", !.answer = Head(answers[q])]
<1>1. old \in RunState /\ Placed(old) /\ old.at = "wait"
  BY DEF IInv, TypeOK, TakeAnswer, At
<1>2. q \in Requests /\ q = old.asked[old.for]
  BY <1>1 DEF Asked, Placed, Waiting
<1>3. PICK a \in Answers : answers[q] = <<a>>
  BY <1>2 DEF IInv, TypeOK, TakeAnswer
<1>4. Head(answers[q]) = a
  BY <1>3
<1>5. new \in RunState
  BY <1>1, <1>4 DEF RunState, Phases, Waiting
<1>6. /\ new.at = "close" /\ new.answer = a /\ new.call = old.call
      /\ new.for = old.for /\ new.asked = old.asked
      /\ new.agent = old.agent /\ new.session = old.session
  BY <1>1, <1>4 DEF RunState
<1>7. Backed(r) /\ a \in Approving => q \in consented
  BY <1>1, <1>3 DEF Backed, At
<1>8. Stays(r, new, approved)
  BY <1>1, <1>2, <1>6, <1>7 DEF Stays, Placed, Permitted, Covered, Waiting, Gated
<1>9. run' = [run EXCEPT ![r] = new] /\ UNCHANGED <<approved, saved, consented>>
  BY DEF TakeAnswer, perms, aux, IInv, TypeOK
<1> QED BY <1>5, <1>8, <1>9, QuietEffect

LEMMA CloseEffect ==
  ASSUME IInv, NEW r \in RunIds, Close(r)
  PROVE  RunEffect(r)
<1>1. run[r] \in RunState /\ Placed(run[r]) /\ run[r].at = "close"
  BY DEF IInv, TypeOK, Close, At
<1>2. After(run[r]) \in RunState
  BY <1>1, AfterType DEF Placed
<1>3. Stays(r, After(run[r]), approved)
  BY <1>1, AfterSound DEF Stays
<1>4. run' = [run EXCEPT ![r] = After(run[r])] /\ UNCHANGED <<approved, saved, consented>>
  BY DEF Close, perms, aux, IInv, TypeOK
<1> QED BY <1>2, <1>3, <1>4, QuietEffect

LEMMA ExecuteEffect ==
  ASSUME IInv, NEW r \in RunIds, Execute(r)
  PROVE  RunEffect(r)
<1>1. run[r] \in RunState /\ Placed(run[r]) /\ run[r].at = "execute"
  BY DEF IInv, TypeOK, Execute, At
<1>2. NextCall(run[r]) \in RunState /\ Stays(r, NextCall(run[r]), approved)
  BY <1>1, FreshType, NextCallSound DEF Stays, Sound
<1>3. run' = [run EXCEPT ![r] = NextCall(run[r])] /\ UNCHANGED <<approved, saved, consented>>
  BY DEF Execute, perms, aux, IInv, TypeOK
<1> QED BY <1>2, <1>3, QuietEffect

LEMMA GrantEffect ==
  ASSUME IInv, NEW r \in RunIds, Grant(r)
  PROVE  RunEffect(r)
<1> DEFINE new == [run[r] EXCEPT !.at = "keys"]
<1>1. run[r] \in RunState /\ Placed(run[r]) /\ run[r].at = "grant"
  BY DEF IInv, TypeOK, Grant, At
<1>2. Key(run[r].agent, run[r].call) \in Keys
  BY <1>1, KeyType DEF Placed
<1>3. approved \subseteq approved' /\ approved' \subseteq Keys
  BY <1>2 DEF Grant, IInv, TypeOK
<1>4. Permitted(run[r], approved, consented) => Permitted(run[r], approved', consented)
  BY <1>3, PermittedGrows
<1>5. new \in RunState
  BY <1>1 DEF RunState, Phases
<1>6. Stays(r, new, approved')
  BY <1>1, <1>4, PhaseChange DEF Stays, Placed, Permitted, Covered, Waiting, Gated
<1>7. run' = [run EXCEPT ![r] = new] /\ run'[r] = new
  BY DEF Grant, Goto, IInv, TypeOK
<1> QED BY <1>3, <1>5, <1>6, <1>7 DEF RunEffect, Grant, aux, IInv, TypeOK

LEMMA KeysEffect ==
  ASSUME IInv, NEW r \in RunIds, ApprovedKeys(r)
  PROVE  RunEffect(r)
<1> DEFINE old == run[r]
           new == [old EXCEPT !.at = "save", !.keys = approved]
<1>1. old \in RunState /\ Placed(old) /\ old.at = "keys"
  BY DEF IInv, TypeOK, ApprovedKeys, At
<1>2. approved \subseteq Keys
  BY DEF IInv, TypeOK
<1>3. new \in RunState
  BY <1>1, <1>2 DEF RunState, Phases
<1>4. /\ new.at = "save" /\ new.call = old.call /\ new.agent = old.agent
      /\ new.session = old.session /\ new.asked = old.asked
  BY <1>1 DEF RunState
<1>5. Stays(r, new, approved)
  BY <1>1, <1>4 DEF Stays, Placed, Permitted, Covered, Waiting, Gated
<1>6. run' = [run EXCEPT ![r] = new] /\ UNCHANGED <<approved, saved, consented>>
  BY DEF ApprovedKeys, perms, aux, IInv, TypeOK
<1> QED BY <1>3, <1>5, <1>6, QuietEffect

LEMMA SaveEffect ==
  ASSUME IInv, NEW r \in RunIds, SavePatterns(r)
  PROVE  RunEffect(r)
<1> DEFINE old == run[r]
           new == [old EXCEPT !.at = "boundary", !.keys = {}]
<1>1. old \in RunState /\ Placed(old) /\ old.at = "save"
  BY DEF IInv, TypeOK, SavePatterns, At
<1>2. new \in RunState /\ old.keys \in SUBSET Keys
  BY <1>1 DEF RunState, Phases
<1>3. /\ new.at = "boundary" /\ new.call = old.call /\ new.agent = old.agent
      /\ new.session = old.session /\ new.asked = old.asked
  BY <1>1 DEF RunState
<1>4. Stays(r, new, approved)
  BY <1>1, <1>3 DEF Stays, Placed, Permitted, Covered, Waiting, Gated
<1>5. r \in DOMAIN run
  BY DEF IInv, TypeOK
<1>6. run' = [run EXCEPT ![r] = new] /\ run'[r] = new
  BY <1>5 DEF SavePatterns
<1>7. saved' \in [Sessions -> SUBSET Keys]
  BY <1>2 DEF SavePatterns, IInv, TypeOK
<1>8. approved' = approved /\ consented' = consented /\ approved \subseteq Keys
  BY DEF SavePatterns, aux, IInv, TypeOK
<1> QED BY <1>2, <1>4, <1>6, <1>7, <1>8 DEF RunEffect

LEMMA RunStepEffect ==
  ASSUME IInv, NEW r \in RunIds, RunStep(r)
  PROVE  RunEffect(r)
<1>1. ASSUME NEW c \in Calls, Prompt(r, c) PROVE RunEffect(r)
  BY <1>1, RequestEffect DEF Prompt, Purposes
<1>2. ASSUME OutsideWorkspace(r) PROVE RunEffect(r)
  <2>1. run[r].call \in Calls
    BY <1>2 DEF OutsideWorkspace, At, IInv, Placed
  <2> QED BY <1>2, <2>1, RequestEffect DEF OutsideWorkspace, Purposes
<1> QED BY <1>1, <1>2, StartEffect, EndEffect, AllowEffect, WithinEffect,
           ExecuteEffect, PublishEffect, TakeEffect, GiveUpEffect, CloseEffect,
           GrantEffect, KeysEffect, SaveEffect DEF RunStep
-----------------------------------------------------------------------------
(* The gate, the desk and the clients.                                     *)
GateOK ==
  /\ issued \in 0..MaxRequests /\ crashes \in 0..MaxCrashes
  /\ pending \subseteq Requests /\ consented \subseteq Requests
  /\ lost \subseteq Requests /\ abandoned \subseteq Requests
  /\ ruled \subseteq Requests /\ granted \subseteq Sessions \X Keys
  /\ answers \in [Requests -> {<<>>} \cup {<<a>> : a \in Answers}]

BusOK == bus \in Seq(Requests) /\ Len(bus) <= BusCap

DeskOK ==
  /\ herald \in Requests \cup {NoRequest}
  /\ told \in [Terminals -> SUBSET Requests]
  /\ store \in Stores /\ Len(store.entries) <= NotesCap

ClientsOK ==
  /\ client \in [Clients -> [at : {"free", "send", "resolve"},
                             req : Requests \cup {NoRequest}]]
  /\ ClientsPlaced

RestOK == GateOK /\ BusOK /\ DeskOK /\ ClientsOK

LEMMA RestOfIInv == IInv => RestOK
BY DEF IInv, TypeOK, RestOK, GateOK, BusOK, DeskOK, ClientsOK, Stores

LEMMA RunStepRest ==
  ASSUME IInv, NEW r \in RunIds, RunStep(r)
  PROVE  RestOK'
<1> USE RestOfIInv DEF RestOK
<1>1. At(r) \in Waiting => Asked(r) \in Requests
  BY DEF IInv, Placed, At, Asked
<1>2. \/ UNCHANGED gate
      \/ At(r) = "close" /\ pending' \subseteq pending /\ UNCHANGED <<answers, issued>>
      \/ /\ At(r) = "wait" /\ answers[Asked(r)] # <<>>
         /\ answers' = [answers EXCEPT ![Asked(r)] = Tail(@)]
         /\ UNCHANGED <<pending, issued>>
      \/ /\ issued < MaxRequests /\ issued' = issued + 1
         /\ pending' = pending \cup {issued'} /\ UNCHANGED answers
  BY DEF RunStep, Start, End, Allow, Prompt, Request, WithinWorkspace, gate,
         OutsideWorkspace, Execute, Publish, Drop, TakeAnswer, GiveUp, Close,
         Grant, ApprovedKeys, SavePatterns
<1>3. /\ UNCHANGED <<crashes, consented, ruled, granted, herald, told, store, client>>
      /\ \/ UNCHANGED <<lost, abandoned>>
         \/ At(r) = "publish" /\ lost' = lost \cup {Asked(r)} /\ UNCHANGED abandoned
         \/ At(r) = "wait" /\ abandoned' = abandoned \cup {Asked(r)} /\ UNCHANGED lost
      /\ \/ UNCHANGED bus
         \/ At(r) = "publish" /\ Len(bus) < BusCap /\ bus' = Append(bus, Asked(r))
  BY DEF RunStep, Start, End, Allow, Prompt, Request, WithinWorkspace, desk, aux,
         OutsideWorkspace, Execute, Publish, Drop, TakeAnswer, GiveUp, Close,
         Grant, ApprovedKeys, SavePatterns
<1>4. DeskOK' /\ ClientsOK'
  BY <1>3 DEF DeskOK, ClientsOK, ClientsPlaced
<1>5. BusOK'
  <2>1. CASE UNCHANGED bus
    BY <2>1 DEF BusOK
  <2>2. CASE At(r) = "publish" /\ Len(bus) < BusCap /\ bus' = Append(bus, Asked(r))
    <3>1. Asked(r) \in Requests /\ BusCap \in Nat
      BY <1>1, <2>2, ApprovalsAssumption DEF Waiting, ApprovalsAssumption
    <3> QED BY <2>2, <3>1, AppendProperties, LenProperties DEF BusOK
  <2> QED BY <1>3, <2>1, <2>2
<1>6. GateOK'
  <2>1. lost' \subseteq Requests /\ abandoned' \subseteq Requests
        /\ consented' \subseteq Requests /\ crashes' \in 0..MaxCrashes
        /\ ruled' \subseteq Requests /\ granted' \subseteq Sessions \X Keys
    BY <1>1, <1>3 DEF GateOK, Waiting
  <2>2. issued' \in 0..MaxRequests /\ pending' \subseteq Requests
    BY <1>2, ApprovalsAssumption DEF GateOK, gate, Requests, ApprovalsAssumption
  <2>3. answers' \in [Requests -> {<<>>} \cup {<<a>> : a \in Answers}]
    <3>1. CASE UNCHANGED answers
      BY <3>1 DEF GateOK
    <3>2. CASE /\ At(r) = "wait" /\ answers[Asked(r)] # <<>>
               /\ answers' = [answers EXCEPT ![Asked(r)] = Tail(@)]
      <4>1. Asked(r) \in Requests
        BY <1>1, <3>2 DEF Waiting
      <4>2. PICK a \in Answers : answers[Asked(r)] = <<a>>
        BY <3>2, <4>1 DEF GateOK
      <4>3. answers' = [answers EXCEPT ![Asked(r)] = <<>>]
        BY <3>2, <4>2
      <4> QED BY <4>3 DEF GateOK
    <3> QED BY <1>2, <3>1, <3>2 DEF gate
  <2> QED BY <2>1, <2>2, <2>3 DEF GateOK
<1> QED BY <1>4, <1>5, <1>6

LEMMA KeepOK ==
  ASSUME RestOK, NEW new \in Stores, Len(new.entries) <= NotesCap, Keep(new)
  PROVE  store' \in Stores /\ Len(store'.entries) <= NotesCap /\ lost' \subseteq Requests
BY LostType DEF Keep, RestOK, GateOK, DeskOK

LEMMA MakeNoteRest ==
  ASSUME RestOK, MakeNote
  PROVE  RestOK'
<1> DEFINE note == Note(Head(bus))
<1>1. Head(bus) \in Requests /\ bus' \in Seq(Requests) /\ Len(bus') <= BusCap
  <2>1. Len(bus) \in Nat /\ Len(Tail(bus)) = Len(bus) - 1 /\ BusCap \in Nat
    BY HeadTailProperties, LenProperties, ApprovalsAssumption
       DEF MakeNote, RestOK, BusOK, ApprovalsAssumption
  <2> QED BY <2>1, HeadTailProperties DEF MakeNote, RestOK, BusOK
<1>2. note \in Notes
  BY <1>1 DEF Note, Notes
<1>3. store \in Stores
  BY DEF RestOK, DeskOK
<1>4. Keep(Add(store, note))
  BY DEF MakeNote
<1>5. store' \in Stores /\ Len(store'.entries) <= NotesCap /\ lost' \subseteq Requests
  BY <1>2, <1>3, <1>4, AddType, KeepOK
<1>6. /\ herald' \in Requests
      /\ UNCHANGED <<issued, crashes, pending, consented, ruled, granted, abandoned, answers, told, client>>
  BY <1>1 DEF MakeNote, gate, aux
<1> QED BY <1>1, <1>5, <1>6
        DEF RestOK, GateOK, BusOK, DeskOK, ClientsOK, ClientsPlaced

LEMMA TellRest ==
  ASSUME RestOK, Tell
  PROVE  RestOK'
<1>1. herald \in Requests /\ told \in [Terminals -> SUBSET Requests]
  BY DEF RestOK, DeskOK, Tell
<1>2. told' \in [Terminals -> SUBSET Requests] /\ herald' = NoRequest
  BY <1>1 DEF Tell
<1>3. UNCHANGED <<issued, crashes, pending, consented, ruled, granted, abandoned, lost, answers, bus,
                  store, client>>
  BY DEF Tell, gate, aux
<1> QED BY <1>2, <1>3
        DEF RestOK, GateOK, BusOK, DeskOK, ClientsOK, ClientsPlaced

LEMMA ClientRest ==
  ASSUME IInv, NEW c \in Clients, ClientStep(c)
  PROVE  RestOK'
<1> USE RestOfIInv DEF RestOK
<1>1. ASSUME NEW q \in Requests, c \in Terminals, Respond(c, q)
      PROVE  RestOK'
  <2>1. told' \in [Terminals -> SUBSET Requests]
    BY <1>1 DEF Respond, DeskOK
  <2>2. ClientsOK'
    BY <1>1 DEF Respond, ClientsOK, ClientsPlaced
  <2>3. UNCHANGED <<issued, crashes, pending, consented, ruled, granted, abandoned, lost, answers,
                    bus, herald, store>>
    BY <1>1 DEF Respond, gate, aux
  <2> QED BY <2>1, <2>2, <2>3 DEF GateOK, BusOK, DeskOK
<1>2. ASSUME NEW q \in Requests, Act(c, q)
      PROVE  RestOK'
  <2>1. ClientsOK'
    BY <1>2 DEF Act, ClientsOK, ClientsPlaced
  <2>2. UNCHANGED <<issued, crashes, pending, consented, ruled, granted, abandoned, lost, answers,
                    bus, herald, told, store>>
    BY <1>2 DEF Act, gate, desk, aux
  <2> QED BY <2>1, <2>2 DEF GateOK, BusOK, DeskOK
<1>3. ASSUME NEW a \in Answers, Send(c, a)
      PROVE  RestOK'
  <2> DEFINE q == client[c].req
  <2>1. q \in Requests
    BY <1>3 DEF Send, ClientsOK, ClientsPlaced
  <2>2. answers' = [answers EXCEPT ![q] = <<a>>]
    BY <1>3 DEF Send
  <2>3. answers' \in [Requests -> {<<>>} \cup {<<b>> : b \in Answers}]
    BY <2>2 DEF GateOK
  <2>4. Standing(q) \subseteq Sessions \X Keys
    <3>1. ASSUME NEW r \in RunIds, Unanswered(r, q)
          PROVE  <<run[r].session, Key(run[r].agent, run[r].call)>> \in Sessions \X Keys
      BY <3>1, KeyType DEF Unanswered, At, IInv, Placed
    <3> QED BY <3>1 DEF Standing
  <2>5. /\ consented' \subseteq Requests /\ ruled' \subseteq Requests
        /\ granted' \subseteq Sessions \X Keys
    BY <1>3, <2>1, <2>4 DEF Send, Rule, GateOK
  <2>6. ClientsOK'
    BY <1>3, <2>1 DEF Send, ClientsOK, ClientsPlaced
  <2>7. UNCHANGED <<issued, crashes, pending, abandoned, lost, bus, herald, told, store>>
    BY <1>3 DEF Send, desk
  <2> QED BY <2>3, <2>5, <2>6, <2>7 DEF GateOK, BusOK, DeskOK
<1>4. ASSUME ResolveNote(c) PROVE RestOK'
  <2> DEFINE new == IF c \in Inboxes \/ \E n \in Pending(store) : n.id = client[c].req
                    THEN Resolve(store, client[c].req) ELSE store
  <2>1. new \in Stores /\ Len(new.entries) <= NotesCap
    BY ResolveType DEF DeskOK
  <2>2. Keep(new)
    BY <1>4 DEF ResolveNote
  <2> HIDE DEF new
  <2>3. store' \in Stores /\ Len(store'.entries) <= NotesCap /\ lost' \subseteq Requests
    BY <2>1, <2>2, KeepOK
  <2>4. ClientsOK'
    BY <1>4 DEF ResolveNote, ClientsOK, ClientsPlaced, Free
  <2>5. UNCHANGED <<issued, crashes, pending, consented, ruled, granted, abandoned, answers,
                    bus, herald, told>>
    BY <1>4 DEF ResolveNote, gate, aux
  <2> QED BY <2>3, <2>4, <2>5 DEF GateOK, BusOK, DeskOK
<1> QED BY <1>1, <1>2, <1>3, <1>4 DEF ClientStep

LEMMA CrashRest ==
  ASSUME RestOK, Crash
  PROVE  RestOK'
<1>1. store' \in Stores /\ Len(store'.entries) <= NotesCap /\ lost' \subseteq Requests
  BY LoadType, KeepOK DEF Crash, RestOK, DeskOK, Stores
<1>2. GateOK'
  BY <1>1, ApprovalsAssumption
     DEF Crash, RestOK, GateOK, Requests, ApprovalsAssumption
<1>3. BusOK'
  BY ApprovalsAssumption DEF Crash, BusOK, ApprovalsAssumption
<1>4. DeskOK' /\ ClientsOK'
  BY <1>1 DEF Crash, DeskOK, ClientsOK, ClientsPlaced, Free
<1> QED BY <1>2, <1>3, <1>4 DEF RestOK
-----------------------------------------------------------------------------
LEMMA InitIInv == Init => IInv
<1> SUFFICES ASSUME Init PROVE IInv
  OBVIOUS
<1>1. Gone("idle") \in RunState
  BY FreshType DEF Phases
<1>2. /\ run \in [RunIds -> RunState]
      /\ \A r \in RunIds : Placed(run[r])
  BY <1>1, FreshSound DEF Init, Sound
<1>3. approved \subseteq Keys /\ saved \in [Sessions -> SUBSET Keys]
  BY DEF Init
<1>4. GateOK
  BY ApprovalsAssumption DEF Init, GateOK, ApprovalsAssumption
<1>5. BusOK
  BY ApprovalsAssumption DEF Init, BusOK, ApprovalsAssumption
<1>6. DeskOK /\ ClientsOK
  BY NotesAssumption
     DEF Init, DeskOK, ClientsOK, ClientsPlaced, Free, Stores, NotesAssumption
<1> QED BY <1>2, <1>3, <1>4, <1>5, <1>6
        DEF IInv, TypeOK, GateOK, BusOK, DeskOK, ClientsOK, Stores

(* One step of a run leaves the others as they are.                        *)
LEMMA RunStepIInv ==
  ASSUME IInv, NEW r \in RunIds, RunStep(r)
  PROVE  IInv'
<1>1. RunEffect(r)
  BY RunStepEffect
<1>2. run' \in [RunIds -> RunState]
  BY <1>1 DEF RunEffect, IInv, TypeOK
<1>3. ASSUME NEW p \in RunIds PROVE Placed(run'[p])
  BY <1>1 DEF RunEffect, Stays, IInv, TypeOK
<1>4. RestOK'
  BY RunStepRest
<1>5. approved' \subseteq Keys /\ saved' \in [Sessions -> SUBSET Keys]
  BY <1>1 DEF RunEffect
<1> QED BY <1>2, <1>3, <1>4, <1>5
        DEF IInv, TypeOK, RestOK, GateOK, BusOK, DeskOK, ClientsOK, Stores

LEMMA OtherStepIInv ==
  ASSUME IInv, UNCHANGED <<run, approved, saved>>, RestOK'
  PROVE  IInv'
BY DEF IInv, TypeOK, RestOK, GateOK, BusOK, DeskOK, ClientsOK, Stores

LEMMA CrashIInv ==
  ASSUME IInv, Crash
  PROVE  IInv'
<1>1. RestOK'
  BY RestOfIInv, CrashRest
<1>2. /\ run' = [r \in RunIds |-> Gone(IF At(r) = "idle" THEN "idle" ELSE "over")]
      /\ approved' = {} /\ saved' = saved
  BY DEF Crash
<1>3. run' \in [RunIds -> RunState]
  BY <1>2, FreshType DEF Phases
<1>4. \A r \in RunIds : Placed(run'[r])
  BY <1>2, FreshSound DEF Sound
<1> QED BY <1>1, <1>2, <1>3, <1>4
        DEF IInv, TypeOK, RestOK, GateOK, BusOK, DeskOK, ClientsOK, Stores

LEMMA StepIInv == IInv /\ [Next]_vars => IInv'
<1> SUFFICES ASSUME IInv, [Next]_vars PROVE IInv'
  OBVIOUS
<1> USE RestOfIInv
<1>1. ASSUME NEW r \in RunIds, RunStep(r) PROVE IInv'
  BY <1>1, RunStepIInv
<1>2. CASE MakeNote
  BY <1>2, MakeNoteRest, OtherStepIInv DEF MakeNote, perms
<1>3. CASE Tell
  BY <1>3, TellRest, OtherStepIInv DEF Tell, perms
<1>4. ASSUME NEW c \in Clients, ClientStep(c) PROVE IInv'
  <2>1. UNCHANGED <<run, approved, saved>>
    BY <1>4 DEF ClientStep, Respond, Act, Send, ResolveNote, perms
  <2> QED BY <1>4, <2>1, ClientRest, OtherStepIInv
<1>5. CASE Crash
  BY <1>5, CrashIInv
<1>6. CASE UNCHANGED vars
  BY <1>6 DEF vars, perms, gate, desk, aux, IInv, TypeOK, ClientsPlaced
<1> QED BY <1>1, <1>2, <1>3, <1>4, <1>5, <1>6 DEF Next

LEMMA Invariance == Spec => []IInv
BY InitIInv, StepIInv, PTL DEF Spec

(* The state stays well typed, the buffer of the bus and the notifications *)
(* in memory never beyond their capacities.                                *)
THEOREM TypeCorrect == Spec => []TypeOK
<1>1. IInv => TypeOK
  BY DEF IInv
<1> QED BY <1>1, Invariance, PTL
-----------------------------------------------------------------------------
(* What makes "always" last although every save replaces the patterns of   *)
(* meta.json: a run loads them before anything else, and nobody else saves *)
(* to its session in the meantime.                                         *)

Live(r) == At(r) \notin {"idle", "over"}

Loaded(r) ==
  /\ saved[run[r].session] \subseteq approved
  /\ At(r) = "save" => /\ saved[run[r].session] \subseteq run[r].keys
                       /\ run[r].keys \subseteq approved

Remembering ==
  /\ \A r \in RunIds : Live(r) => Loaded(r)
  /\ \A r, p \in RunIds :
       Live(r) /\ Live(p) /\ run[r].session = run[p].session => r = p

(* A step of a run that is neither its first, its last nor its save.       *)
Ordinary(r) ==
  /\ Live(r) /\ run'[r].at \notin {"idle", "over"}
  /\ run'[r].session = run[r].session
  /\ run'[r].at = "save" => run'[r].keys = approved
  /\ saved' = saved

LEMMA OrdinaryPhase ==
  ASSUME IInv, NEW r \in RunIds, Live(r), NEW phase \in Phases \ {"idle", "over", "save"},
         Goto(r, phase), saved' = saved
  PROVE  Ordinary(r)
<1>1. run[r] \in RunState /\ r \in DOMAIN run
  BY DEF IInv, TypeOK
<1>2. run'[r] = [run[r] EXCEPT !.at = phase]
  BY <1>1 DEF Goto
<1> QED BY <1>1, <1>2, PhaseChange DEF Ordinary

LEMMA OrdinaryStep ==
  ASSUME IInv, NEW r \in RunIds, RunStep(r),
         ~(\E a \in Agents, s \in Sessions : Start(r, a, s)), ~End(r), ~SavePatterns(r)
  PROVE  Ordinary(r)
<1> DEFINE old == run[r]
<1>1. old \in RunState /\ r \in DOMAIN run
  BY DEF IInv, TypeOK
<1>2. ASSUME NEW c \in Calls, Allow(r, c) PROVE Ordinary(r)
  <2>1. run'[r] = [old EXCEPT !.at = "boundary", !.call = c]
    BY <1>1, <1>2 DEF Allow
  <2> QED BY <1>1, <1>2, <2>1 DEF Ordinary, Live, At, Allow, RunState, perms
<1>3. ASSUME NEW c, NEW purpose, Request(r, c, purpose),
             At(r) \in {"model", "boundary"}
      PROVE  Ordinary(r)
  <2>1. run'[r] = Requesting(old, c, purpose, issued')
    BY <1>1, <1>3 DEF Request
  <2>2. run'[r].at = "publish" /\ run'[r].session = old.session
    BY <1>1, <2>1 DEF Requesting, RunState
  <2> QED BY <1>3, <2>2 DEF Ordinary, Live, Request, perms
<1>4. CASE WithinWorkspace(r)
  BY <1>4, OrdinaryPhase DEF WithinWorkspace, Live, Phases, perms
<1>5. CASE Publish(r) \/ Drop(r)
  BY <1>5, OrdinaryPhase DEF Publish, Drop, Live, Phases, Waiting, perms
<1>6. CASE GiveUp(r)
  BY <1>6, OrdinaryPhase DEF GiveUp, Live, Phases, Waiting, perms
<1>7. CASE Grant(r)
  BY <1>7, OrdinaryPhase DEF Grant, Live, Phases
<1>8. CASE TakeAnswer(r)
  <2>1. run'[r] = [old EXCEPT !.at = "close", !.answer = Head(answers[Asked(r)])]
    BY <1>1, <1>8 DEF TakeAnswer
  <2> QED BY <1>1, <1>8, <2>1 DEF Ordinary, Live, At, TakeAnswer, RunState, perms
<1>9. CASE Execute(r)
  <2>1. run'[r] = NextCall(old)
    BY <1>1, <1>9 DEF Execute
  <2> QED BY <1>1, <1>9, <2>1 DEF Ordinary, Live, At, Execute, NextCall, Fresh, perms
<1>10. CASE Close(r)
  <2>1. run'[r] = After(old)
    BY <1>1, <1>10 DEF Close
  <2>2. run'[r].at \in {"model", "execute", "grant", "boundary"}
        /\ run'[r].session = old.session
    BY <1>1, <2>1 DEF After, NextCall, Fresh, Written, Passed, RunState
  <2> QED BY <1>10, <2>2 DEF Ordinary, Live, Close, perms
<1>11. CASE ApprovedKeys(r)
  <2>1. run'[r] = [old EXCEPT !.at = "save", !.keys = approved]
    BY <1>1, <1>11 DEF ApprovedKeys
  <2> QED BY <1>1, <1>11, <2>1 DEF Ordinary, Live, At, ApprovedKeys, RunState, perms
<1> QED BY <1>2, <1>3, <1>4, <1>5, <1>6, <1>7, <1>8, <1>9, <1>10, <1>11
        DEF RunStep, Prompt, OutsideWorkspace

LEMMA RunRemembers ==
  ASSUME ~Overlaps, IInv, Remembering, NEW r \in RunIds, RunStep(r)
  PROVE  Remembering' /\ \A s \in Sessions : saved[s] \subseteq saved'[s]
<1>1. /\ run' = [run EXCEPT ![r] = run'[r]] /\ run \in [RunIds -> RunState]
      /\ approved \subseteq approved' /\ saved \in [Sessions -> SUBSET Keys]
  BY RunStepEffect DEF RunEffect, IInv, TypeOK
<1>2. \A p \in RunIds : p # r => run'[p] = run[p]
  BY <1>1
<1>3. \A p \in RunIds : Live(p) => run[p].session \in Sessions
  BY DEF IInv, Placed, Live, At
<1>4. ASSUME NEW a \in Agents, NEW s \in Sessions, Start(r, a, s)
      PROVE  Remembering' /\ saved' = saved
  <2>1. run'[r] = Fresh(a, s) /\ approved' = approved \cup saved[s] /\ saved' = saved
    BY <1>1, <1>4 DEF Start
  <2>2. run'[r].session = s /\ run'[r].at = "model"
    BY <2>1 DEF Fresh
  <2>3. \A p \in RunIds : run[p].session # s
    BY <1>4 DEF Start, Running
  <2> QED BY <1>1, <1>2, <2>1, <2>2, <2>3 DEF Remembering, Loaded, Live, At
<1>5. ASSUME End(r) PROVE Remembering' /\ saved' = saved
  <2>1. run'[r].at = "over" /\ saved' = saved
    BY <1>1, <1>5 DEF End, Gone, Fresh, perms
  <2> QED BY <1>1, <1>2, <2>1 DEF Remembering, Loaded, Live, At
<1>6. ASSUME SavePatterns(r)
      PROVE  Remembering' /\ \A s \in Sessions : saved[s] \subseteq saved'[s]
  <2> DEFINE own == run[r].session
  <2>1. At(r) = "save" /\ Live(r) /\ own \in Sessions
    BY <1>3, <1>6 DEF SavePatterns, Live
  <2>2. saved' = [saved EXCEPT ![own] = run[r].keys] /\ approved' = approved
    BY <1>6 DEF SavePatterns
  <2>3. run'[r] = [run[r] EXCEPT !.at = "boundary", !.keys = {}]
    BY <1>1, <1>6 DEF SavePatterns
  <2>4. run'[r].at = "boundary" /\ run'[r].session = own
    BY <1>1, <2>3 DEF RunState
  <2>5. saved[own] \subseteq run[r].keys
    BY <2>1 DEF Remembering, Loaded
  <2>6. run[r].keys \subseteq approved
    BY <2>1 DEF Remembering, Loaded
  <2> QED BY <1>1, <1>2, <2>1, <2>2, <2>4, <2>5, <2>6 DEF Remembering, Loaded, Live, At
<1>7. ASSUME Ordinary(r) PROVE Remembering' /\ saved' = saved
  BY <1>1, <1>2, <1>7 DEF Ordinary, Remembering, Loaded, Live, At
<1> QED BY <1>4, <1>5, <1>6, <1>7, OrdinaryStep

LEMMA StepRemembers ==
  ~Overlaps /\ IInv /\ Remembering /\ [Next]_vars =>
    Remembering' /\ \A s \in Sessions : saved[s] \subseteq saved'[s]
<1> SUFFICES ASSUME ~Overlaps, IInv, Remembering, [Next]_vars
             PROVE  Remembering' /\ \A s \in Sessions : saved[s] \subseteq saved'[s]
  OBVIOUS
<1>1. ASSUME NEW r \in RunIds, RunStep(r)
      PROVE  Remembering' /\ \A s \in Sessions : saved[s] \subseteq saved'[s]
  BY <1>1, RunRemembers
<1>2. CASE UNCHANGED <<run, approved, saved>>
  BY <1>2 DEF Remembering, Loaded, Live, At
<1>3. CASE Crash
  <2>1. ASSUME NEW r \in RunIds PROVE run'[r].at \in {"idle", "over"} /\ saved' = saved
    BY <1>3 DEF Crash, Gone, Fresh
  <2>2. saved' = saved
    BY <1>3 DEF Crash
  <2> QED BY <2>1, <2>2 DEF Remembering, Live, At
<1>4. ASSUME NEW c \in Clients, ClientStep(c) PROVE UNCHANGED <<run, approved, saved>>
  BY <1>4 DEF ClientStep, Respond, Act, Send, ResolveNote, perms
<1> QED BY <1>1, <1>2, <1>3, <1>4 DEF Next, MakeNote, Tell, vars, perms

(* As long as no session is run twice at a time, no save of approvals      *)
(* takes back one that the meta.json of the session already has.           *)
THEOREM AlwaysLasts ==
  ASSUME ~Overlaps
  PROVE  Spec => AlwaysIsRemembered
<1>1. Init => Remembering
  <2>1. Gone("idle").at = "idle"
    BY DEF Gone, Fresh
  <2>2. Init => \A r \in RunIds : ~Live(r)
    BY <2>1 DEF Init, Live, At
  <2> QED BY <2>2 DEF Remembering
<1>2. IInv /\ Remembering /\ [Next]_vars => Remembering'
  BY StepRemembers
<1>3. IInv /\ Remembering /\ [Next]_vars =>
        [\A s \in Sessions : saved[s] \subseteq saved'[s]]_vars
  BY StepRemembers
<1> QED BY <1>1, <1>2, <1>3, Invariance, PTL DEF Spec, AlwaysIsRemembered
-----------------------------------------------------------------------------
(* Appending to the file and truncating memory agree with a later load.    *)
LEMMA NewestAppend ==
  ASSUME NEW notes \in Seq(Notes), NEW n \in Notes
  PROVE  Newest(Append(Newest(notes), n)) = Newest(Append(notes, n))
<1> DEFINE k == Len(notes)
           long == Append(notes, n)
<1>1. k \in Nat /\ NotesCap \in Nat \ {0}
  BY NotesAssumption, LenProperties DEF NotesAssumption
<1>2. long \in Seq(Notes) /\ Len(long) = k + 1
      /\ (\A i \in 1..k : long[i] = notes[i]) /\ long[k + 1] = n
  BY AppendProperties
<1>3. CASE k <= NotesCap
  BY <1>1, <1>3 DEF Newest
<1>4. CASE k > NotesCap
  <2> DEFINE kept == SubSeq(notes, k - NotesCap + 1, k)
             short == Append(kept, n)
  <2>1. \A i \in k - NotesCap + 1 .. k : notes[i] \in Notes
    BY <1>1, <1>4, ElementOfSeq
  <2>2. /\ kept \in Seq(Notes) /\ Len(kept) = NotesCap
        /\ \A i \in 1..NotesCap : kept[i] = notes[k - NotesCap + i]
    BY <1>1, <1>4, <2>1, SubSeqProperties
  <2> HIDE DEF kept
  <2>3. /\ short \in Seq(Notes) /\ Len(short) = NotesCap + 1
        /\ \A i \in 1..NotesCap : short[i] = kept[i]
        /\ short[NotesCap + 1] = n
    BY <2>2, AppendProperties
  <2> HIDE DEF short, long
  <2>4. Newest(notes) = kept
    BY <1>4 DEF Newest, kept
  <2>5. Newest(short) = SubSeq(short, 2, NotesCap + 1)
    BY <1>1, <2>3 DEF Newest
  <2>6. Newest(long) = SubSeq(long, k + 1 - NotesCap + 1, k + 1)
    BY <1>1, <1>2, <1>4 DEF Newest
  <2>7. \A i \in 2..NotesCap + 1 : short[i] \in Notes
    BY <1>1, <2>3, ElementOfSeq
  <2>8. \A i \in k + 1 - NotesCap + 1 .. k + 1 : long[i] \in Notes
    BY <1>1, <1>2, <1>4, ElementOfSeq
  <2>9. /\ Newest(short) \in Seq(Notes) /\ Len(Newest(short)) = NotesCap
        /\ \A i \in 1..NotesCap : Newest(short)[i] = short[i + 1]
    BY <1>1, <2>5, <2>7, SubSeqProperties
  <2>10. /\ Newest(long) \in Seq(Notes) /\ Len(Newest(long)) = NotesCap
         /\ \A i \in 1..NotesCap : Newest(long)[i] = long[k + 1 - NotesCap + i]
    BY <1>1, <1>2, <1>4, <2>6, <2>8, SubSeqProperties
  <2>11. ASSUME NEW i \in 1..NotesCap PROVE short[i + 1] = long[k + 1 - NotesCap + i]
    <3>1. CASE i = NotesCap
      BY <1>1, <1>2, <2>3, <3>1
    <3>2. CASE i # NotesCap
      <4>1. i + 1 \in 1..NotesCap /\ k + 1 - NotesCap + i \in 1..k
        BY <1>1, <1>4, <3>2
      <4>2. short[i + 1] = notes[k - NotesCap + (i + 1)]
        BY <2>2, <2>3, <4>1
      <4>3. k - NotesCap + (i + 1) = k + 1 - NotesCap + i
        BY <1>1
      <4> QED BY <1>2, <4>1, <4>2, <4>3
    <3> QED BY <3>1, <3>2
  <2>12. Newest(short) = Newest(long)
    BY <2>9, <2>10, <2>11, SeqEqual
  <2> QED BY <2>4, <2>12 DEF short, long
<1> QED BY <1>1, <1>3, <1>4

LEMMA StepNotes == IInv /\ NotesOnDisk /\ [Next]_vars => NotesOnDisk'
<1> SUFFICES ASSUME IInv, NotesOnDisk, [Next]_vars PROVE NotesOnDisk'
  OBVIOUS
<1>1. /\ store \in Stores /\ Len(store.entries) <= NotesCap
      /\ store.file \in Seq(Notes)
  BY RestOfIInv DEF RestOK, DeskOK, Stores
<1>2. CASE store' = store
  BY <1>2 DEF NotesOnDisk
<1>3. CASE MakeNote
  <2> DEFINE note == Note(Head(bus))
  <2>1. Head(bus) \in Requests
    BY <1>3, HeadTailProperties DEF MakeNote, IInv, TypeOK
  <2>2. note \in Notes
    BY <2>1 DEF Note, Notes
  <2>3. store' = Add(store, note)
    BY <1>3 DEF MakeNote, Keep
  <2> HIDE DEF note
  <2>4. /\ store'.entries = Newest(Append(store.entries, note))
        /\ store'.file = Append(store.file, note)
    BY <2>3 DEF Add
  <2> QED BY <1>1, <2>2, <2>4, NewestAppend DEF NotesOnDisk
<1>4. ASSUME NEW c \in Clients, ResolveNote(c) PROVE NotesOnDisk'
  <2> DEFINE q == client[c].req
  <2>1. store' = Resolve(store, q) \/ store' = store
    BY <1>4 DEF ResolveNote, Keep
  <2>2. CASE store' = Resolve(store, q) /\ store' # store
    <3>1. store'.file = store'.entries
      BY <2>2 DEF Resolve, Rewrite
    <3>2. Len(store'.entries) <= NotesCap /\ store' \in Stores
      BY <1>1, <2>2, ResolveType
    <3>3. store'.entries \in Seq(Notes)
      BY <3>2 DEF Stores
    <3>4. ~(Len(store'.entries) > NotesCap)
      BY <3>2, <3>3, NotesAssumption, LenProperties DEF NotesAssumption
    <3> QED BY <3>1, <3>4 DEF NotesOnDisk, Newest
  <2> QED BY <1>2, <2>1, <2>2
<1>5. CASE Crash
  BY <1>5 DEF Crash, Keep, Load, NotesOnDisk
<1>6. ASSUME NEW r \in RunIds, RunStep(r) PROVE store' = store
  BY <1>6 DEF RunStep, Start, End, Allow, Prompt, Request, WithinWorkspace, desk,
         OutsideWorkspace, Execute, Publish, Drop, TakeAnswer, GiveUp, Close,
         Grant, ApprovedKeys, SavePatterns
<1>7. ASSUME NEW c \in Clients, ClientStep(c), ~ResolveNote(c) PROVE store' = store
  BY <1>7 DEF ClientStep, Respond, Act, Send, desk
<1> QED BY <1>2, <1>3, <1>4, <1>5, <1>6, <1>7 DEF Next, Tell, vars, desk

(* Whatever was added, pushed out and resolved, a restarted daemon has the *)
(* notifications the old one had.                                          *)
THEOREM NotesSurviveRestarts == Spec => []NotesOnDisk
<1>1. Init => NotesOnDisk
  BY NotesAssumption DEF Init, NotesOnDisk, Newest, NotesAssumption
<1> QED BY <1>1, StepNotes, Invariance, PTL DEF Spec

-----------------------------------------------------------------------------
(* Notes and requests.                                                     *)

(* Nobody but the run that asks has heard of the request q.                *)
Unborn(q) ==
  /\ \A n \in ToSet(store.file) : n.id # q
  /\ herald # q /\ \A c \in Terminals : q \notin told[c]
  /\ \A c \in Clients : client[c].at # "free" => client[c].req # q
  /\ answers[q] = <<>>

(* A request has one run, which keeps it pending until it closes it.       *)
AskedInv ==
  /\ \A r \in RunIds : At(r) \in Waiting => Asked(r) \in pending
  /\ pending \subseteq 1..issued
  /\ \A r, s \in RunIds :
       At(r) \in Waiting /\ At(s) \in Waiting /\ Asked(r) = Asked(s) => r = s

(* A request is heard of once, when the gateway takes it from the bus.     *)
BornInv ==
  /\ \A q \in Requests : q > issued \/ q \in ToSet(bus) => Unborn(q)
  /\ \A q \in ToSet(bus) : q <= issued
  /\ \A r \in RunIds : At(r) = "publish" => Unborn(Asked(r)) /\ Asked(r) \notin ToSet(bus)
  /\ \A i, j \in 1..Len(bus) : bus[i] = bus[j] => i = j

NotesDiffer == \A m, n \in ToSet(store.file) : m.id = n.id => m = n

Held(q) == \E c \in Clients : client[c].at # "free" /\ client[c].req = q

(* The run of an event on the bus waits; and before a note is resolved its *)
(* request has got an answer, or it does not wait.                         *)
WaitInv ==
  /\ \A q \in ToSet(bus) : q \in abandoned \/ \E r \in RunIds : At(r) = "wait" /\ Asked(r) = q
  /\ \A c \in Clients, r \in RunIds :
       client[c].at = "resolve" /\ Unanswered(r, client[c].req) => answers[client[c].req] # <<>>
  /\ \A n \in Pending(store) :
       \/ n.id \in abandoned \/ Held(n.id)
       \/ answers[n.id] = <<>> /\ \E r \in RunIds : Unanswered(r, n.id)

-----------------------------------------------------------------------------
(* What a step of a run does to its request. *)

Others(r) == \A s \in RunIds \ {r} : At(s)' = At(s) /\ Asked(s)' = Asked(s)

Quietly(r) ==
  /\ At(r) \notin Waiting /\ At(r)' \notin Waiting
  /\ UNCHANGED <<pending, answers, issued, desk, client, abandoned>>
Asks(r) ==
  /\ At(r) \notin Waiting /\ At(r)' = "publish" /\ Asked(r)' = issued'
  /\ issued' = issued + 1 /\ issued' \in Requests /\ pending' = pending \cup {issued'}
  /\ UNCHANGED <<answers, desk, client, abandoned>>
Publishes(r) ==
  /\ At(r) = "publish" /\ At(r)' = "wait" /\ Asked(r)' = Asked(r)
  /\ UNCHANGED <<pending, answers, issued, herald, told, store, client, abandoned>>
  /\ \/ bus' = Append(bus, Asked(r)) /\ UNCHANGED lost
     \/ UNCHANGED bus /\ lost' = lost \cup {Asked(r)}
Takes(r) ==
  /\ At(r) = "wait" /\ At(r)' = "close" /\ Asked(r)' = Asked(r)
  /\ answers[Asked(r)] # <<>> /\ answers' = [answers EXCEPT ![Asked(r)] = <<>>]
  /\ UNCHANGED <<pending, issued, desk, client, abandoned>>
GivesUp(r) ==
  /\ At(r) = "wait" /\ At(r)' = "close" /\ Asked(r)' = Asked(r)
  /\ abandoned' = abandoned \cup {Asked(r)}
  /\ UNCHANGED <<pending, answers, issued, desk, client>>
Closes(r) ==
  /\ At(r) = "close" /\ At(r)' \notin Waiting
  /\ pending' = pending \ {Asked(r)}
  /\ UNCHANGED <<answers, issued, desk, client, abandoned>>

LEMMA QuietKinds ==
  ASSUME IInv, NEW r \in RunIds
  PROVE  /\ \A a \in Agents, s \in Sessions : Start(r, a, s) => Quietly(r)
         /\ \A c \in Calls : Allow(r, c) => Quietly(r)
         /\ End(r) \/ WithinWorkspace(r) \/ Execute(r) => Quietly(r)
         /\ Grant(r) \/ ApprovedKeys(r) \/ SavePatterns(r) => Quietly(r)
<1>0. run \in [RunIds -> RunState] /\ run[r] \in RunState
  BY DEF IInv, TypeOK
<1>1. ASSUME NEW a \in Agents, NEW s \in Sessions, Start(r, a, s) PROVE Quietly(r)
  BY <1>0, <1>1 DEF Start, Quietly, At, Fresh, Waiting, gate, aux
<1>2. ASSUME NEW c \in Calls, Allow(r, c) PROVE Quietly(r)
  BY <1>0, <1>2 DEF Allow, Quietly, At, Waiting, gate, aux, RunState
<1>3. End(r) => Quietly(r)
  BY <1>0 DEF End, Quietly, At, Gone, Fresh, Waiting, gate, aux
<1>4. WithinWorkspace(r) => Quietly(r)
  BY <1>0 DEF WithinWorkspace, Goto, Quietly, At, Waiting, gate, aux, RunState
<1>5. Execute(r) => Quietly(r)
  BY <1>0 DEF Execute, NextCall, Fresh, Quietly, At, Waiting, gate, aux
<1>6. Grant(r) => Quietly(r)
  BY <1>0 DEF Grant, Goto, Quietly, At, Waiting, gate, aux, RunState
<1>7. ApprovedKeys(r) => Quietly(r)
  BY <1>0 DEF ApprovedKeys, Quietly, At, Waiting, gate, aux, RunState
<1>8. SavePatterns(r) => Quietly(r)
  BY <1>0 DEF SavePatterns, Quietly, At, Waiting, gate, aux, RunState
<1> QED
  BY <1>1, <1>2, <1>3, <1>4, <1>5, <1>6, <1>7, <1>8

LEMMA RequestAsks ==
  ASSUME IInv, NEW r \in RunIds, NEW c, NEW purpose \in Purposes, At(r) \notin Waiting,
         Request(r, c, purpose)
  PROVE  Asks(r)
<1>1. run \in [RunIds -> RunState] /\ run[r].asked \in [Purposes -> Requests \cup {NoRequest}]
  BY DEF IInv, TypeOK, RunState
<1>2. run'[r] = Requesting(run[r], c, purpose, issued')
  BY <1>1 DEF Request
<1>3. At(r)' = "publish" /\ Asked(r)' = issued'
  BY <1>1, <1>2 DEF Requesting, At, Asked, IInv, TypeOK, RunState
<1>4. issued' \in Requests
  BY ApprovalsAssumption DEF Request, Requests, IInv, TypeOK, ApprovalsAssumption
<1> QED
  BY <1>3, <1>4 DEF Request, Asks, aux

LEMMA MovesOn ==
  ASSUME IInv, NEW r \in RunIds, NEW phase, Goto(r, phase)
  PROVE  At(r)' = phase /\ Asked(r)' = Asked(r)
BY DEF IInv, TypeOK, RunState, Goto, At, Asked

LEMMA TakeKind == ASSUME IInv, NEW r \in RunIds, TakeAnswer(r) PROVE Takes(r)
<1>1. Asked(r) \in Requests
  BY DEF IInv, Placed, At, Asked, TakeAnswer, Waiting
<1>2. PICK a \in Answers : answers[Asked(r)] = <<a>>
  BY <1>1 DEF IInv, TypeOK, TakeAnswer
<1>3. PICK b : b = Head(answers[Asked(r)])
  OBVIOUS
<1>4. At(r)' = "close" /\ Asked(r)' = Asked(r)
  BY <1>3 DEF IInv, TypeOK, RunState, TakeAnswer, At, Asked
<1> QED
  BY <1>2, <1>4 DEF TakeAnswer, Takes, aux

LEMMA CloseKind == ASSUME IInv, NEW r \in RunIds, Close(r) PROVE Closes(r)
<1>1. run[r] \in RunState /\ run'[r] = After(run[r])
  BY DEF IInv, TypeOK, Close
<1>2. After(run[r]).at \in {"model", "execute", "grant", "boundary"}
  BY <1>1 DEF After, NextCall, Fresh, Written, Passed, RunState
<1> QED
  BY <1>1, <1>2 DEF Close, Closes, At, Waiting, aux

LEMMA RunKinds ==
  ASSUME IInv, NEW r \in RunIds, RunStep(r)
  PROVE  /\ Others(r)
         /\ Quietly(r) \/ Asks(r) \/ Publishes(r) \/ Takes(r) \/ GivesUp(r) \/ Closes(r)
<1>1. Others(r)
  <2>1. RunEffect(r)
    BY RunStepEffect
  <2>2. \A s \in RunIds \ {r} : run'[s] = run[s]
    BY <2>1 DEF RunEffect, IInv, TypeOK
  <2> QED
    BY <2>2 DEF Others, At, Asked
<1>2. ASSUME NEW c \in Calls, Prompt(r, c) PROVE Asks(r)
  BY <1>2, RequestAsks DEF Prompt, Purposes, Waiting
<1>3. ASSUME OutsideWorkspace(r) PROVE Asks(r)
  <2>1. PICK c : c = run[r].call
    OBVIOUS
  <2>2. Request(r, c, "write") /\ At(r) = "boundary"
    BY <1>3, <2>1 DEF OutsideWorkspace
  <2> QED
    BY <2>2, RequestAsks DEF Purposes, Waiting
<1>4. ASSUME Publish(r) PROVE Publishes(r)
  <2>1. Goto(r, "wait")
    BY <1>4 DEF Publish
  <2>2. At(r)' = "wait" /\ Asked(r)' = Asked(r)
    BY <2>1, MovesOn
  <2> QED
    BY <1>4, <2>2 DEF Publish, Publishes, gate, aux
<1>5. ASSUME Drop(r) PROVE Publishes(r)
  <2>1. Goto(r, "wait")
    BY <1>5 DEF Drop
  <2>2. At(r)' = "wait" /\ Asked(r)' = Asked(r)
    BY <2>1, MovesOn
  <2> QED
    BY <1>5, <2>2 DEF Drop, Publishes, gate, aux
<1>6. ASSUME GiveUp(r) PROVE GivesUp(r)
  <2>1. Goto(r, "close")
    BY <1>6 DEF GiveUp
  <2>2. At(r)' = "close" /\ Asked(r)' = Asked(r)
    BY <2>1, MovesOn
  <2> QED
    BY <1>6, <2>2 DEF GiveUp, GivesUp, gate
<1> QED
  BY <1>1, <1>2, <1>3, <1>4, <1>5, <1>6, QuietKinds, TakeKind, CloseKind DEF RunStep

-----------------------------------------------------------------------------
(* The notes.                                                              *)

DiskInv == IInv /\ NotesOnDisk

LEMMA NewestIn ==
  ASSUME NEW notes \in Seq(Notes)
  PROVE  ToSet(Newest(notes)) \subseteq ToSet(notes)
<1>1. Len(notes) \in Nat /\ NotesCap \in Nat \ {0}
  BY NotesAssumption, LenProperties DEF NotesAssumption
<1>2. CASE Len(notes) > NotesCap
  <2>1. \A i \in Len(notes) - NotesCap + 1 .. Len(notes) : notes[i] \in Notes
    BY <1>1, <1>2, ElementOfSeq
  <2>2. /\ Len(Newest(notes)) = NotesCap /\ Newest(notes) \in Seq(Notes)
        /\ \A i \in 1 .. NotesCap : Newest(notes)[i] = notes[Len(notes) - NotesCap + i]
    BY <1>1, <1>2, <2>1, SubSeqProperties DEF Newest
  <2>3. \A i \in 1 .. NotesCap : Len(notes) - NotesCap + i \in 1 .. Len(notes)
    BY <1>1, <1>2
  <2>4. DOMAIN Newest(notes) = 1 .. NotesCap /\ DOMAIN notes = 1 .. Len(notes)
    BY <2>2, LenProperties
  <2> QED
    BY <2>2, <2>3, <2>4 DEF ToSet
<1>3. CASE ~(Len(notes) > NotesCap)
  BY <1>3 DEF Newest
<1> QED
  BY <1>2, <1>3

LEMMA NewestHasLast ==
  ASSUME NEW notes \in Seq(Notes), NEW n \in Notes
  PROVE  n \in ToSet(Newest(Append(notes, n)))
<1> DEFINE k == Len(notes)  long == Append(notes, n)
<1>1. k \in Nat /\ NotesCap \in Nat \ {0}
  BY NotesAssumption, LenProperties DEF NotesAssumption
<1>2. long \in Seq(Notes) /\ Len(long) = k + 1 /\ long[k + 1] = n
  BY AppendProperties
<1> HIDE DEF long
<1>3. CASE k + 1 > NotesCap
  <2>1. \A i \in k + 1 - NotesCap + 1 .. k + 1 : long[i] \in Notes
    BY <1>1, <1>2, <1>3, ElementOfSeq
  <2>2. /\ Len(Newest(long)) = NotesCap /\ Newest(long) \in Seq(Notes)
        /\ \A i \in 1 .. NotesCap : Newest(long)[i] = long[k + 1 - NotesCap + i]
    BY <1>1, <1>2, <1>3, <2>1, SubSeqProperties DEF Newest
  <2>3. Newest(long)[NotesCap] = n /\ NotesCap \in 1 .. NotesCap
    <3>1. NotesCap \in 1 .. NotesCap /\ k + 1 - NotesCap + NotesCap = k + 1
      BY <1>1
    <3> QED
      BY <1>2, <2>2, <3>1
  <2>4. DOMAIN Newest(long) = 1 .. NotesCap
    BY <2>2, LenProperties
  <2> QED
    BY <2>3, <2>4 DEF ToSet, long
<1>4. CASE ~(k + 1 > NotesCap)
  <2>1. Newest(long) = long
    BY <1>2, <1>4 DEF Newest
  <2>2. k + 1 \in DOMAIN long
    BY <1>1, <1>2, LenProperties
  <2> QED
    BY <1>2, <2>1, <2>2 DEF ToSet, long
<1> QED
  BY <1>3, <1>4

LEMMA AppendIs ==
  ASSUME NEW notes \in Seq(Notes), NEW n \in Notes
  PROVE  ToSet(Append(notes, n)) = ToSet(notes) \cup {n}
<1> DEFINE k == Len(notes)  long == Append(notes, n)
<1>1. k \in Nat /\ DOMAIN notes = 1 .. k
  BY LenProperties
<1>2. /\ long \in Seq(Notes) /\ Len(long) = k + 1 /\ long[k + 1] = n
      /\ \A i \in 1 .. k : long[i] = notes[i]
  BY AppendProperties
<1>3. DOMAIN long = 1 .. k + 1
  BY <1>2, LenProperties
<1> HIDE DEF long
<1>4. 1 .. k + 1 = (1 .. k) \cup {k + 1}
  BY <1>1
<1>5. ToSet(long) = ToSet(notes) \cup {n}
  BY <1>1, <1>2, <1>3, <1>4 DEF ToSet
<1> QED
  BY <1>5 DEF long

(* The notes of the daemon are in the file.                                *)
LEMMA NotesAre ==
  ASSUME DiskInv
  PROVE  /\ store.entries \in Seq(Notes) /\ store.file \in Seq(Notes) /\ store \in Stores
         /\ ToSet(store.entries) \subseteq ToSet(store.file)
         /\ ToSet(store.file) \subseteq Notes
         /\ \A n \in Notes : n.id \in Requests
<1>1. store.entries \in Seq(Notes) /\ store.file \in Seq(Notes) /\ store \in Stores
  BY RestOfIInv DEF DiskInv, RestOK, DeskOK, Stores
<1>2. ToSet(store.entries) \subseteq ToSet(store.file)
  BY <1>1, NewestIn DEF DiskInv, NotesOnDisk
<1>3. ToSet(store.file) \subseteq Notes
  BY <1>1, ElementOfSeq, LenProperties DEF ToSet
<1> QED
  BY <1>1, <1>2, <1>3 DEF Notes

(* A note is added; what it pushes out of memory is called lost.           *)
LEMMA Added ==
  ASSUME DiskInv, NEW k \in Requests, Keep(Add(store, Note(k)))
  PROVE  /\ ToSet(store'.file) = ToSet(store.file) \cup {Note(k)}
         /\ ToSet(store'.entries) \subseteq ToSet(store.entries) \cup {Note(k)}
         /\ Note(k) \in ToSet(store'.entries) /\ Note(k).id = k /\ ~Note(k).resolved
         /\ lost \subseteq lost'
         /\ \A n \in ToSet(store.entries) :
              n.id \in lost' \/ \E m \in ToSet(store'.entries) : m.id = n.id
<1>1. Note(k) \in Notes /\ Note(k).id = k /\ ~Note(k).resolved
  BY DEF Note, Notes
<1>2. /\ store'.entries = Newest(Append(store.entries, Note(k)))
      /\ store'.file = Append(store.file, Note(k))
  BY DEF Keep, Add
<1>3. Append(store.entries, Note(k)) \in Seq(Notes)
  BY <1>1, NotesAre
<1>4. ToSet(store'.file) = ToSet(store.file) \cup {Note(k)}
  BY <1>1, <1>2, NotesAre, AppendIs
<1>5. ToSet(store'.entries) \subseteq ToSet(store.entries) \cup {Note(k)}
  <2>1. ToSet(store'.entries) \subseteq ToSet(Append(store.entries, Note(k)))
    BY <1>2, <1>3, NewestIn
  <2>2. ToSet(Append(store.entries, Note(k))) = ToSet(store.entries) \cup {Note(k)}
    BY <1>1, NotesAre, AppendIs
  <2> QED
    BY <2>1, <2>2
<1>6. Note(k) \in ToSet(store'.entries)
  BY <1>1, <1>2, NotesAre, NewestHasLast
<1>7. lost' = lost \cup ({n.id : n \in ToSet(store.entries)} \ {n.id : n \in ToSet(store'.entries)})
  BY DEF Keep
<1> QED
  BY <1>1, <1>4, <1>5, <1>6, <1>7

Resolution(n, k) == IF n.id = k THEN [n EXCEPT !.resolved = TRUE] ELSE n

(* Every note of k is resolved, the others stay as they are.               *)
LEMMA Resolved ==
  ASSUME DiskInv, NEW k, Keep(Resolve(store, k))
  PROVE  /\ lost \subseteq lost'
         /\ \/ store' = store /\ \A n \in ToSet(store.entries) : n.id # k
            \/ /\ ToSet(store'.file) = ToSet(store'.entries)
               /\ ToSet(store'.entries) = {Resolution(n, k) : n \in ToSet(store.entries)}
<1>1. lost \subseteq lost' /\ store' = Resolve(store, k)
  BY DEF Keep
<1>2. CASE \E n \in ToSet(store.entries) : n.id = k
  <2> DEFINE old == store.entries
             new == [i \in DOMAIN old |-> Resolution(old[i], k)]
  <2>1. store' = [entries |-> new, file |-> new]
    BY <1>1, <1>2 DEF Resolve, Rewrite, Resolution
  <2>2. DOMAIN new = DOMAIN old /\ \A i \in DOMAIN old : new[i] = Resolution(old[i], k)
    OBVIOUS
  <2> HIDE DEF new
  <2>3. ToSet(new) = {Resolution(n, k) : n \in ToSet(old)}
    BY <2>2 DEF ToSet
  <2> QED
    BY <1>1, <2>1, <2>3
<1>3. CASE ~\E n \in ToSet(store.entries) : n.id = k
  BY <1>1, <1>3 DEF Resolve
<1> QED
  BY <1>2, <1>3

LEMMA ResolutionIs ==
  \A k : \A n \in Notes : /\ Resolution(n, k).id = n.id
                          /\ n.id = k => Resolution(n, k).resolved
                          /\ n.id # k => Resolution(n, k) = n
BY DEF Resolution, Notes

LEMMA AfterResolve ==
  ASSUME DiskInv, NEW k, Keep(Resolve(store, k))
  PROVE  /\ lost \subseteq lost'
         /\ \A m \in ToSet(store'.file) : \E n \in ToSet(store.file) : m.id = n.id
         /\ \A m \in Pending(store') : m \in Pending(store) /\ m.id # k
         /\ \A n \in Pending(store) : n.id # k => n \in Pending(store')
         /\ NotesDiffer => NotesDiffer'
<1> USE NotesAre, ResolutionIs
<1>1. CASE store' = store /\ \A n \in ToSet(store.entries) : n.id # k
  BY <1>1, Resolved DEF Pending, NotesDiffer
<1>2. CASE /\ ToSet(store'.file) = ToSet(store'.entries)
           /\ ToSet(store'.entries) = {Resolution(n, k) : n \in ToSet(store.entries)}
  <2>1. \A n \in ToSet(store.entries) : n \in Notes /\ n \in ToSet(store.file)
    OBVIOUS
  <2>2. \A m \in ToSet(store'.file) : \E n \in ToSet(store.file) : m.id = n.id
    BY <1>2, <2>1
  <2>3. \A m \in Pending(store') : m \in Pending(store) /\ m.id # k
    BY <1>2, <2>1 DEF Pending
  <2>4. \A n \in Pending(store) : n.id # k => n \in Pending(store')
    BY <1>2, <2>1 DEF Pending
  <2>5. NotesDiffer => NotesDiffer'
    BY <1>2, <2>1 DEF NotesDiffer
  <2> QED
    BY <2>2, <2>3, <2>4, <2>5, Resolved
<1> QED
  BY <1>1, <1>2, Resolved

-----------------------------------------------------------------------------
(* Requests.                                                               *)

LEMMA Waited ==
  ASSUME IInv, NEW r \in RunIds, At(r) \in Waiting
  PROVE  Asked(r) \in Requests
BY DEF IInv, Placed, At, Asked

(* Whatever is no step of a run leaves the requests of the runs alone.     *)
LEMMA Elsewhere ==
  ASSUME MakeNote \/ Tell \/ (\E c \in Clients : ClientStep(c)) \/ UNCHANGED vars
  PROVE  /\ \A r \in RunIds : At(r)' = At(r) /\ Asked(r)' = Asked(r)
         /\ UNCHANGED <<run, pending, issued, abandoned>>
<1>1. UNCHANGED <<run, pending, issued, abandoned>>
  BY DEF MakeNote, Tell, ClientStep, Respond, Act, Send, ResolveNote, vars, gate, aux
<1> QED
  BY <1>1 DEF At, Asked

LEMMA CrashEnds ==
  ASSUME Crash
  PROVE  \A r \in RunIds : At(r)' \in {"idle", "over"}
BY DEF Crash, Gone, Fresh, At

LEMMA StepAsked == IInv /\ AskedInv /\ [Next]_vars => AskedInv'
<1> SUFFICES ASSUME IInv, AskedInv, [Next]_vars PROVE AskedInv'
  OBVIOUS
<1>0. issued \in Nat
  BY DEF IInv, TypeOK
<1>1. ASSUME NEW r \in RunIds, RunStep(r) PROVE AskedInv'
  <2>0. /\ Others(r)
        /\ Quietly(r) \/ Asks(r) \/ Publishes(r) \/ Takes(r) \/ GivesUp(r) \/ Closes(r)
    BY <1>1, RunKinds
  <2>1. CASE Quietly(r)
    BY <2>0, <2>1 DEF Others, Quietly, AskedInv
  <2>2. CASE Asks(r)
    <3>1. \A s \in RunIds \ {r} : At(s) \in Waiting => Asked(s) \in 1 .. issued
      BY DEF AskedInv
    <3>2. issued' \notin 1 .. issued /\ issued' \in 1 .. issued' /\ 1 .. issued \subseteq 1 .. issued'
      BY <1>0, <2>2 DEF Asks
    <3> QED
      BY <2>0, <2>2, <3>1, <3>2 DEF Others, Asks, AskedInv
  <2>3. CASE Publishes(r) \/ Takes(r) \/ GivesUp(r)
    <3>1. /\ At(r) \in Waiting /\ At(r)' \in Waiting /\ Asked(r)' = Asked(r)
          /\ UNCHANGED <<pending, issued>>
      BY <2>3 DEF Publishes, Takes, GivesUp, Waiting
    <3> QED
      BY <2>0, <3>1 DEF Others, AskedInv
  <2>4. CASE Closes(r)
    <3>1. At(r) \in Waiting
      BY <2>4 DEF Closes, Waiting
    <3> QED
      BY <2>0, <2>4, <3>1 DEF Others, Closes, AskedInv
  <2> QED
    BY <2>0, <2>1, <2>2, <2>3, <2>4
<1>2. CASE Crash
  <2>1. pending' = {}
    BY <1>2 DEF Crash
  <2> QED
    BY <1>2, <2>1, CrashEnds DEF AskedInv, Waiting
<1> QED
  BY <1>1, <1>2, Elsewhere DEF Next, AskedInv

LEMMA StepUnborn ==
  ASSUME DiskInv, [Next]_vars, NEW q \in Requests, Unborn(q), ~(MakeNote /\ Head(bus) = q)
  PROVE  Unborn(q)'
<1>0. q # NoRequest /\ answers \in [Requests -> {<<>>} \cup {<<a>> : a \in Answers}]
      /\ client \in [Clients -> [at : {"free", "send", "resolve"}, req : Requests \cup {NoRequest}]]
      /\ told \in [Terminals -> SUBSET Requests]
  BY DEF DiskInv, IInv, TypeOK, Requests, NoRequest
<1>1. ASSUME NEW r \in RunIds, RunStep(r) PROVE Unborn(q)'
  <2>1. /\ UNCHANGED <<store, herald, told, client>>
        /\ UNCHANGED answers \/ Takes(r)
    BY <1>1, RunKinds DEF DiskInv, Quietly, Asks, Publishes, Takes, GivesUp, Closes, desk
  <2>2. Takes(r) => answers'[q] = <<>>
    BY <1>0 DEF Takes, Unborn
  <2> QED
    BY <2>1, <2>2 DEF Unborn
<1>2. CASE MakeNote
  <2>1. PICK k \in Requests : k = Head(bus)
    BY <1>2, HeadTailProperties DEF MakeNote, DiskInv, IInv, TypeOK
  <2>2. Keep(Add(store, Note(k))) /\ herald' = k /\ k # q
    BY <1>2, <2>1 DEF MakeNote
  <2>3. UNCHANGED <<answers, told, client>>
    BY <1>2 DEF MakeNote, gate
  <2> QED
    BY <2>2, <2>3, Added DEF Unborn
<1>3. CASE Tell
  BY <1>0, <1>3 DEF Tell, Unborn, gate
<1>4. ASSUME NEW c \in Terminals, NEW p \in Requests, Respond(c, p) PROVE Unborn(q)'
  <2>1. p # q /\ c \in Clients
    BY <1>4 DEF Respond, Unborn, Clients
  <2>2. \A d \in Terminals : told'[d] \subseteq told[d]
    BY <1>0, <1>4 DEF Respond
  <2>3. \A d \in Clients : client'[d] = client[d] \/ client'[d].req = p
    BY <1>0, <1>4 DEF Respond
  <2>4. UNCHANGED <<answers, herald, store>>
    BY <1>4 DEF Respond, gate
  <2> QED
    BY <2>1, <2>2, <2>3, <2>4 DEF Unborn
<1>5. ASSUME NEW c \in Clients, NEW p \in Requests, Act(c, p) PROVE Unborn(q)'
  <2>1. p # q
    BY <1>5, NotesAre DEF Act, Unborn
  <2>2. \A d \in Clients : client'[d] = client[d] \/ client'[d].req = p
    BY <1>0, <1>5 DEF Act
  <2>3. UNCHANGED <<answers, herald, told, store>>
    BY <1>5 DEF Act, gate, desk
  <2> QED
    BY <2>1, <2>2, <2>3 DEF Unborn
<1>6. ASSUME NEW c \in Clients, NEW a \in Answers, Send(c, a) PROVE Unborn(q)'
  <2>1. client[c].req # q
    BY <1>6 DEF Send, Unborn
  <2>2. answers'[q] = answers[q]
    BY <1>0, <1>6, <2>1 DEF Send
  <2>3. \A d \in Clients : client'[d].at # "free" => client[d].at # "free" /\ client'[d].req = client[d].req
    BY <1>0, <1>6 DEF Send
  <2>4. UNCHANGED <<herald, told, store>>
    BY <1>6 DEF Send, desk
  <2> QED
    BY <2>2, <2>3, <2>4 DEF Unborn
<1>7. ASSUME NEW c \in Clients, ResolveNote(c) PROVE Unborn(q)'
  <2>1. \A m \in ToSet(store'.file) : \E n \in ToSet(store.file) : m.id = n.id
    <3>1. Keep(Resolve(store, client[c].req)) \/ store' = store
      BY <1>7 DEF ResolveNote, Keep
    <3> QED
      BY <3>1, AfterResolve
  <2>2. \A d \in Clients : client'[d].at # "free" => client'[d] = client[d]
    BY <1>0, <1>7 DEF ResolveNote, Free
  <2>3. UNCHANGED <<answers, herald, told>>
    BY <1>7 DEF ResolveNote, gate
  <2> QED
    BY <2>1, <2>2, <2>3 DEF Unborn
<1>8. CASE Crash
  <2>1. store'.file = store.file
    BY <1>8 DEF Crash, Keep, Load
  <2>2. /\ herald' # q /\ answers'[q] = <<>>
        /\ \A d \in Terminals : told'[d] = {}
        /\ \A d \in Clients : client'[d].at = "free"
    BY <1>0, <1>8 DEF Crash, Free
  <2> QED
    BY <2>1, <2>2 DEF Unborn
<1>9. CASE UNCHANGED vars
  BY <1>9 DEF vars, gate, desk, Unborn
<1> QED
  BY <1>1, <1>2, <1>3, <1>4, <1>5, <1>6, <1>7, <1>8, <1>9 DEF Next, ClientStep

LEMMA BusFacts ==
  ASSUME IInv
  PROVE  /\ bus \in Seq(Requests) /\ issued \in Nat
         /\ DOMAIN bus = 1 .. Len(bus) /\ Len(bus) \in Nat
         /\ \A q \in ToSet(bus) : q \in Requests
         /\ \A i \in 1 .. Len(bus) : bus[i] \in ToSet(bus)
<1>1. bus \in Seq(Requests) /\ issued \in Nat
  BY DEF IInv, TypeOK
<1>2. DOMAIN bus = 1 .. Len(bus) /\ Len(bus) \in Nat /\ \A i \in 1 .. Len(bus) : bus[i] \in Requests
  BY <1>1, LenProperties, ElementOfSeq
<1> QED
  BY <1>1, <1>2 DEF ToSet

LEMMA TakenFromBus ==
  ASSUME IInv, MakeNote
  PROVE  /\ Head(bus) \in ToSet(bus) /\ Head(bus) \in Requests
         /\ ToSet(bus') \subseteq ToSet(bus)
         /\ BornInv => /\ Head(bus) \notin ToSet(bus')
                       /\ ToSet(bus) \subseteq ToSet(bus') \cup {Head(bus)}
                       /\ \A i, j \in 1 .. Len(bus') : bus'[i] = bus'[j] => i = j
<1>1. bus # <<>> /\ bus' = Tail(bus)
  BY DEF MakeNote
<1>2. /\ Tail(bus) \in Seq(Requests) /\ Len(Tail(bus)) = Len(bus) - 1 /\ Head(bus) = bus[1]
      /\ \A i \in 1 .. Len(Tail(bus)) : Tail(bus)[i] = bus[i + 1]
  BY <1>1, BusFacts, HeadTailProperties
<1>3. Len(bus) >= 1
  BY <1>1, BusFacts, EmptySeq
<1>4. /\ DOMAIN bus' = 1 .. Len(bus) - 1 /\ Len(bus') = Len(bus) - 1
      /\ \A i \in 1 .. Len(bus) - 1 : i + 1 \in 1 .. Len(bus) /\ bus'[i] = bus[i + 1]
  BY <1>1, <1>2, <1>3, BusFacts, LenProperties
<1>5. 1 \in 1 .. Len(bus) /\ Head(bus) \in ToSet(bus)
  BY <1>2, <1>3, BusFacts DEF ToSet
<1>6. ToSet(bus') \subseteq ToSet(bus)
  BY <1>4, BusFacts DEF ToSet
<1>7. ASSUME BornInv
      PROVE  /\ Head(bus) \notin ToSet(bus')
             /\ ToSet(bus) \subseteq ToSet(bus') \cup {Head(bus)}
             /\ \A i, j \in 1 .. Len(bus') : bus'[i] = bus'[j] => i = j
  <2>1. \A i, j \in 1 .. Len(bus) : bus[i] = bus[j] => i = j
    BY <1>7 DEF BornInv
  <2>2. ASSUME NEW i \in 1 .. Len(bus) - 1 PROVE bus'[i] # bus[1]
    <3>1. i + 1 \in 1 .. Len(bus) /\ i + 1 # 1
      BY <1>4, BusFacts
    <3> QED
      BY <1>4, <1>5, <2>1, <3>1
  <2>3. Head(bus) \notin ToSet(bus')
    BY <1>2, <1>4, <2>2 DEF ToSet
  <2>4. ASSUME NEW i \in 1 .. Len(bus) PROVE bus[i] \in ToSet(bus') \cup {Head(bus)}
    <3>1. CASE i = 1
      BY <1>2, <3>1
    <3>2. CASE i # 1
      <4>1. i - 1 \in 1 .. Len(bus) - 1 /\ (i - 1) + 1 = i
        BY <3>2, BusFacts
      <4> QED
        BY <1>4, <4>1 DEF ToSet
    <3> QED
      BY <3>1, <3>2
  <2>5. ASSUME NEW i \in 1 .. Len(bus'), NEW j \in 1 .. Len(bus'), bus'[i] = bus'[j]
        PROVE  i = j
    <3>1. i \in 1 .. Len(bus) - 1 /\ j \in 1 .. Len(bus) - 1
      BY <1>4
    <3>2. i + 1 = j + 1
      BY <1>4, <2>1, <2>5, <3>1
    <3> QED
      BY <3>1, <3>2
  <2> QED
    BY <2>3, <2>4, <2>5, BusFacts DEF ToSet
<1> QED
  BY <1>5, <1>6, <1>7, BusFacts

LEMMA PutOnBus ==
  ASSUME IInv, NEW q \in Requests, bus' = Append(bus, q)
  PROVE  /\ ToSet(bus') = ToSet(bus) \cup {q}
         /\ q \notin ToSet(bus) /\ (\A i, j \in 1 .. Len(bus) : bus[i] = bus[j] => i = j) =>
              \A i, j \in 1 .. Len(bus') : bus'[i] = bus'[j] => i = j
<1>1. /\ bus' \in Seq(Requests) /\ Len(bus') = Len(bus) + 1 /\ bus'[Len(bus) + 1] = q
      /\ \A i \in 1 .. Len(bus) : bus'[i] = bus[i]
  BY BusFacts, AppendProperties
<1>2. DOMAIN bus' = 1 .. Len(bus) + 1 /\ 1 .. Len(bus) + 1 = (1 .. Len(bus)) \cup {Len(bus) + 1}
  BY <1>1, BusFacts, LenProperties
<1>3. ToSet(bus') = ToSet(bus) \cup {q}
  BY <1>1, <1>2, BusFacts DEF ToSet
<1>4. ASSUME q \notin ToSet(bus), \A i, j \in 1 .. Len(bus) : bus[i] = bus[j] => i = j,
             NEW i \in 1 .. Len(bus'), NEW j \in 1 .. Len(bus'), bus'[i] = bus'[j]
      PROVE  i = j
  <2>1. CASE i \in 1 .. Len(bus) /\ j \in 1 .. Len(bus)
    BY <1>1, <1>4, <2>1
  <2>2. CASE i = Len(bus) + 1 /\ j \in 1 .. Len(bus)
    BY <1>1, <1>4, <2>2, BusFacts
  <2>3. CASE j = Len(bus) + 1 /\ i \in 1 .. Len(bus)
    BY <1>1, <1>4, <2>3, BusFacts
  <2> QED
    BY <1>1, <1>2, <2>1, <2>2, <2>3
<1> QED
  BY <1>3, <1>4

LEMMA StepBorn == DiskInv /\ AskedInv /\ BornInv /\ [Next]_vars => BornInv'
<1> SUFFICES ASSUME DiskInv, AskedInv, BornInv, [Next]_vars PROVE BornInv'
  OBVIOUS
<1> USE DEF DiskInv
<1>0. issued' >= issued /\ issued' \in Nat /\ issued \in Nat
  <2>1. IInv'
    BY StepIInv
  <2>2. ASSUME NEW r \in RunIds, RunStep(r) PROVE issued' = issued \/ issued' = issued + 1
    BY <2>2, RunKinds DEF Quietly, Asks, Publishes, Takes, GivesUp, Closes
  <2>3. Crash => issued' = issued
    BY DEF Crash
  <2>4. issued' \in Nat /\ issued \in Nat
    BY <2>1 DEF IInv, TypeOK
  <2> QED
    BY <2>2, <2>3, <2>4, Elsewhere DEF Next
<1>1. ASSUME NEW q \in Requests, q > issued PROVE Unborn(q)'
  <2>1. Unborn(q)
    BY <1>1 DEF BornInv
  <2>2. ~(MakeNote /\ Head(bus) = q)
    <3> SUFFICES ASSUME MakeNote, Head(bus) = q PROVE FALSE
      OBVIOUS
    <3>1. q <= issued
      BY TakenFromBus DEF BornInv
    <3> QED
      BY <1>0, <1>1, <3>1 DEF Requests
  <2> QED
    BY <2>1, <2>2, StepUnborn
<1>2. \A q \in Requests : q > issued' => Unborn(q)'
  BY <1>0, <1>1 DEF Requests
<1>3. CASE MakeNote
  <2>1. ASSUME NEW q \in ToSet(bus') PROVE Unborn(q)' /\ q <= issued'
    <3>1. q \in ToSet(bus) /\ q # Head(bus) /\ q \in Requests
      BY <1>3, TakenFromBus, BusFacts
    <3>2. Unborn(q)
      BY <3>1 DEF BornInv
    <3> QED
      BY <1>3, <3>1, <3>2, StepUnborn, Elsewhere DEF BornInv
  <2>2. ASSUME NEW r \in RunIds, At(r)' = "publish"
        PROVE  Unborn(Asked(r))' /\ Asked(r)' \notin ToSet(bus')
    <3>1. At(r) = "publish" /\ Asked(r)' = Asked(r)
      BY <1>3, <2>2, Elsewhere
    <3>2. PICK q \in Requests : q = Asked(r)
      BY <3>1, Waited DEF Waiting
    <3>3. Unborn(q) /\ q \notin ToSet(bus)
      BY <3>1, <3>2 DEF BornInv
    <3>4. Unborn(q)'
      BY <1>3, <3>2, <3>3, TakenFromBus, StepUnborn
    <3>5. Asked(r)' = q
      BY <3>1, <3>2
    <3> QED
      BY <1>3, <3>3, <3>4, <3>5, TakenFromBus DEF Unborn
  <2> QED
    BY <1>2, <1>3, <2>1, <2>2, TakenFromBus DEF BornInv
<1>4. CASE ~MakeNote
  <2>0. \A q \in Requests : Unborn(q) => Unborn(q)'
    BY <1>4, StepUnborn
  <2>1. ASSUME UNCHANGED bus \/ bus' = <<>>
        PROVE  /\ \A q \in ToSet(bus') : Unborn(q)' /\ q <= issued'
               /\ \A i, j \in 1 .. Len(bus') : bus'[i] = bus'[j] => i = j
    <3>1. CASE bus' = <<>>
      BY <3>1 DEF ToSet
    <3>2. CASE UNCHANGED bus
      <4>1. \A q \in ToSet(bus) : q \in Requests /\ Unborn(q) /\ q <= issued /\ q \in Nat
        BY BusFacts DEF BornInv, Requests
      <4> QED
        BY <1>0, <2>0, <3>2, <4>1 DEF BornInv
    <3> QED
      BY <2>1, <3>1, <3>2
  <2>2. ASSUME NEW r \in RunIds, At(r) = "publish", Asked(r)' = Asked(r),
               Asked(r) \notin ToSet(bus')
        PROVE  Unborn(Asked(r))' /\ Asked(r)' \notin ToSet(bus')
    <3>1. PICK q \in Requests : q = Asked(r)
      BY <2>2, Waited DEF Waiting
    <3>2. Unborn(q)'
      BY <2>0, <2>2, <3>1 DEF BornInv
    <3> QED
      BY <2>2, <3>1, <3>2 DEF Unborn
  <2>3. ASSUME NEW r \in RunIds, RunStep(r) PROVE BornInv'
    <3>0. /\ Others(r)
          /\ Quietly(r) \/ Asks(r) \/ Publishes(r) \/ Takes(r) \/ GivesUp(r) \/ Closes(r)
      BY <2>3, RunKinds
    <3>1. CASE Quietly(r) \/ Takes(r) \/ GivesUp(r) \/ Closes(r)
      <4>1. UNCHANGED bus /\ At(r)' # "publish"
        BY <3>1 DEF Quietly, Takes, GivesUp, Closes, desk, Waiting
      <4>2. \A s \in RunIds : At(s)' = "publish" => At(s) = "publish" /\ Asked(s)' = Asked(s)
        BY <3>0, <4>1 DEF Others
      <4>3. \A s \in RunIds : At(s)' = "publish" => Unborn(Asked(s))' /\ Asked(s)' \notin ToSet(bus')
        BY <2>2, <4>1, <4>2 DEF BornInv
      <4> QED
        BY <1>2, <2>1, <4>1, <4>3 DEF BornInv
    <3>2. CASE Asks(r)
      <4>1. UNCHANGED bus
        BY <3>2 DEF Asks, desk
      <4>2. PICK q \in Requests : q = issued'
        BY <3>2 DEF Asks
      <4>3. q > issued
        BY <1>0, <3>2, <4>2 DEF Asks
      <4>4. Unborn(q)' /\ q \notin ToSet(bus')
        <5>1. \A p \in ToSet(bus) : p <= issued
          BY DEF BornInv
        <5>2. q \notin ToSet(bus)
          BY <1>0, <4>3, <5>1 DEF Requests
        <5> QED
          BY <1>1, <4>1, <4>3, <5>2
      <4>5. Asked(r)' = q
        BY <3>2, <4>2 DEF Asks
      <4>6. Unborn(Asked(r))' /\ Asked(r)' \notin ToSet(bus')
        BY <4>4, <4>5 DEF Unborn
      <4>7. \A s \in RunIds : At(s)' = "publish" => Unborn(Asked(s))' /\ Asked(s)' \notin ToSet(bus')
        BY <2>2, <3>0, <4>1, <4>6 DEF Others, BornInv
      <4> QED
        BY <1>2, <2>1, <4>1, <4>7 DEF BornInv
    <3>3. CASE Publishes(r)
      <4>0. PICK q \in Requests : q = Asked(r)
        BY <3>3, Waited DEF Waiting, Publishes
      <4>1. At(r) = "publish" /\ At(r)' = "wait" /\ issued' = issued
            /\ (UNCHANGED bus \/ bus' = Append(bus, q))
        BY <3>3, <4>0 DEF Publishes
      <4>2. Unborn(q)' /\ q \notin ToSet(bus) /\ q <= issued
        <5>1. Unborn(q) /\ q \notin ToSet(bus)
          BY <4>0, <4>1 DEF BornInv
        <5>2. q \in 1 .. issued
          BY <4>0, <4>1 DEF AskedInv, Waiting
        <5> QED
          BY <2>0, <5>1, <5>2
      <4>3. /\ \A p \in ToSet(bus') : Unborn(p)' /\ p <= issued'
            /\ \A i, j \in 1 .. Len(bus') : bus'[i] = bus'[j] => i = j
        <5>1. CASE UNCHANGED bus
          BY <2>1, <5>1
        <5>2. CASE bus' = Append(bus, q)
          <6>1. \A p \in ToSet(bus) : Unborn(p)' /\ p <= issued
            BY <2>0, BusFacts DEF BornInv
          <6>2. \A i, j \in 1 .. Len(bus) : bus[i] = bus[j] => i = j
            BY DEF BornInv
          <6>3. \A p \in ToSet(bus') : Unborn(p)' /\ p <= issued'
            BY <4>1, <4>2, <5>2, <6>1, PutOnBus
          <6>4. \A i, j \in 1 .. Len(bus') : bus'[i] = bus'[j] => i = j
            BY <4>2, <5>2, <6>2, PutOnBus
          <6> QED
            BY <6>3, <6>4
        <5> QED
          BY <4>1, <5>1, <5>2
      <4>4. ASSUME NEW s \in RunIds, At(s)' = "publish"
            PROVE  Unborn(Asked(s))' /\ Asked(s)' \notin ToSet(bus')
        <5>1. s # r /\ At(s) = "publish" /\ Asked(s)' = Asked(s)
          BY <3>0, <4>1, <4>4 DEF Others
        <5>2. Asked(s) # q /\ Asked(s) \notin ToSet(bus)
          BY <4>0, <4>1, <5>1 DEF BornInv, AskedInv, Waiting
        <5>3. Asked(s) \notin ToSet(bus')
          BY <4>1, <5>2, PutOnBus
        <5> QED
          BY <2>2, <5>1, <5>3
      <4> QED
        BY <1>2, <4>3, <4>4 DEF BornInv
    <3> QED
      BY <3>0, <3>1, <3>2, <3>3
  <2>4. CASE Crash
    <3>1. bus' = <<>>
      BY <2>4 DEF Crash
    <3> QED
      BY <1>2, <2>1, <2>4, <3>1, CrashEnds DEF BornInv
  <2>5. CASE Tell \/ (\E c \in Clients : ClientStep(c)) \/ UNCHANGED vars
    <3>1. UNCHANGED bus
      BY <2>5 DEF Tell, ClientStep, Respond, Act, Send, ResolveNote, vars, desk
    <3>2. \A r \in RunIds : At(r)' = At(r) /\ Asked(r)' = Asked(r)
      BY <2>5, Elsewhere
    <3>3. \A r \in RunIds : At(r)' = "publish" => Unborn(Asked(r))' /\ Asked(r)' \notin ToSet(bus')
      BY <2>2, <3>1, <3>2 DEF BornInv
    <3> QED
      BY <1>2, <2>1, <3>1, <3>3 DEF BornInv
  <2> QED
    BY <1>4, <2>3, <2>4, <2>5 DEF Next
<1> QED
  BY <1>3, <1>4

LEMMA StepDiffer == DiskInv /\ BornInv /\ NotesDiffer /\ [Next]_vars => NotesDiffer'
<1> SUFFICES ASSUME DiskInv, BornInv, NotesDiffer, [Next]_vars PROVE NotesDiffer'
  OBVIOUS
<1>1. CASE MakeNote
  <2>1. PICK k \in Requests : k = Head(bus) /\ Unborn(k) /\ Keep(Add(store, Note(k)))
    BY <1>1, TakenFromBus DEF DiskInv, MakeNote, BornInv
  <2> QED
    BY <2>1, Added DEF NotesDiffer, Unborn
<1>2. ASSUME NEW c \in Clients, ResolveNote(c) PROVE NotesDiffer'
  <2>1. Keep(Resolve(store, client[c].req)) \/ store' = store
    BY <1>2 DEF ResolveNote, Keep
  <2> QED
    BY <2>1, AfterResolve DEF NotesDiffer
<1>3. ASSUME NEW r \in RunIds, RunStep(r) PROVE store' = store
  BY <1>3, RunKinds DEF DiskInv, Quietly, Asks, Publishes, Takes, GivesUp, Closes, desk
<1>4. Crash => store'.file = store.file
  BY DEF Crash, Keep, Load
<1>5. ASSUME NEW c \in Clients, ClientStep(c), ~ResolveNote(c) PROVE store' = store
  BY <1>5 DEF ClientStep, Respond, Act, Send, desk
<1> QED
  BY <1>1, <1>2, <1>3, <1>4, <1>5 DEF Next, Tell, vars, desk, NotesDiffer

(* The parts of the state that the notes are about.                        *)
NotesInv == DiskInv /\ AskedInv /\ BornInv /\ NotesDiffer /\ WaitInv /\ PendingIsVisible

LEMMA RunKeeps ==
  ASSUME DiskInv, NEW r \in RunIds, RunStep(r)
  PROVE  /\ UNCHANGED <<herald, told, store, client>>
         /\ lost \subseteq lost' /\ abandoned \subseteq abandoned'
         /\ ToSet(bus) \subseteq ToSet(bus')
         /\ \A q \in ToSet(bus') : q \in ToSet(bus) \/ (At(r)' = "wait" /\ Asked(r)' = q)
         /\ \A q \in Requests : answers[q] = <<>> => answers'[q] = <<>>
         /\ \A q \in Requests : answers'[q] # answers[q] => Takes(r) /\ q = Asked(r)
<1>1. /\ Quietly(r) \/ Asks(r) \/ Publishes(r) \/ Takes(r) \/ GivesUp(r) \/ Closes(r)
  BY RunKinds DEF DiskInv
<1>2. /\ UNCHANGED <<herald, told, store, client>>
      /\ lost \subseteq lost' /\ abandoned \subseteq abandoned'
      /\ UNCHANGED bus \/ (Publishes(r) /\ bus' = Append(bus, Asked(r)))
      /\ UNCHANGED answers \/ Takes(r)
  BY <1>1 DEF Quietly, Asks, Publishes, Takes, GivesUp, Closes, desk
<1>3. ASSUME Publishes(r), bus' = Append(bus, Asked(r))
      PROVE  ToSet(bus') = ToSet(bus) \cup {Asked(r)} /\ At(r)' = "wait" /\ Asked(r)' = Asked(r)
  <2>1. Asked(r) \in Requests
    BY <1>3, Waited DEF Publishes, Waiting, DiskInv
  <2> QED
    BY <1>3, <2>1, PutOnBus DEF DiskInv, Publishes
<1>4. ASSUME Takes(r), NEW q \in Requests
      PROVE  /\ answers[q] = <<>> => answers'[q] = <<>>
             /\ answers'[q] # answers[q] => q = Asked(r)
  BY <1>4 DEF Takes, DiskInv, IInv, TypeOK
<1> QED
  BY <1>2, <1>3, <1>4

LEMMA StepVisible == NotesInv /\ [Next]_vars => PendingIsVisible'
<1> SUFFICES ASSUME NotesInv, [Next]_vars, NEW s \in RunIds, At(s)' = "wait",
                    answers'[Asked(s)'] = <<>>
             PROVE  \/ Asked(s)' \in lost' \cup ToSet(bus')
                    \/ \E n \in Pending(store') : n.id = Asked(s)'
  BY DEF PendingIsVisible
<1> USE DEF NotesInv
<1>a. ASSUME At(s) = "wait", answers[Asked(s)] = <<>>
      PROVE  \/ Asked(s) \in lost \cup ToSet(bus)
             \/ \E n \in Pending(store) : n.id = Asked(s)
  BY <1>a DEF PendingIsVisible
<1>b. At(s) = "wait" => Asked(s) \in Requests
  BY Waited DEF DiskInv, Waiting
<1>1. ASSUME NEW r \in RunIds, RunStep(r)
      PROVE  \/ Asked(s)' \in lost' \cup ToSet(bus')
             \/ \E n \in Pending(store') : n.id = Asked(s)'
  <2>0. /\ Others(r)
        /\ Quietly(r) \/ Asks(r) \/ Publishes(r) \/ Takes(r) \/ GivesUp(r) \/ Closes(r)
    BY <1>1, RunKinds DEF DiskInv
  <2>1. CASE s = r
    <3>1. Publishes(r)
      BY <2>0, <2>1 DEF Quietly, Asks, Takes, GivesUp, Closes, Waiting
    <3>2. PICK q \in Requests : q = Asked(r)
      BY <3>1, Waited DEF Publishes, Waiting, DiskInv
    <3>3. bus' = Append(bus, q) => q \in ToSet(bus')
      BY PutOnBus DEF DiskInv
    <3> QED
      BY <2>1, <3>1, <3>2, <3>3 DEF Publishes
  <2>2. CASE s # r
    <3>1. At(s) = "wait" /\ Asked(s)' = Asked(s)
      BY <2>0, <2>2 DEF Others
    <3>2. Takes(r) => Asked(s) # Asked(r)
      BY <2>2, <3>1 DEF Takes, AskedInv, Waiting
    <3>3. answers[Asked(s)] = <<>>
      BY <1>1, <1>b, <3>1, <3>2, RunKeeps
    <3> QED
      BY <1>1, <1>a, <3>1, <3>3, RunKeeps
  <2> QED
    BY <2>1, <2>2
<1>2. CASE MakeNote
  <2>1. At(s) = "wait" /\ Asked(s)' = Asked(s) /\ answers[Asked(s)] = <<>>
    BY <1>2, Elsewhere DEF MakeNote, gate
  <2>2. PICK k \in Requests : k = Head(bus) /\ Keep(Add(store, Note(k)))
    BY <1>2, TakenFromBus DEF DiskInv, MakeNote
  <2>3. Note(k) \in Pending(store') /\ Note(k).id = k /\ lost \subseteq lost'
    BY <2>2, Added DEF Pending
  <2>4. CASE Asked(s) \in lost \cup ToSet(bus)
    BY <1>2, <2>1, <2>2, <2>3, <2>4, TakenFromBus DEF DiskInv
  <2>5. ASSUME NEW n \in Pending(store), n.id = Asked(s)
        PROVE  Asked(s) \in lost' \/ \E m \in Pending(store') : m.id = Asked(s)
    <3>1. n \in ToSet(store.entries) /\ ~n.resolved
      BY DEF Pending
    <3>2. n.id \in lost' \/ \E m \in ToSet(store'.entries) : m.id = n.id
      BY <2>2, <3>1, Added
    <3>3. \A m \in ToSet(store'.entries) : m = Note(k) \/ m \in ToSet(store.entries)
      BY <2>2, Added
    <3>4. \A m \in ToSet(store.entries) : m.id = n.id => m = n
      BY <3>1, NotesAre DEF NotesDiffer
    <3> QED
      BY <2>3, <2>5, <3>1, <3>2, <3>3, <3>4 DEF Pending
  <2> QED
    BY <1>a, <2>1, <2>4, <2>5
<1>3. CASE Tell \/ UNCHANGED vars
  <2>1. At(s) = "wait" /\ Asked(s)' = Asked(s) /\ UNCHANGED <<answers, lost, bus, store>>
    BY <1>3, Elsewhere DEF Tell, vars, gate, desk
  <2> QED
    BY <1>a, <2>1
<1>4. ASSUME NEW c \in Clients, ClientStep(c)
      PROVE  \/ Asked(s)' \in lost' \cup ToSet(bus')
             \/ \E n \in Pending(store') : n.id = Asked(s)'
  <2>0. At(s) = "wait" /\ Asked(s)' = Asked(s) /\ UNCHANGED bus
    BY <1>4, Elsewhere DEF ClientStep, Respond, Act, Send, ResolveNote, desk
  <2>1. ASSUME NEW a \in Answers, Send(c, a) PROVE answers[Asked(s)] = <<>>
    BY <1>b, <2>0, <2>1 DEF Send, DiskInv, IInv, TypeOK
  <2>2. CASE ResolveNote(c)
    <3>1. client[c].at = "resolve" /\ answers[Asked(s)] = <<>>
      BY <2>0, <2>2 DEF ResolveNote, gate
    <3>2. client[c].req # Asked(s)
      BY <2>0, <3>1 DEF WaitInv, Unanswered
    <3>3. Keep(Resolve(store, client[c].req)) \/ Keep(store)
      BY <2>2 DEF ResolveNote
    <3>4. CASE Keep(store)
      BY <1>a, <2>0, <3>1, <3>4 DEF Keep
    <3>5. CASE Keep(Resolve(store, client[c].req))
      BY <1>a, <2>0, <3>1, <3>2, <3>5, AfterResolve
    <3> QED
      BY <3>3, <3>4, <3>5
  <2>3. CASE ~ResolveNote(c)
    <3>1. UNCHANGED <<lost, store>> /\ answers[Asked(s)] = <<>>
      BY <1>4, <2>0, <2>1, <2>3 DEF ClientStep, Respond, Act, Send, gate, desk
    <3> QED
      BY <1>a, <2>0, <3>1
  <2> QED
    BY <2>2, <2>3
<1>5. CASE Crash
  BY <1>5, CrashEnds
<1> QED
  BY <1>1, <1>2, <1>3, <1>4, <1>5 DEF Next

WaitsOnBus(q) == q \in abandoned \/ \E r \in RunIds : At(r) = "wait" /\ Asked(r) = q
Asking(q) == answers[q] = <<>> /\ \E r \in RunIds : Unanswered(r, q)

LEMMA StepWaitsOnBus ==
  ASSUME NotesInv, [Next]_vars, NEW q \in ToSet(bus')
  PROVE  WaitsOnBus(q)'
<1> USE DEF NotesInv
<1>a. q \in ToSet(bus) => q \in Requests /\ answers[q] = <<>> /\ WaitsOnBus(q)
  BY BusFacts DEF DiskInv, BornInv, Unborn, WaitInv, WaitsOnBus
<1>1. ASSUME NEW r \in RunIds, RunStep(r) PROVE WaitsOnBus(q)'
  <2>0. /\ Others(r)
        /\ Quietly(r) \/ Asks(r) \/ Publishes(r) \/ Takes(r) \/ GivesUp(r) \/ Closes(r)
    BY <1>1, RunKinds DEF DiskInv
  <2>1. q \in ToSet(bus) \/ (At(r)' = "wait" /\ Asked(r)' = q)
    BY <1>1, RunKeeps
  <2>2. abandoned \subseteq abandoned'
    BY <1>1, RunKeeps
  <2>3. ASSUME NEW s \in RunIds, At(s) = "wait", Asked(s) = q, q \in ToSet(bus)
        PROVE  WaitsOnBus(q)'
    <3>1. CASE s # r
      BY <2>0, <2>3, <3>1 DEF Others, WaitsOnBus
    <3>2. CASE s = r
      <4>1. GivesUp(r)
        BY <1>a, <2>0, <2>3, <3>2 DEF Quietly, Asks, Publishes, Takes, Closes, Waiting
      <4> QED
        BY <2>3, <3>2, <4>1 DEF GivesUp, WaitsOnBus
    <3> QED
      BY <3>1, <3>2
  <2> QED
    BY <1>a, <2>1, <2>2, <2>3 DEF WaitsOnBus
<1>2. CASE MakeNote \/ Tell \/ (\E c \in Clients : ClientStep(c)) \/ UNCHANGED vars
  <2>1. q \in ToSet(bus)
    <3>1. CASE MakeNote
      BY <3>1, TakenFromBus DEF DiskInv
    <3>2. CASE ~MakeNote
      BY <1>2, <3>2 DEF Tell, ClientStep, Respond, Act, Send, ResolveNote, vars, desk
    <3> QED
      BY <3>1, <3>2
  <2> QED
    BY <1>2, <1>a, <2>1, Elsewhere DEF WaitsOnBus
<1>3. CASE Crash
  BY <1>3 DEF Crash, ToSet
<1> QED
  BY <1>1, <1>2, <1>3 DEF Next

(* A client that is to resolve a note had its request answered, or found   *)
(* that nobody waits.                                                      *)
AnsweredFirst(c, r) ==
  client[c].at = "resolve" /\ Unanswered(r, client[c].req) => answers[client[c].req] # <<>>

LEMMA StepAnsweredFirst ==
  ASSUME NotesInv, [Next]_vars, NEW c \in Clients, NEW s \in RunIds
  PROVE  AnsweredFirst(c, s)'
<1> USE DEF NotesInv
<1>0. /\ client \in [Clients -> [at : {"free", "send", "resolve"}, req : Requests \cup {NoRequest}]]
      /\ answers \in [Requests -> {<<>>} \cup {<<a>> : a \in Answers}]
      /\ client[c].at # "free" => client[c].req \in Requests
  BY DEF DiskInv, IInv, TypeOK, ClientsPlaced
<1>a. AnsweredFirst(c, s)
  BY DEF WaitInv, AnsweredFirst
<1>1. ASSUME NEW r \in RunIds, RunStep(r) PROVE AnsweredFirst(c, s)'
  <2>0. /\ Others(r)
        /\ Quietly(r) \/ Asks(r) \/ Publishes(r) \/ Takes(r) \/ GivesUp(r) \/ Closes(r)
    BY <1>1, RunKinds DEF DiskInv
  <2> SUFFICES ASSUME client'[c].at = "resolve", At(s)' \in {"publish", "wait"},
                      Asked(s)' = client'[c].req
               PROVE  answers'[client'[c].req] # <<>>
    BY DEF AnsweredFirst, Unanswered
  <2>1. client' = client
    BY <1>1, RunKeeps
  <2>2. PICK k \in Requests : k = client[c].req
    BY <1>0, <2>1
  <2>3. CASE s # r
    <3>1. At(s) \in {"publish", "wait"} /\ Asked(s) = k
      BY <2>0, <2>1, <2>2, <2>3 DEF Others
    <3>2. answers[k] # <<>>
      BY <1>a, <2>1, <2>2, <3>1 DEF AnsweredFirst, Unanswered
    <3>3. Takes(r) => k # Asked(r)
      BY <2>3, <3>1 DEF Takes, AskedInv, Waiting
    <3> QED
      BY <1>1, <2>1, <2>2, <3>2, <3>3, RunKeeps
  <2>4. CASE s = r
    <3>1. Asks(r) \/ Publishes(r)
      BY <2>0, <2>4 DEF Quietly, Takes, GivesUp, Closes, Waiting
    <3>2. CASE Asks(r)
      <4>1. issued \in Nat /\ k = issued + 1
        BY <2>1, <2>2, <2>4, <3>2 DEF Asks, DiskInv, IInv, TypeOK
      <4>2. k > issued
        BY <4>1
      <4>3. Unborn(k)
        BY <4>2 DEF BornInv
      <4> QED
        BY <2>1, <2>2, <4>3 DEF Unborn
    <3>3. CASE Publishes(r)
      <4>1. Unanswered(r, k) /\ answers' = answers
        BY <2>1, <2>2, <2>4, <3>3 DEF Publishes, Unanswered
      <4> QED
        BY <1>a, <2>1, <2>2, <2>4, <4>1 DEF AnsweredFirst
    <3> QED
      BY <3>1, <3>2, <3>3
  <2> QED
    BY <2>3, <2>4
<1>2. CASE MakeNote \/ Tell \/ UNCHANGED vars
  <2>1. UNCHANGED <<client, answers>>
    BY <1>2 DEF MakeNote, Tell, vars, gate
  <2> QED
    BY <1>2, <1>a, <2>1, Elsewhere DEF AnsweredFirst, Unanswered
<1>3. ASSUME NEW d \in Clients, ClientStep(d) PROVE AnsweredFirst(c, s)'
  <2>0. At(s)' = At(s) /\ Asked(s)' = Asked(s)
    BY <1>3, Elsewhere
  <2>1. ASSUME NEW q \in Requests, Respond(d, q) PROVE AnsweredFirst(c, s)'
    <3>1. UNCHANGED answers /\ (client'[c] = client[c] \/ client'[c].at = "send")
      BY <1>0, <2>1 DEF Respond, gate
    <3> QED
      BY <1>a, <2>0, <3>1 DEF AnsweredFirst, Unanswered
  <2>2. ASSUME NEW q \in Requests, Act(d, q) PROVE AnsweredFirst(c, s)'
    <3>1. UNCHANGED answers
          /\ \/ client'[c] = client[c] \/ client'[c].at = "send"
             \/ client'[c].req = q /\ q \notin pending
      BY <1>0, <2>2 DEF Act, gate
    <3>2. Unanswered(s, q) => q \in pending
      BY DEF AskedInv, Unanswered, Waiting
    <3> QED
      BY <1>a, <2>0, <3>1, <3>2 DEF AnsweredFirst, Unanswered
  <2>3. ASSUME NEW a \in Answers, Send(d, a) PROVE AnsweredFirst(c, s)'
    <3>1. PICK q \in Requests : q = client[d].req
      BY <2>3 DEF Send, DiskInv, IInv, ClientsPlaced
    <3>2. answers' = [answers EXCEPT ![q] = <<a>>] /\ client' = [client EXCEPT ![d].at = "resolve"]
      BY <2>3, <3>1 DEF Send
    <3>3. <<a>> # <<>> /\ client'[c].req = client[c].req
      BY <1>0, <3>2
    <3>4. CASE client[c].req = q
      BY <1>0, <3>2, <3>3, <3>4 DEF AnsweredFirst
    <3>5. CASE client[c].req # q
      <4>1. c # d /\ client'[c] = client[c]
        BY <1>0, <3>1, <3>2, <3>5
      <4>2. client[c].at = "resolve" => answers'[client[c].req] = answers[client[c].req]
        BY <1>0, <3>2, <3>5
      <4> QED
        BY <1>a, <2>0, <4>1, <4>2 DEF AnsweredFirst, Unanswered
    <3> QED
      BY <3>4, <3>5
  <2>4. CASE ResolveNote(d)
    <3>1. UNCHANGED answers /\ (client'[c] = client[c] \/ client'[c].at = "free")
      BY <1>0, <2>4 DEF ResolveNote, gate, Free
    <3> QED
      BY <1>a, <2>0, <3>1 DEF AnsweredFirst, Unanswered
  <2> QED
    BY <1>3, <2>1, <2>2, <2>3, <2>4 DEF ClientStep
<1>4. CASE Crash
  BY <1>4 DEF Crash, Free, AnsweredFirst
<1> QED
  BY <1>1, <1>2, <1>3, <1>4 DEF Next

(* A listed note asks about a request that waits for its first answer, is  *)
(* in the hands of a client, or has nobody waiting.                        *)
Alive(q) == q \in abandoned \/ Held(q) \/ Asking(q)

LEMMA StepAlive ==
  ASSUME NotesInv, [Next]_vars, NEW n \in Pending(store')
  PROVE  Alive(n.id)'
<1> USE DEF NotesInv
<1>0. /\ client \in [Clients -> [at : {"free", "send", "resolve"}, req : Requests \cup {NoRequest}]]
      /\ answers \in [Requests -> {<<>>} \cup {<<a>> : a \in Answers}]
  BY DEF DiskInv, IInv, TypeOK
<1>a. n \in Pending(store) => n.id \in Requests /\ Alive(n.id)
  BY NotesAre DEF WaitInv, Alive, Asking, Pending
<1>1. ASSUME NEW r \in RunIds, RunStep(r) PROVE Alive(n.id)'
  <2>0. /\ Others(r)
        /\ Quietly(r) \/ Asks(r) \/ Publishes(r) \/ Takes(r) \/ GivesUp(r) \/ Closes(r)
    BY <1>1, RunKinds DEF DiskInv
  <2>1. client' = client /\ store' = store /\ abandoned \subseteq abandoned'
    BY <1>1, RunKeeps
  <2>2. PICK q \in Requests : q = n.id /\ Alive(q)
    BY <1>a, <2>1
  <2>3. CASE q \in abandoned \/ Held(q)
    BY <2>1, <2>2, <2>3 DEF Alive, Held
  <2>4. ASSUME answers[q] = <<>>, NEW s \in RunIds, Unanswered(s, q) PROVE Alive(q)'
    <3>1. answers'[q] = <<>>
      BY <1>1, <2>4, RunKeeps
    <3>2. CASE s # r
      BY <2>0, <2>4, <3>1, <3>2 DEF Others, Unanswered, Asking, Alive
    <3>3. CASE s = r
      <4>1. Publishes(r) \/ GivesUp(r)
        BY <2>0, <2>4, <3>3 DEF Quietly, Asks, Takes, Closes, Unanswered, Waiting
      <4> QED
        BY <2>4, <3>1, <3>3, <4>1 DEF Publishes, GivesUp, Unanswered, Asking, Alive
    <3> QED
      BY <3>2, <3>3
  <2> QED
    BY <2>2, <2>3, <2>4 DEF Alive, Asking
<1>2. ASSUME n \in Pending(store),
             MakeNote \/ Tell \/ (\E c \in Clients : ClientStep(c)) \/ UNCHANGED vars,
             UNCHANGED answers \/ (\E c \in Clients, a \in Answers : Send(c, a)),
             Held(n.id) => Held(n.id)'
      PROVE  Alive(n.id)'
  <2>1. PICK q \in Requests : q = n.id /\ Alive(q)
    BY <1>2, <1>a
  <2>2. UNCHANGED abandoned /\ \A r \in RunIds : Unanswered(r, q) => Unanswered(r, q)'
    BY <1>2, Elsewhere DEF Unanswered
  <2>3. CASE UNCHANGED answers
    BY <1>2, <2>1, <2>2, <2>3 DEF Alive, Asking, Held
  <2>4. ASSUME NEW c \in Clients, NEW a \in Answers, Send(c, a) PROVE Alive(q)'
    <3>1. CASE client[c].req = q
      <4>1. client'[c].at = "resolve" /\ client'[c].req = q
        BY <1>0, <2>4, <3>1 DEF Send
      <4> QED
        BY <4>1 DEF Alive, Held
    <3>2. CASE client[c].req # q
      <4>1. answers'[q] = answers[q]
        BY <1>0, <2>4, <3>2 DEF Send
      <4> QED
        BY <1>2, <2>1, <2>2, <4>1 DEF Alive, Asking, Held
    <3> QED
      BY <3>1, <3>2
  <2> QED
    BY <1>2, <2>1, <2>3, <2>4
<1>3. CASE MakeNote
  <2>1. PICK k \in Requests : k = Head(bus) /\ k \in ToSet(bus) /\ Keep(Add(store, Note(k)))
    BY <1>3, TakenFromBus DEF DiskInv, MakeNote
  <2>2. UNCHANGED <<answers, client>>
    BY <1>3 DEF MakeNote, gate
  <2>3. n \in ToSet(store.entries) \/ n = Note(k)
    BY <2>1, Added DEF Pending
  <2>4. CASE n \in ToSet(store.entries)
    BY <1>2, <1>3, <2>2, <2>4 DEF Pending, Held
  <2>5. CASE n = Note(k)
    <3>1. n.id = k /\ answers[k] = <<>> /\ WaitsOnBus(k)
      BY <2>1, <2>5 DEF Note, BornInv, Unborn, WaitInv, WaitsOnBus
    <3>2. Alive(k)'
      BY <1>3, <2>2, <3>1, Elsewhere DEF WaitsOnBus, Alive, Asking, Unanswered
    <3> QED
      BY <3>1, <3>2
  <2> QED
    BY <2>3, <2>4, <2>5
<1>4. CASE Tell \/ UNCHANGED vars
  BY <1>2, <1>4 DEF Tell, vars, gate, desk, Held
<1>5. ASSUME NEW c \in Clients, ClientStep(c) PROVE Alive(n.id)'
  <2>1. ASSUME NEW q \in Requests, Respond(c, q) \/ Act(c, q) PROVE Alive(n.id)'
    <3>1. UNCHANGED <<answers, store>> /\ client[c].at = "free"
          /\ \A d \in Clients \ {c} : client'[d] = client[d]
      BY <1>0, <2>1 DEF Respond, Act, gate, desk
    <3> QED
      BY <1>2, <1>5, <3>1 DEF Held
  <2>2. ASSUME NEW a \in Answers, Send(c, a) PROVE Alive(n.id)'
    <3>1. UNCHANGED store
          /\ \A d \in Clients : client[d].at # "free" =>
                client'[d].at # "free" /\ client'[d].req = client[d].req
      BY <1>0, <2>2 DEF Send, desk
    <3> QED
      BY <1>2, <1>5, <2>2, <3>1 DEF Held
  <2>3. CASE ResolveNote(c)
    <3>1. UNCHANGED answers /\ \A d \in Clients \ {c} : client'[d] = client[d]
      BY <1>0, <2>3 DEF ResolveNote, gate
    <3>2. n \in Pending(store) /\ n.id # client[c].req
      <4>1. CASE Keep(Resolve(store, client[c].req))
        BY <4>1, AfterResolve
      <4>2. CASE ~Keep(Resolve(store, client[c].req))
        BY <2>3, <4>2 DEF ResolveNote, Keep
      <4> QED
        BY <4>1, <4>2
    <3> QED
      BY <1>2, <1>5, <3>1, <3>2 DEF Held
  <2> QED
    BY <1>5, <2>1, <2>2, <2>3 DEF ClientStep
<1>6. CASE Crash
  <2>1. store'.file = store.file /\ store'.entries = Newest(store.file) /\ abandoned' = 1 .. issued
    BY <1>6 DEF Crash, Keep, Load
  <2>2. n \in ToSet(store.file) /\ n.id \in Requests
    BY <2>1, NotesAre, NewestIn DEF Pending
  <2>3. ~(n.id > issued)
    BY <2>2 DEF BornInv, Unborn
  <2>4. n.id \in 1 .. issued
    BY <2>2, <2>3 DEF Requests, DiskInv, IInv, TypeOK
  <2> QED
    BY <2>1, <2>4 DEF Alive
<1> QED
  BY <1>1, <1>3, <1>4, <1>5, <1>6 DEF Next

LEMMA StepNotesInv == NotesInv /\ [Next]_vars => NotesInv'
<1> SUFFICES ASSUME NotesInv, [Next]_vars PROVE NotesInv'
  OBVIOUS
<1>1. DiskInv' /\ AskedInv' /\ BornInv' /\ NotesDiffer' /\ PendingIsVisible'
  BY StepIInv, StepNotes, StepAsked, StepBorn, StepDiffer, StepVisible DEF NotesInv, DiskInv
<1>2. WaitInv'
  BY StepWaitsOnBus, StepAnsweredFirst, StepAlive
  DEF WaitInv, WaitsOnBus, AnsweredFirst, Alive, Asking
<1> QED
  BY <1>1, <1>2 DEF NotesInv

LEMMA InitNotesInv == Init => NotesInv
<1> SUFFICES ASSUME Init PROVE NotesInv
  OBVIOUS
<1>1. DiskInv
  BY InitIInv, NotesAssumption DEF DiskInv, Init, NotesOnDisk, Newest, NotesAssumption
<1>2. \A r \in RunIds : At(r) = "idle"
  BY DEF Init, Gone, Fresh, At
<1>3. store.file = <<>> /\ store.entries = <<>> /\ bus = <<>> /\ pending = {}
  BY DEF Init
<1>4. \A q \in Requests : Unborn(q)
  BY DEF Init, Unborn, Free, ToSet, Requests, NoRequest
<1>5. AskedInv /\ BornInv
  BY <1>2, <1>3, <1>4 DEF AskedInv, BornInv, Waiting, ToSet
<1>6. NotesDiffer /\ WaitInv /\ PendingIsVisible
  BY <1>2, <1>3 DEF NotesDiffer, WaitInv, PendingIsVisible, Pending, ToSet, Unanswered
<1> QED
  BY <1>1, <1>5, <1>6 DEF NotesInv

LEMMA NotesInvariance == Spec => []NotesInv
BY InitNotesInv, StepNotesInv, PTL DEF Spec

(* What the list shows as pending is what runs wait for, for any runs,     *)
(* clients, capacities, doubled and late answers, cancels and crashes      *)
(* (gateway.go, broadcastApprovalRequests and actOnApproval).              *)
THEOREM NotesMatchTheRequests == Spec => []NotesMatchRequests
<1>1. NotesInv => NotesMatchRequests
  <2> SUFFICES ASSUME NotesInv PROVE NoDeadNotes
    BY DEF NotesInv, NotesMatchRequests
  <2> SUFFICES ASSUME NEW n \in Pending(store)
               PROVE  \/ n.id \in pending \cup abandoned
                      \/ \E c \in Clients : client[c].req = n.id /\ client[c].at # "free"
    BY DEF NoDeadNotes
  <2>1. \A r \in RunIds : Unanswered(r, n.id) => n.id \in pending
    BY DEF NotesInv, AskedInv, Unanswered, Waiting
  <2> QED
    BY <2>1 DEF NotesInv, WaitInv, Held
<1> QED
  BY <1>1, NotesInvariance, PTL

-----------------------------------------------------------------------------
(* Consent.  Every answer that a run takes is the first to its request, so *)
(* the user meant it; the keys of the checker, of a run that saves them    *)
(* and of meta.json all go back to an "always" that the user said.         *)

Earned(r) == <<run[r].session, Key(run[r].agent, run[r].call)>> \in granted

Ruled(r) ==
  /\ At(r) \in {"publish", "wait"} /\ Asked(r) \in ruled => answers[Asked(r)] # <<>>
  /\ Backed(r)
  /\ At(r) = "wait" /\ run[r].for = "tool" /\ answers[Asked(r)] = <<"always">> => Earned(r)
  /\ At(r) = "close" /\ run[r].for = "tool" /\ run[r].answer = "always" => Earned(r)
  /\ At(r) = "grant" => Earned(r)

GrantedKeys == {key \in Keys : \E s \in Sessions : <<s, key>> \in granted}

Founded ==
  /\ approved \subseteq GrantedKeys
  /\ \A s \in Sessions : saved[s] \subseteq GrantedKeys
  /\ \A r \in RunIds : run[r].keys \subseteq GrantedKeys

ConsentInv ==
  /\ ruled \subseteq 1..issued
  /\ Founded
  /\ \A r \in RunIds : Ruled(r) /\ Permitted(run[r], approved, consented)

LEMMA RunsDoNotRule ==
  ASSUME NEW r \in RunIds, RunStep(r)
  PROVE  UNCHANGED <<ruled, consented, granted>>
BY DEF RunStep, Start, End, Allow, Prompt, Request, WithinWorkspace, aux,
       OutsideWorkspace, Execute, Publish, Drop, TakeAnswer, GiveUp, Close,
       Grant, ApprovedKeys, SavePatterns

(* Where the keys come from that a step of a run moves.                    *)
KeysMoved(r) ==
  /\ run'[r].keys \subseteq run[r].keys \cup approved
  /\ \A key \in approved' :
       \/ key \in approved \/ \E s \in Sessions : key \in saved[s]
       \/ At(r) = "grant" /\ key = Key(run[r].agent, run[r].call)
  /\ \A s \in Sessions : saved'[s] \subseteq saved[s] \cup run[r].keys

LEMMA KeysMove ==
  ASSUME IInv, NEW r \in RunIds, RunStep(r)
  PROVE  KeysMoved(r)
<1>0. /\ run \in [RunIds -> RunState] /\ run[r] \in RunState
      /\ saved \in [Sessions -> SUBSET Keys]
  BY DEF IInv, TypeOK
<1> DEFINE Quiet == UNCHANGED <<approved, saved>>
<1>a. run'[r].keys \subseteq run[r].keys \cup approved /\ Quiet => KeysMoved(r)
  BY DEF KeysMoved
<1>1. ASSUME NEW a \in Agents, NEW s \in Sessions, Start(r, a, s)
      PROVE  KeysMoved(r)
  <2>1. run'[r].keys = {} /\ approved' = approved \cup saved[s] /\ saved' = saved
    BY <1>0, <1>1 DEF Start, Fresh
  <2> QED BY <2>1 DEF KeysMoved
<1>2. ASSUME NEW c \in Calls, Allow(r, c) PROVE run'[r].keys = run[r].keys /\ Quiet
  BY <1>0, <1>2 DEF Allow, RunState, perms
<1>3. ASSUME NEW c, NEW purpose, Request(r, c, purpose)
      PROVE  run'[r].keys = run[r].keys /\ Quiet
  BY <1>0, <1>3 DEF Request, Requesting, RunState, perms
<1>4. ASSUME WithinWorkspace(r) \/ Publish(r) \/ Drop(r) \/ GiveUp(r)
      PROVE  run'[r].keys = run[r].keys /\ Quiet
  BY <1>0, <1>4 DEF WithinWorkspace, Publish, Drop, GiveUp, Goto, RunState, perms
<1>5. ASSUME TakeAnswer(r) PROVE run'[r].keys = run[r].keys /\ Quiet
  <2>1. PICK b : b = Head(answers[Asked(r)])
    OBVIOUS
  <2> QED BY <1>0, <1>5, <2>1 DEF TakeAnswer, RunState, perms
<1>6. ASSUME Execute(r) \/ End(r) PROVE run'[r].keys = {} /\ Quiet
  BY <1>0, <1>6 DEF Execute, End, Gone, NextCall, Fresh, perms
<1>7. ASSUME Close(r) PROVE run'[r].keys \subseteq run[r].keys /\ Quiet
  <2>1. run'[r] = After(run[r]) /\ Quiet
    BY <1>0, <1>7 DEF Close, perms
  <2> QED BY <1>0, <2>1 DEF After, NextCall, Fresh, Written, Passed, RunState
<1>8. ASSUME Grant(r)
      PROVE  KeysMoved(r)
  <2>1. /\ run'[r].keys = run[r].keys /\ saved' = saved /\ At(r) = "grant"
        /\ approved' = approved \cup {Key(run[r].agent, run[r].call)}
    BY <1>0, <1>8 DEF Grant, Goto, RunState
  <2> QED BY <2>1 DEF KeysMoved
<1>9. ASSUME ApprovedKeys(r) PROVE run'[r].keys = approved /\ Quiet
  BY <1>0, <1>9 DEF ApprovedKeys, RunState, perms
<1>10. ASSUME SavePatterns(r)
       PROVE  KeysMoved(r)
  <2>1. /\ run'[r].keys = {} /\ approved' = approved
        /\ saved' = [saved EXCEPT ![run[r].session] = run[r].keys]
    BY <1>0, <1>10 DEF SavePatterns, RunState
  <2>2. \A s \in Sessions : saved'[s] \subseteq saved[s] \cup run[r].keys
    BY <1>0, <2>1
  <2> QED BY <2>1, <2>2 DEF KeysMoved
<1> HIDE DEF Quiet
<1> QED BY <1>a, <1>1, <1>2, <1>3, <1>4, <1>5, <1>6, <1>7, <1>8, <1>9, <1>10
        DEF RunStep, Prompt, OutsideWorkspace

LEMMA RunFounded ==
  ASSUME IInv, ConsentInv, NEW r \in RunIds, RunStep(r)
  PROVE  Founded'
<1>1. KeysMoved(r)
  BY KeysMove
<1>2. GrantedKeys' = GrantedKeys
  BY RunsDoNotRule DEF GrantedKeys
<1>3. \A p \in RunIds : p # r => run'[p] = run[p]
  BY RunStepEffect DEF RunEffect, IInv, TypeOK
<1>4. At(r) = "grant" => Key(run[r].agent, run[r].call) \in GrantedKeys
  <2> SUFFICES ASSUME At(r) = "grant" PROVE Key(run[r].agent, run[r].call) \in GrantedKeys
    OBVIOUS
  <2>1. Earned(r)
    BY DEF ConsentInv, Ruled
  <2>2. granted \subseteq Sessions \X Keys
    BY DEF IInv, TypeOK
  <2> QED BY <2>1, <2>2 DEF Earned, GrantedKeys
<1>5. /\ approved \subseteq GrantedKeys
      /\ \A s \in Sessions : saved[s] \subseteq GrantedKeys
      /\ \A p \in RunIds : run[p].keys \subseteq GrantedKeys
  BY DEF ConsentInv, Founded
<1> HIDE DEF GrantedKeys
<1>6. approved' \subseteq GrantedKeys
  BY <1>1, <1>4, <1>5 DEF KeysMoved
<1>7. \A s \in Sessions : saved'[s] \subseteq GrantedKeys
  BY <1>1, <1>5 DEF KeysMoved
<1>8. \A p \in RunIds : run'[p].keys \subseteq GrantedKeys
  BY <1>1, <1>3, <1>5 DEF KeysMoved
<1> QED BY <1>2, <1>6, <1>7, <1>8 DEF Founded

(* What a step of a run makes of the answer to its own request.            *)
LEMMA OwnRuling ==
  ASSUME NotesInv, ConsentInv, NEW r \in RunIds, RunStep(r)
  PROVE  Ruled(r)'
<1> USE DEF NotesInv, DiskInv
<1>0. /\ run \in [RunIds -> RunState] /\ run[r] \in RunState /\ Placed(run[r])
      /\ issued \in Nat /\ Ruled(r) /\ ruled \subseteq 1..issued
  BY DEF IInv, TypeOK, ConsentInv
<1>1. UNCHANGED <<ruled, consented, granted>>
  BY RunsDoNotRule
<1>2. ASSUME run'[r].at \notin {"publish", "wait", "close", "grant"} PROVE Ruled(r)'
  BY <1>2 DEF Ruled, Backed, At
<1> DEFINE Past == run'[r].at \notin {"publish", "wait", "close", "grant"}
<1>3. ASSUME NEW a \in Agents, NEW s \in Sessions, Start(r, a, s) PROVE Past
  BY <1>0, <1>3 DEF Start, Fresh
<1>4. ASSUME NEW c \in Calls, Allow(r, c) PROVE Past
  BY <1>0, <1>4 DEF Allow, RunState
<1>5. ASSUME End(r) \/ Execute(r) PROVE Past
  BY <1>0, <1>5 DEF End, Execute, Gone, NextCall, Fresh
<1>6. ASSUME WithinWorkspace(r) \/ Grant(r) \/ ApprovedKeys(r) \/ SavePatterns(r)
      PROVE  Past
  BY <1>0, <1>6 DEF WithinWorkspace, Grant, ApprovedKeys, SavePatterns, Goto, RunState
<1>7. ASSUME NEW c, NEW purpose \in Purposes, Request(r, c, purpose),
             At(r) \in {"model", "boundary"}
      PROVE  Ruled(r)'
  <2>1. Asks(r)
    BY <1>7, RequestAsks DEF Waiting
  <2>2. At(r)' = "publish" /\ Asked(r)' = issued + 1
    BY <2>1 DEF Asks
  <2>3. issued + 1 \notin ruled'
    BY <1>0, <1>1
  <2> QED BY <2>2, <2>3 DEF Ruled, Backed
<1>8. ASSUME Publish(r) \/ Drop(r) PROVE Ruled(r)'
  <2>1. At(r) = "publish" /\ Goto(r, "wait") /\ answers' = answers
    BY <1>8 DEF Publish, Drop, gate
  <2>2. At(r)' = "wait" /\ Asked(r)' = Asked(r)
    BY <2>1, MovesOn
  <2>3. answers[Asked(r)] = <<>>
    BY <2>1 DEF BornInv, Unborn
  <2>4. \A b : <<b>> # <<>>
    OBVIOUS
  <2> QED BY <1>0, <1>1, <2>1, <2>2, <2>3, <2>4 DEF Ruled, Backed
<1>9. ASSUME TakeAnswer(r) PROVE Ruled(r)'
  <2>1. At(r) = "wait" /\ Asked(r) \in Requests
    BY <1>9, Waited DEF TakeAnswer, Waiting
  <2>2. PICK a \in Answers : answers[Asked(r)] = <<a>>
    BY <1>9, <2>1 DEF IInv, TypeOK, TakeAnswer
  <2>3. run'[r] = [run[r] EXCEPT !.at = "close", !.answer = a]
    BY <1>0, <1>9, <2>2 DEF TakeAnswer
  <2>4. /\ run'[r].at = "close" /\ run'[r].answer = a /\ run'[r].for = run[r].for
        /\ run'[r].session = run[r].session /\ run'[r].agent = run[r].agent
        /\ run'[r].call = run[r].call
    BY <1>0, <2>3 DEF RunState
  <2>5. a = "always" /\ run[r].for = "tool" => Earned(r)
    BY <1>0, <2>1, <2>2 DEF Ruled
  <2> QED BY <1>1, <2>4, <2>5 DEF Ruled, Backed, Earned, At
<1>10. ASSUME GiveUp(r) PROVE Ruled(r)'
  <2>1. run'[r] = [run[r] EXCEPT !.at = "close"] /\ run[r].answer = "none"
    BY <1>0, <1>10 DEF GiveUp, Goto, Placed, At
  <2>2. run'[r].at = "close" /\ run'[r].answer = "none"
    BY <1>0, <2>1 DEF RunState
  <2> QED BY <2>2 DEF Ruled, Backed, At
<1>11. ASSUME Close(r) PROVE Ruled(r)'
  <2>1. run'[r] = After(run[r]) /\ At(r) = "close"
    BY <1>0, <1>11 DEF Close
  <2>2. CASE run[r].answer = "always" /\ run[r].for = "tool"
    <3>1. run'[r] = Passed(run[r], "grant")
      BY <2>1, <2>2 DEF After, Approving
    <3>2. /\ run'[r].at = "grant" /\ run'[r].session = run[r].session
          /\ run'[r].agent = run[r].agent /\ run'[r].call = run[r].call
      BY <1>0, <3>1 DEF Passed, RunState
    <3>3. Earned(r)
      BY <1>0, <2>1, <2>2 DEF Ruled
    <3> QED BY <1>1, <3>2, <3>3 DEF Ruled, Backed, Earned, At
  <2>3. CASE ~(run[r].answer = "always" /\ run[r].for = "tool")
    <3>1. run[r].for \in {"tool", "write"}
      BY <1>0 DEF RunState, Purposes
    <3>2. run'[r].at \in {"model", "execute", "boundary"}
      BY <1>0, <2>1, <2>3, <3>1 DEF After, NextCall, Fresh, Written, Passed, RunState
    <3> QED BY <1>2, <3>2
  <2> QED BY <2>2, <2>3
<1> QED BY <1>2, <1>3, <1>4, <1>5, <1>6, <1>7, <1>8, <1>9, <1>10, <1>11
        DEF RunStep, Prompt, OutsideWorkspace, Purposes

LEMMA RunConsents ==
  ASSUME NotesInv, ConsentInv, NEW r \in RunIds, RunStep(r)
  PROVE  ConsentInv'
<1> USE DEF NotesInv, DiskInv
<1>1. UNCHANGED <<ruled, consented, granted>>
  BY RunsDoNotRule
<1>2. \A p \in RunIds : p # r => run'[p] = run[p]
  BY RunStepEffect DEF RunEffect, IInv, TypeOK
<1>3. approved \subseteq approved'
  BY RunStepEffect DEF RunEffect
<1>4. ruled' \subseteq 1..issued'
  <2>1. issued \in Nat /\ (issued' = issued \/ issued' = issued + 1)
    BY RunKinds DEF IInv, TypeOK, Quietly, Asks, Publishes, Takes, GivesUp, Closes
  <2> QED BY <1>1, <2>1 DEF ConsentInv
<1>5. ASSUME NEW p \in RunIds
      PROVE  Ruled(p)' /\ Permitted(run'[p], approved', consented')
  <2>1. Ruled(p) /\ Permitted(run[p], approved, consented)
    BY DEF ConsentInv
  <2>2. CASE p = r
    <3>1. Permitted(run'[r], approved', consented)
      BY <2>1, <2>2, RunStepEffect DEF RunEffect, Stays, Ruled
    <3> QED BY <1>1, <2>2, <3>1, OwnRuling
  <2>3. CASE p # r
    <3>1. run'[p] = run[p]
      BY <1>2, <2>3
    <3>2. At(p) \in {"publish", "wait"} => answers'[Asked(p)] = answers[Asked(p)]
      <4> SUFFICES ASSUME At(p) \in {"publish", "wait"},
                          answers'[Asked(p)] # answers[Asked(p)]
                   PROVE  FALSE
        OBVIOUS
      <4>1. Takes(r) /\ Asked(p) = Asked(r)
        BY RunKeeps, Waited DEF Waiting
      <4> QED BY <2>3, <4>1 DEF Takes, AskedInv, Waiting
    <3>3. Ruled(p)'
      BY <1>1, <2>1, <3>1, <3>2 DEF Ruled, Backed, Earned, At, Asked
    <3>4. Permitted(run'[p], approved', consented')
      BY <1>1, <1>3, <2>1, <3>1, PermittedGrows
    <3> QED BY <3>3, <3>4
  <2> QED BY <2>2, <2>3
<1> QED BY <1>4, <1>5, RunFounded DEF ConsentInv

LEMMA SendConsents ==
  ASSUME NotesInv, ConsentInv, NEW c \in Clients, NEW a \in Answers, Send(c, a)
  PROVE  ConsentInv'
<1> DEFINE q == client[c].req
<1> USE DEF NotesInv, DiskInv
<1>1. /\ client[c].at = "send" /\ q \in Requests /\ answers[q] = <<>>
      /\ answers' = [answers EXCEPT ![q] = <<a>>] /\ Rule(q, a)
      /\ UNCHANGED <<run, approved, saved, issued>>
  BY DEF Send, perms, IInv, ClientsPlaced
<1>2. q \in 1..issued
  <2>1. ~(q > issued)
    BY <1>1 DEF BornInv, Unborn
  <2> QED BY <1>1, <2>1 DEF Requests, IInv, TypeOK
<1>3. consented \subseteq consented' /\ granted \subseteq granted' /\ ruled' = ruled \cup {q}
  BY <1>1 DEF Rule
<1>4. Founded'
  <2>1. GrantedKeys \subseteq GrantedKeys'
    BY <1>3 DEF GrantedKeys
  <2> QED BY <1>1, <2>1 DEF ConsentInv, Founded
<1>5. ASSUME NEW p \in RunIds
      PROVE  Ruled(p)' /\ Permitted(run'[p], approved', consented')
  <2>1. Ruled(p) /\ Permitted(run[p], approved, consented)
    BY DEF ConsentInv
  <2>2. Permitted(run'[p], approved', consented')
    BY <1>1, <1>3, <2>1, PermittedGrows
  <2>3. At(p)' = At(p) /\ Asked(p)' = Asked(p) /\ (Earned(p) => Earned(p)')
    BY <1>1, <1>3 DEF At, Asked, Earned
  <2>4. CASE At(p) \in {"publish", "wait"} /\ Asked(p) = q
    <3>1. q \notin ruled
      BY <1>1, <2>1, <2>4 DEF Ruled
    <3>2. answers'[q] = <<a>> /\ answers'[q] # <<>>
      BY <1>1 DEF IInv, TypeOK
    <3>3. a \in Approving => q \in consented'
      BY <1>1, <3>1 DEF Rule
    <3>4. a = "always" /\ run[p].for = "tool" => Earned(p)'
      BY <1>1, <2>4, <3>1 DEF Rule, Standing, Unanswered, Earned
    <3>5. \A b : <<b>> = <<a>> => b = a
      OBVIOUS
    <3> QED BY <1>1, <2>1, <2>2, <2>3, <2>4, <3>2, <3>3, <3>4, <3>5
            DEF Ruled, Backed
  <2>5. CASE At(p) \in {"publish", "wait"} /\ Asked(p) # q
    <3>1. Asked(p) \in Requests
      BY <2>5, Waited DEF Waiting
    <3>2. answers'[Asked(p)] = answers[Asked(p)]
      BY <1>1, <2>5, <3>1 DEF IInv, TypeOK
    <3> QED BY <1>1, <1>3, <2>1, <2>2, <2>3, <2>5, <3>2 DEF Ruled, Backed
  <2>6. CASE At(p) \notin {"publish", "wait"}
    BY <1>1, <2>1, <2>2, <2>3, <2>6 DEF Ruled, Backed
  <2> QED BY <2>4, <2>5, <2>6
<1>6. ruled' \subseteq 1..issued'
  BY <1>1, <1>2, <1>3 DEF ConsentInv
<1> QED BY <1>4, <1>5, <1>6 DEF ConsentInv

LEMMA StepConsents == NotesInv /\ ConsentInv /\ [Next]_vars => ConsentInv'
<1> SUFFICES ASSUME NotesInv, ConsentInv, [Next]_vars PROVE ConsentInv'
  OBVIOUS
<1>1. ASSUME NEW r \in RunIds, RunStep(r) PROVE ConsentInv'
  BY <1>1, RunConsents
<1>2. ASSUME NEW c \in Clients, NEW a \in Answers, Send(c, a) PROVE ConsentInv'
  BY <1>2, SendConsents
<1>3. CASE UNCHANGED <<run, perms, answers, issued, ruled, consented, granted>>
  BY <1>3 DEF perms, ConsentInv, Founded, GrantedKeys, Ruled, Backed, Earned, At, Asked
<1>4. CASE Crash
  <2>1. /\ run' = [r \in RunIds |-> Gone(IF At(r) = "idle" THEN "idle" ELSE "over")]
        /\ approved' = {} /\ UNCHANGED <<saved, issued, ruled, consented, granted>>
    BY <1>4 DEF Crash
  <2>2. ASSUME NEW r \in RunIds
        PROVE  /\ run'[r].at \in {"idle", "over"} /\ run'[r].keys = {}
               /\ Permitted(run'[r], approved', consented')
    BY <2>1, FreshSound DEF Gone, Fresh, Sound
  <2>3. \A r \in RunIds : Ruled(r)'
    BY <2>2 DEF Ruled, Backed, At
  <2>4. Founded'
    BY <2>1, <2>2 DEF ConsentInv, Founded, GrantedKeys
  <2> QED BY <2>1, <2>2, <2>3, <2>4 DEF ConsentInv
<1>5. ASSUME NEW c \in Clients, ClientStep(c), ~(\E a \in Answers : Send(c, a))
      PROVE  ConsentInv'
  BY <1>3, <1>5 DEF ClientStep, Respond, Act, ResolveNote, gate, aux
<1>6. CASE MakeNote \/ Tell \/ UNCHANGED vars
  BY <1>3, <1>6 DEF MakeNote, Tell, vars, gate, aux
<1> QED BY <1>1, <1>2, <1>4, <1>5, <1>6 DEF Next

LEMMA ConsentInvariance == Spec => []ConsentInv
<1>1. Init => ConsentInv
  <2> SUFFICES ASSUME Init PROVE ConsentInv
    OBVIOUS
  <2>1. \A r \in RunIds : /\ run[r].at = "idle" /\ run[r].keys = {}
                          /\ Permitted(run[r], approved, consented)
    BY FreshSound DEF Init, Gone, Fresh, Sound
  <2>2. \A r \in RunIds : Ruled(r)
    BY <2>1 DEF Ruled, Backed, At
  <2>3. Founded
    BY <2>1 DEF Init, Founded
  <2>4. ruled \subseteq 1..issued
    BY DEF Init
  <2> QED BY <2>1, <2>2, <2>3, <2>4 DEF ConsentInv
<1> QED BY <1>1, StepConsents, NotesInvariance, PTL DEF Spec

(* No dangerous tool and no write outside the workspace is executed unless *)
(* the first answer approved this very call, or an earlier "always" one    *)
(* like it: however many runs, clients, second and late answers, saves and *)
(* crashes there are (approval.go, Request and Respond; runtime.go).       *)
THEOREM NothingWithoutConsent == Spec => []ConsentGiven
<1>1. ConsentInv => ConsentGiven
  <2> SUFFICES ASSUME ConsentInv, NEW r \in RunIds, At(r) = "execute"
               PROVE  /\ ConsentFrom(Sessions, r)
                      /\ ~Inside(run[r]) => run[r].asked["write"] \in consented
    BY DEF ConsentGiven
  <2>1. Permitted(run[r], approved, consented) /\ approved \subseteq GrantedKeys
    BY DEF ConsentInv, Founded
  <2>2. Covered(run[r], approved) => AlwaysSaid(Sessions, run[r].agent, run[r].call)
    BY <2>1 DEF Covered, AlwaysSaid, GrantedKeys
  <2> QED BY <2>1, <2>2 DEF Permitted, ConsentFrom, Gated, At
<1> QED BY <1>1, ConsentInvariance, PTL
=============================================================================
