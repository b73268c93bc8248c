--------------------------- MODULE AgentRunProofs ---------------------------
(***************************************************************************)
(* Theorems about AgentRun, for every set of sessions, runs and tools and  *)
(* every limit of the turn loop.  Only HistoriesRebuild depends on what a  *)
(* prompt and a log contain; for the others they are typed by themselves.  *)
(***************************************************************************)
EXTENDS AgentRun, FiniteSetTheorems, SequenceTheorems, WellFoundedInduction, TLAPS

Call == [id : CallIds, tool : Tools]

(* What a goroutine holds, up to its conversation and its signatures.      *)
Shaped(state) ==
  state \in [at : Phases, session : Sessions, prompt : {state.prompt},
             pending : Seq(Call), answered : Nat, issued : Nat, steps : Nat,
             sigs : {state.sigs}, errs : [Tools -> Nat], resets : Nat,
             said : {state.said}, reason : Reasons, streak : [Tools -> Nat]]

(* The next call of a batch exists while one is to be executed.            *)
HasNext(state) ==
  /\ state.at = "stream" => state.answered = 0
  /\ state.at \in {"tools", "approval"} => state.answered < Len(state.pending)

(* While guidances are left, the failures of a tool are those its counter  *)
(* shows and at most MaxToolErrors for each guidance there was.            *)
Accounted(state) ==
  /\ \A t \in Tools : state.errs[t] < MaxToolErrors
  /\ state.at \in {"read", "registered"} \cup InTurn => state.resets < MaxResets
  /\ state.resets < MaxResets =>
       \A t \in Tools :
         state.streak[t] <= state.errs[t] + MaxToolErrors * state.resets
  /\ \A t \in Tools : state.streak[t] <= MaxToolErrors * MaxResets

Good(state) == Shaped(state) /\ HasNext(state) /\ Accounted(state)

RunsGood ==
  /\ run = [r \in RunIds |-> run[r]]
  /\ \A r \in RunIds : Good(run[r])

(* The steps of a run that is known to the instance table.                 *)
TurnStep(r) ==
  \/ Prompt(r) \/ Ask(r) \/ \E t \in Tools : StreamCall(r, t)
  \/ StreamFails(r) \/ \E text \in BOOLEAN : StreamEnds(r, text)
  \/ \E failed \in BOOLEAN : ExecuteTool(r, failed) \/ AnswerApproval(r, failed)
  \/ RequestApproval(r) \/ ApprovalCancelled(r)

(* What each of them does to the goroutine and to the table.               *)
TurnEffect(r) ==
  /\ run' = [run EXCEPT ![r] = run'[r]]
  /\ run'[r].session = run[r].session
  /\ Good(run'[r])
  /\ At(r) \in Registered /\ run'[r].at \in Registered
  /\ UNCHANGED <<status, instances>>

(* Other steps: nothing of the other runs changes, and r stays in its      *)
(* session.                                                                *)
Alters(r) ==
  /\ run' = [run EXCEPT ![r] = run'[r]]
  /\ run'[r].session = run[r].session

-----------------------------------------------------------------------------
(* One state of a goroutine.                                               *)

LEMMA LimitTypes ==
  /\ MaxIterations \in Nat \ {0} /\ MaxToolErrors \in Nat \ {0}
  /\ MaxResets \in Nat \ {0} /\ MaxToolErrors * MaxResets \in Nat
<1>1. /\ MaxIterations \in Nat \ {0} /\ MaxToolErrors \in Nat \ {0}
      /\ MaxResets \in Nat \ {0}
  BY RunAssumption
<1>2. MaxToolErrors * MaxResets \in Nat
  BY <1>1
<1> QED
  BY <1>1, <1>2

(* A run that has just begun, or is over, owes nothing.                    *)
LEMMA FreshIsGood ==
  ASSUME NEW s \in Sessions, NEW prompt
  PROVE  Good(Fresh(s, prompt)) /\ Fresh(s, prompt).session = s
                                /\ Fresh(s, prompt).at = "read"
<1> DEFINE f == Fresh(s, prompt)
<1>1. Shaped(f) /\ f.session = s /\ f.at = "read"
  BY DEF Fresh, Shaped, Phases, Registered, InTurn, Reasons, Call
<1>2. HasNext(f)
  BY <1>1 DEF HasNext
<1>3. f.resets = 0 /\ \A t \in Tools : f.errs[t] = 0 /\ f.streak[t] = 0
  BY DEF Fresh
<1>4. Accounted(f)
  <2> HIDE DEF f
  <2> QED
    BY <1>1, <1>3, LimitTypes DEF Accounted, InTurn
<1> QED
  BY <1>1, <1>2, <1>4 DEF Good

LEMMA EndedIsGood ==
  ASSUME NEW state, state.session \in Sessions, NEW phase \in {"idle", "over", "lost"}
  PROVE  Good(Ended(state, phase)) /\ Ended(state, phase).session = state.session
                                   /\ Ended(state, phase).at = phase
<1> DEFINE f == Fresh(state.session, <<>>)
           e == [f EXCEPT !.at = phase]
<1>1. Good(f) /\ f.session = state.session
  BY FreshIsGood
<1>2. e = Ended(state, phase)
  BY DEF Ended
<1> HIDE DEF f
<1>3. Shaped(e) /\ e.session = state.session /\ e.at = phase
  BY <1>1 DEF Good, Shaped, Phases, Registered, InTurn
<1>4. e.errs = f.errs /\ e.streak = f.streak /\ e.resets = f.resets
  BY <1>1 DEF Good, Shaped
<1> HIDE DEF e
<1>5. HasNext(e) /\ Accounted(e)
  BY <1>1, <1>3, <1>4 DEF Good, HasNext, Accounted, InTurn
<1> QED
  BY <1>2, <1>3, <1>5 DEF Good

(* The tally of one result: MaxToolErrors failures cost a guidance.        *)
LEMMA TallyIsAccounted ==
  ASSUME NEW state, Good(state), state.at \in {"tools", "approval"},
         NEW t \in Tools, NEW failed \in BOOLEAN
  PROVE  LET next == Tally(state, t, failed)
         IN  /\ Shaped(next) /\ next.session = state.session
             /\ next.answered = state.answered + 1 /\ next.pending = state.pending
             /\ \A u \in Tools : next.errs[u] < MaxToolErrors
             /\ next.resets < MaxResets =>
                  \A u \in Tools :
                    next.streak[u] <= next.errs[u] + MaxToolErrors * next.resets
             /\ \A u \in Tools : next.streak[u] <= MaxToolErrors * MaxResets
<1> DEFINE errs  == IF failed THEN state.errs[t] + 1 ELSE 0
           reset == errs >= MaxToolErrors
           a == [state EXCEPT !.answered = @ + 1]
           b == [a EXCEPT !.errs[t] = IF reset THEN 0 ELSE errs]
           c == [b EXCEPT !.resets = IF reset THEN @ + 1 ELSE @]
           d == [c EXCEPT !.streak[t] = IF failed THEN @ + 1 ELSE 0]
<1>0. Shaped(state) /\ state.errs \in [Tools -> Nat] /\ state.streak \in [Tools -> Nat]
      /\ state.resets \in Nat /\ errs \in Nat
  BY DEF Good, Shaped
<1>1. d = Tally(state, t, failed)
  BY <1>0 DEF Tally, Shaped
<1>2. /\ Shaped(a) /\ a.answered = state.answered + 1
      /\ a.session = state.session /\ a.pending = state.pending
      /\ a.errs = state.errs /\ a.resets = state.resets /\ a.streak = state.streak
  <2>0. state.answered + 1 \in Nat
    BY <1>0 DEF Shaped
  <2>1. Shaped(a)
    BY <1>0, <2>0 DEF Shaped
  <2> QED
    BY <1>0, <2>1 DEF Shaped
<1> HIDE DEF a, errs
<1>3. /\ Shaped(b) /\ b.answered = a.answered
      /\ b.session = a.session /\ b.pending = a.pending
      /\ b.errs = [a.errs EXCEPT ![t] = IF reset THEN 0 ELSE errs]
      /\ b.resets = a.resets /\ b.streak = a.streak
  BY <1>0, <1>2 DEF Shaped
<1> HIDE DEF b
<1>4. /\ Shaped(c) /\ c.answered = b.answered
      /\ c.session = b.session /\ c.pending = b.pending
      /\ c.errs = b.errs /\ c.streak = b.streak
      /\ c.resets = IF reset THEN b.resets + 1 ELSE b.resets
  <2>0. b.resets \in Nat /\ b.resets + 1 \in Nat
    BY <1>3 DEF Shaped
  <2>1. Shaped(c)
    BY <1>3, <2>0 DEF Shaped
  <2> QED
    BY <1>3, <2>1 DEF Shaped
<1> HIDE DEF c
<1>5. /\ Shaped(d) /\ d.answered = c.answered
      /\ d.session = c.session /\ d.pending = c.pending
      /\ d.errs = c.errs /\ d.resets = c.resets
      /\ d.streak = [c.streak EXCEPT ![t] = IF failed THEN @ + 1 ELSE 0]
  <2>0. [c.streak EXCEPT ![t] = IF failed THEN @ + 1 ELSE 0] \in [Tools -> Nat]
    BY <1>4 DEF Shaped
  <2>1. Shaped(d)
    BY <1>4, <2>0 DEF Shaped
  <2> QED
    BY <1>4, <2>1 DEF Shaped
<1> HIDE DEF d
<1>6. /\ d.errs = [state.errs EXCEPT ![t] = IF reset THEN 0 ELSE errs]
      /\ d.resets = IF reset THEN state.resets + 1 ELSE state.resets
      /\ d.streak = [state.streak EXCEPT ![t] = IF failed THEN @ + 1 ELSE 0]
  BY <1>2, <1>3, <1>4, <1>5
<1>7. /\ state.resets < MaxResets
      /\ \A u \in Tools : state.errs[u] < MaxToolErrors
      /\ \A u \in Tools : state.streak[u] <= state.errs[u] + MaxToolErrors * state.resets
      /\ \A u \in Tools : state.streak[u] <= MaxToolErrors * MaxResets
  BY DEF Good, Accounted, InTurn
<1> DEFINE spent == MaxToolErrors * state.resets
<1>8. spent \in Nat /\ MaxToolErrors * (state.resets + 1) = spent + MaxToolErrors
  BY <1>0, LimitTypes
<1>9. spent + MaxToolErrors <= MaxToolErrors * MaxResets
  BY <1>0, <1>7, <1>8, LimitTypes
<1>10. errs = (IF failed THEN state.errs[t] + 1 ELSE 0) /\ errs <= MaxToolErrors
  BY <1>0, <1>7, LimitTypes DEF errs
<1>11. MaxToolErrors * d.resets = IF reset THEN spent + MaxToolErrors ELSE spent
  BY <1>6, <1>8
<1>12. \A u \in Tools : state.streak[u] <= state.errs[u] + spent
  BY <1>7
<1> HIDE DEF spent
<1>13. ASSUME NEW u \in Tools
       PROVE  /\ d.errs[u] < MaxToolErrors
              /\ d.streak[u] <= d.errs[u] + MaxToolErrors * d.resets
              /\ d.streak[u] <= MaxToolErrors * MaxResets
  <2>1. /\ state.errs[u] \in Nat /\ state.streak[u] \in Nat
        /\ state.errs[u] < MaxToolErrors /\ state.streak[u] <= state.errs[u] + spent
    BY <1>0, <1>7, <1>12
  <2>2. CASE u # t
    <3>1. d.errs[u] = state.errs[u] /\ d.streak[u] = state.streak[u]
      BY <1>0, <1>6, <2>2
    <3> QED
      BY <1>8, <1>9, <1>11, <2>1, <3>1, LimitTypes
  <2>3. CASE u = t
    <3>1. /\ d.errs[u] = (IF reset THEN 0 ELSE errs)
          /\ d.streak[u] = (IF failed THEN state.streak[u] + 1 ELSE 0)
      BY <1>0, <1>6, <2>3
    <3>2. CASE ~failed
      BY <1>0, <1>8, <1>9, <1>10, <1>11, <3>1, <3>2, LimitTypes
    <3>3. CASE failed
      <4>1. errs = state.errs[u] + 1 /\ state.streak[u] + 1 <= errs + spent
        BY <1>8, <1>10, <2>1, <2>3, <3>3
      <4> QED
        BY <1>0, <1>8, <1>9, <1>10, <1>11, <2>1, <3>1, <3>3, <4>1, LimitTypes
    <3> QED
      BY <3>2, <3>3
  <2> QED
    BY <2>2, <2>3
<1> QED
  BY <1>1, <1>2, <1>3, <1>4, <1>5, <1>13

LEMMA NextStepKeeps ==
  ASSUME NEW state, Shaped(state), NEW sig
  PROVE  LET next == NextStep(state, sig)
         IN  /\ Shaped(next) /\ next.session = state.session
             /\ next.at \in {"finish", "ask"} /\ next.errs = state.errs
             /\ next.resets = state.resets /\ next.streak = state.streak
<1> DEFINE msg == Append(state.prompt, Message("tool", CallsOf(state)))
           new == Append(state.sigs, sig)
           a == [state EXCEPT !.sigs = new]
           b == [a EXCEPT !.steps = @ + 1]
           c == [b EXCEPT !.prompt = msg]
           next == [state EXCEPT !.sigs = new, !.steps = @ + 1, !.prompt = msg]
<1> HIDE DEF msg, new
<1>1. Shaped(a) /\ a.session = state.session /\ a.errs = state.errs
      /\ a.resets = state.resets /\ a.streak = state.streak
  <2>1. Shaped(a)
    BY DEF Shaped
  <2> QED
    BY <2>1 DEF Shaped
<1>2. Shaped(b) /\ b.session = a.session /\ b.errs = a.errs
      /\ b.resets = a.resets /\ b.streak = a.streak
  <2> HIDE DEF a
  <2>0. a.steps + 1 \in Nat
    BY <1>1 DEF Shaped
  <2>1. Shaped(b)
    BY <1>1, <2>0 DEF Shaped
  <2> QED
    BY <1>1, <2>1 DEF Shaped
<1>3. Shaped(c) /\ c.session = b.session /\ c.errs = b.errs
      /\ c.resets = b.resets /\ c.streak = b.streak
  <2> HIDE DEF b
  <2>1. Shaped(c)
    BY <1>2 DEF Shaped
  <2> QED
    BY <1>2, <2>1 DEF Shaped
<1>4. c = next
  BY DEF Shaped
<1> HIDE DEF c
<1>5. ASSUME NEW at \in {"finish", "ask"}, NEW reason \in Reasons
      PROVE  LET m == [[c EXCEPT !.reason = reason] EXCEPT !.at = at]
             IN  /\ Shaped(m) /\ m.at = at /\ m.session = c.session
                 /\ m.errs = c.errs /\ m.resets = c.resets /\ m.streak = c.streak
  <2> DEFINE n == [c EXCEPT !.reason = reason]
             m == [n EXCEPT !.at = at]
  <2>1. Shaped(n) /\ n.session = c.session
        /\ n.errs = c.errs /\ n.resets = c.resets /\ n.streak = c.streak
    BY <1>3 DEF Shaped
  <2> HIDE DEF n
  <2>2. Shaped(m) /\ m.at = at
    BY <2>1 DEF Shaped, Phases, Registered, InTurn
  <2>3. /\ Shaped(m) /\ m.at = at /\ m.session = c.session
        /\ m.errs = c.errs /\ m.resets = c.resets /\ m.streak = c.streak
    BY <2>1, <2>2 DEF Shaped
  <2> QED
    BY <2>3 DEF n
<1>6. NextStep(state, sig) =
        IF IsLooping(c.sigs) THEN [c EXCEPT !.at = "finish", !.reason = "loop_detected"]
        ELSE IF c.steps = MaxIterations
        THEN [c EXCEPT !.at = "finish", !.reason = "max_iterations"]
        ELSE [c EXCEPT !.at = "ask"]
  BY <1>4 DEF NextStep, msg, new
<1>7. \A at, reason : [c EXCEPT !.at = at, !.reason = reason] =
                        [[c EXCEPT !.reason = reason] EXCEPT !.at = at]
  BY <1>3 DEF Shaped
<1>8. [c EXCEPT !.at = "ask"] = [[c EXCEPT !.reason = c.reason] EXCEPT !.at = "ask"]
      /\ c.reason \in Reasons
  BY <1>3 DEF Shaped
<1>9. \E at \in {"finish", "ask"}, reason \in Reasons :
        NextStep(state, sig) = [[c EXCEPT !.reason = reason] EXCEPT !.at = at]
  BY <1>6, <1>7, <1>8 DEF Reasons
<1>10. PICK at \in {"finish", "ask"}, reason \in Reasons :
         NextStep(state, sig) = [[c EXCEPT !.reason = reason] EXCEPT !.at = at]
  BY <1>9
<1> DEFINE m == [[c EXCEPT !.reason = reason] EXCEPT !.at = at]
<1>11. /\ Shaped(m) /\ m.at = at /\ m.session = c.session
       /\ m.errs = c.errs /\ m.resets = c.resets /\ m.streak = c.streak
  BY <1>5, Zenon
<1>12. NextStep(state, sig) = m
  BY <1>10
<1> HIDE DEF m
<1> QED
  BY <1>1, <1>2, <1>3, <1>11, <1>12

(* The result of a call leaves the goroutine in order.                     *)
LEMMA ResultIsGood ==
  ASSUME NEW state, Good(state), state.at \in {"tools", "approval"},
         NEW t \in Tools, NEW failed \in BOOLEAN, NEW sig
  PROVE  LET next == AfterResult(Tally(state, t, failed), sig)
         IN  Good(next) /\ next.session = state.session
                        /\ next.at \in {"finish", "ask", "tools"}
<1> DEFINE tally == Tally(state, t, failed)
           next  == AfterResult(tally, sig)
<1>1. /\ Shaped(tally) /\ tally.session = state.session
      /\ \A u \in Tools : tally.errs[u] < MaxToolErrors
      /\ tally.resets < MaxResets =>
           \A u \in Tools :
             tally.streak[u] <= tally.errs[u] + MaxToolErrors * tally.resets
      /\ \A u \in Tools : tally.streak[u] <= MaxToolErrors * MaxResets
  BY TallyIsAccounted
<1> HIDE DEF tally
<1>2. /\ Shaped(next) /\ next.session = tally.session
      /\ next.errs = tally.errs /\ next.resets = tally.resets
      /\ next.streak = tally.streak
      /\ next.at \in {"finish", "ask", "tools"}
      /\ next.at # "finish" => tally.resets < MaxResets
      /\ next.at = "tools" => next.answered < Len(next.pending)
  <2>1. CASE tally.resets >= MaxResets
    <3> DEFINE a == [tally EXCEPT !.at = "finish"]
               b == [a EXCEPT !.reason = "consecutive_errors"]
    <3>1. next = b
      BY <1>1, <2>1 DEF AfterResult, Shaped
    <3>2. Shaped(a) /\ a.session = tally.session /\ a.errs = tally.errs
          /\ a.resets = tally.resets /\ a.streak = tally.streak /\ a.at = "finish"
      BY <1>1 DEF Shaped, Phases, Registered, InTurn
    <3> HIDE DEF a
    <3>3. Shaped(b)
      BY <3>2 DEF Shaped, Reasons
    <3> QED
      BY <3>1, <3>2, <3>3 DEF Shaped
  <2>2. CASE ~(tally.resets >= MaxResets) /\ tally.answered < Len(tally.pending)
    <3> DEFINE a == [tally EXCEPT !.at = "tools"]
    <3>1. next = a
      BY <2>2 DEF AfterResult
    <3>2. Shaped(a) /\ a.at = "tools"
      BY <1>1 DEF Shaped, Phases, Registered, InTurn
    <3>3. /\ a.session = tally.session /\ a.errs = tally.errs
          /\ a.resets = tally.resets /\ a.streak = tally.streak
          /\ a.answered = tally.answered /\ a.pending = tally.pending
      BY <1>1 DEF Shaped
    <3>4. tally.resets \in Nat
      BY <1>1 DEF Shaped
    <3> HIDE DEF a
    <3> QED
      BY <2>2, <3>1, <3>2, <3>3, <3>4, LimitTypes
  <2>3. CASE ~(tally.resets >= MaxResets) /\ ~(tally.answered < Len(tally.pending))
    <3>1. next = NextStep(tally, sig)
      BY <2>3 DEF AfterResult
    <3>2. tally.resets \in Nat
      BY <1>1 DEF Shaped
    <3> QED
      BY <1>1, <2>3, <3>1, <3>2, NextStepKeeps, LimitTypes
  <2> QED
    BY <2>1, <2>2, <2>3
<1> HIDE DEF next
<1>3. HasNext(next)
  BY <1>2 DEF HasNext
<1>4. Accounted(next)
  BY <1>1, <1>2 DEF Accounted, InTurn
<1> QED
  BY <1>1, <1>2, <1>3, <1>4 DEF Good, next, tally

(* What leaves the counters alone, and does not resume a spent turn.       *)
LEMMA QuietIsGood ==
  ASSUME NEW old, Good(old), NEW new, Shaped(new), HasNext(new),
         new.errs = old.errs, new.resets = old.resets, new.streak = old.streak,
         new.at \in {"read", "registered"} \cup InTurn =>
           old.at \in {"read", "registered"} \cup InTurn
  PROVE  Good(new)
BY DEF Good, Accounted

-----------------------------------------------------------------------------
(* One step of a run.                                                      *)

LEMMA GotoMoves ==
  ASSUME RunsGood, NEW r \in RunIds, NEW phase \in Phases, Goto(r, phase),
         phase \notin {"stream", "tools", "approval"},
         phase \in {"read", "registered"} \cup InTurn =>
           At(r) \in {"read", "registered"} \cup InTurn
  PROVE  Alters(r) /\ Good(run'[r]) /\ run'[r].at = phase
<1> DEFINE old == run[r]
           new == run'[r]
<1>1. Good(old) /\ Shaped(old)
  BY DEF RunsGood, Good
<1>2. run' = [run EXCEPT ![r] = new] /\ new = [old EXCEPT !.at = phase]
  BY DEF RunsGood, Goto
<1>3. phase \in {"read", "registered"} \cup InTurn =>
        old.at \in {"read", "registered"} \cup InTurn
  BY DEF At
<1> HIDE DEF old, new
<1>4. Shaped(new)
  BY <1>1, <1>2 DEF Shaped
<1>5. /\ new.at = phase /\ new.session = old.session
      /\ new.errs = old.errs /\ new.resets = old.resets /\ new.streak = old.streak
  BY <1>1, <1>2 DEF Shaped
<1>6. HasNext(new)
  BY <1>5 DEF HasNext
<1>7. Good(new)
  BY <1>1, <1>3, <1>4, <1>5, <1>6, QuietIsGood
<1> QED
  BY <1>2, <1>5, <1>7 DEF Alters, old, new

LEMMA StopMoves ==
  ASSUME RunsGood, NEW r \in RunIds, NEW reason \in Reasons, Stop(r, reason)
  PROVE  Alters(r) /\ Good(run'[r]) /\ run'[r].at = "finish"
<1> DEFINE old == run[r]
           mid == [old EXCEPT !.at = "finish"]
           new == run'[r]
<1>1. Good(old) /\ Shaped(old)
  BY DEF RunsGood, Good
<1>2. run' = [run EXCEPT ![r] = new] /\ new = [mid EXCEPT !.reason = reason]
  BY DEF RunsGood, Stop
<1> HIDE DEF old, new
<1>3. Shaped(mid)
  BY <1>1 DEF Shaped, Phases, Registered, InTurn
<1>4. /\ mid.at = "finish" /\ mid.session = old.session
      /\ mid.errs = old.errs /\ mid.resets = old.resets /\ mid.streak = old.streak
  BY <1>1 DEF Shaped
<1> HIDE DEF mid
<1>5. Shaped(new)
  BY <1>2, <1>3 DEF Shaped
<1>6. /\ new.at = "finish" /\ new.session = old.session
      /\ new.errs = old.errs /\ new.resets = old.resets /\ new.streak = old.streak
  BY <1>2, <1>3, <1>4 DEF Shaped
<1>7. HasNext(new) /\ new.at \notin {"read", "registered"} \cup InTurn
  BY <1>6 DEF HasNext, InTurn
<1>8. Good(new)
  BY <1>1, <1>5, <1>6, <1>7, QuietIsGood
<1> QED
  BY <1>2, <1>6, <1>8 DEF Alters, old, new
LEMMA PromptEffect ==
  ASSUME RunsGood, NEW r \in RunIds, Prompt(r)
  PROVE  TurnEffect(r)
<1> DEFINE old == run[r]
           mid == [old EXCEPT !.at = "ask"]
           new == run'[r]
           msg == Append(old.prompt, Message("user", <<>>))
<1>1. Good(old) /\ Shaped(old)
  BY DEF RunsGood, Good
<1>2. /\ run' = [run EXCEPT ![r] = new] /\ new = [mid EXCEPT !.prompt = msg]
      /\ old.at = "registered" /\ UNCHANGED <<status, instances>>
  BY <1>1 DEF RunsGood, Prompt, At, Shaped
<1> HIDE DEF old, new, msg
<1>3. /\ Shaped(mid) /\ mid.at = "ask" /\ mid.session = old.session
      /\ mid.errs = old.errs /\ mid.resets = old.resets /\ mid.streak = old.streak
  BY <1>1 DEF Shaped, Phases, Registered, InTurn
<1> HIDE DEF mid
<1>4. Shaped(new)
  BY <1>2, <1>3 DEF Shaped
<1>5. /\ new.at = "ask" /\ new.session = old.session
      /\ new.errs = old.errs /\ new.resets = old.resets /\ new.streak = old.streak
  BY <1>2, <1>3 DEF Shaped
<1>6. HasNext(new) /\ old.at \in {"read", "registered"} \cup InTurn
  BY <1>2, <1>5 DEF HasNext
<1>7. Good(new)
  BY <1>1, <1>4, <1>5, <1>6, QuietIsGood
<1>8. old.at \in Registered /\ new.at \in Registered
  BY <1>2, <1>5 DEF Registered, InTurn
<1> QED
  BY <1>2, <1>5, <1>7, <1>8 DEF TurnEffect, At, old, new

(* A turn that stops.                                                      *)
LEMMA StopEffect ==
  ASSUME RunsGood, NEW r \in RunIds, NEW reason \in Reasons, Stop(r, reason),
         At(r) \in Registered, UNCHANGED <<status, instances>>
  PROVE  TurnEffect(r)
<1>1. "finish" \in Registered
  BY DEF Registered
<1> QED
  BY <1>1, StopMoves DEF Alters, TurnEffect

LEMMA AskEffect ==
  ASSUME RunsGood, NEW r \in RunIds, Ask(r)
  PROVE  TurnEffect(r)
<1> DEFINE old == run[r]
           a   == [old EXCEPT !.at = "stream"]
           b   == [a EXCEPT !.pending = <<>>]
           c   == [b EXCEPT !.answered = 0]
           abc == [old EXCEPT !.at = "stream", !.pending = <<>>, !.answered = 0]
           new == run'[r]
<1>1. Good(old) /\ Shaped(old)
  BY DEF RunsGood, Good
<1>2. /\ old.at = "ask" /\ UNCHANGED <<status, instances>>
      /\ old.at \in Registered
  BY DEF Ask, At, Registered, InTurn
<1>3. CASE Stop(r, "cancelled") \/ Stop(r, "error")
  <2>1. {"cancelled", "error"} \subseteq Reasons /\ At(r) \in Registered
    BY <1>2 DEF Reasons, At
  <2> QED
    BY <1>2, <1>3, <2>1, StopEffect
<1>4. CASE run' = [run EXCEPT ![r].at = "stream", ![r].pending = <<>>,
                              ![r].answered = 0]
  <2>a. run' = [run EXCEPT ![r] = new] /\ new = abc
    BY <1>4 DEF RunsGood
  <2> HIDE DEF old, new
  <2>b. c = abc
    BY <1>1 DEF Shaped
  <2> HIDE DEF c, abc
  <2>1. new = c
    BY <2>a, <2>b
  <2>2. /\ Shaped(a) /\ a.at = "stream" /\ a.session = old.session
        /\ a.errs = old.errs /\ a.resets = old.resets /\ a.streak = old.streak
    BY <1>1 DEF Shaped, Phases, Registered, InTurn
  <2> HIDE DEF a
  <2>3. /\ Shaped(b) /\ b.at = a.at /\ b.session = a.session
        /\ b.errs = a.errs /\ b.resets = a.resets /\ b.streak = a.streak
    <3>0. <<>> \in Seq(Call)
      OBVIOUS
    <3>1. Shaped(b)
      BY <2>2, <3>0 DEF Shaped
    <3> QED
      BY <2>2, <3>1 DEF Shaped
  <2> HIDE DEF b
  <2> USE DEF c
  <2>4. Shaped(new) /\ new.answered = 0 /\ new.at = b.at
        /\ new.session = b.session
        /\ new.errs = b.errs /\ new.resets = b.resets /\ new.streak = b.streak
    BY <2>1, <2>3 DEF Shaped
  <2>5. HasNext(new) /\ old.at \in {"read", "registered"} \cup InTurn
    BY <1>2, <2>2, <2>3, <2>4 DEF HasNext, InTurn
  <2>6. Good(new)
    BY <1>1, <2>2, <2>3, <2>4, <2>5, QuietIsGood
  <2>7. new.at \in Registered
    BY <2>2, <2>3, <2>4 DEF Registered, InTurn
  <2> QED
    BY <1>2, <2>a, <2>2, <2>3, <2>4, <2>6, <2>7 DEF TurnEffect, At, old, new
<1> QED
  BY <1>3, <1>4 DEF Ask
LEMMA StreamCallEffect ==
  ASSUME RunsGood, NEW r \in RunIds, NEW t \in Tools, StreamCall(r, t)
  PROVE  TurnEffect(r)
<1> DEFINE old  == run[r]
           call == [id |-> <<r, old.issued + 1>>, tool |-> t]
           a    == [old EXCEPT !.pending = Append(@, call)]
           b    == [a EXCEPT !.issued = @ + 1]
           ab   == [old EXCEPT !.pending = Append(@, call), !.issued = @ + 1]
           new  == run'[r]
<1>1. Good(old) /\ Shaped(old)
  BY DEF RunsGood, Good
<1>2. /\ old.at = "stream" /\ UNCHANGED <<status, instances>>
      /\ run' = [run EXCEPT ![r] = new] /\ new = ab
  BY DEF RunsGood, StreamCall, At
<1>3. call \in Call /\ old.issued + 1 \in Nat
  <2>1. old.issued + 1 \in Nat
    BY <1>1 DEF Shaped
  <2> QED
    BY <2>1 DEF Call, CallIds
<1> HIDE DEF old, new, call
<1>4. b = ab
  BY <1>1 DEF Shaped
<1>5. Append(old.pending, call) \in Seq(Call)
  BY <1>1, <1>3 DEF Shaped
<1>6. Shaped(a)
  BY <1>1, <1>5 DEF Shaped
<1>7. /\ a.at = old.at /\ a.session = old.session /\ a.issued = old.issued
      /\ a.errs = old.errs /\ a.resets = old.resets /\ a.streak = old.streak
      /\ a.answered = old.answered
  BY <1>1 DEF Shaped
<1> HIDE DEF a
<1>8. Shaped(b)
  BY <1>3, <1>6, <1>7 DEF Shaped
<1>9. /\ b.at = old.at /\ b.session = old.session /\ b.answered = old.answered
      /\ b.errs = old.errs /\ b.resets = old.resets /\ b.streak = old.streak
  BY <1>6, <1>7 DEF Shaped
<1> HIDE DEF b, ab
<1>10. HasNext(b)
  BY <1>1, <1>2, <1>9 DEF HasNext, Good
<1>11. Good(b)
  BY <1>1, <1>8, <1>9, <1>10, QuietIsGood
<1>12. old.at \in Registered
  BY <1>2 DEF Registered, InTurn
<1> QED
  BY <1>2, <1>4, <1>9, <1>11, <1>12 DEF TurnEffect, At, old, new

LEMMA StreamEndsEffect ==
  ASSUME RunsGood, NEW r \in RunIds, NEW text \in BOOLEAN, StreamEnds(r, text)
  PROVE  TurnEffect(r)
<1> DEFINE old  == run[r]
           new  == run'[r]
           said == old.said \/ text
           msg  == Append(old.prompt, Message("assistant", CallsOf(old)))
<1>1. Good(old) /\ Shaped(old)
  BY DEF RunsGood, Good
<1>2. /\ old.at = "stream" /\ UNCHANGED <<status, instances>>
      /\ old.at \in Registered
  BY DEF StreamEnds, At, Registered, InTurn
<1>3. CASE Stop(r, "token_budget") \/ Stop(r, "degenerate_output")
  <2>1. {"token_budget", "degenerate_output"} \subseteq Reasons /\ At(r) \in Registered
    BY <1>2 DEF Reasons, At
  <2> QED
    BY <1>2, <1>3, <2>1, StopEffect
<1>4. CASE run' = [run EXCEPT ![r].at = "finish", ![r].reason = "end_turn",
                              ![r].said = @ \/ text]
  <2> DEFINE a   == [old EXCEPT !.at = "finish"]
             b   == [a EXCEPT !.reason = "end_turn"]
             c   == [b EXCEPT !.said = said]
             abc == [old EXCEPT !.at = "finish", !.reason = "end_turn", !.said = said]
  <2>1. run' = [run EXCEPT ![r] = new] /\ new = abc
    BY <1>4 DEF RunsGood
  <2> HIDE DEF old, new, said
  <2>2. c = abc
    BY <1>1 DEF Shaped
  <2>3. /\ Shaped(a) /\ a.at = "finish" /\ a.session = old.session
        /\ a.errs = old.errs /\ a.resets = old.resets /\ a.streak = old.streak
    BY <1>1 DEF Shaped, Phases, Registered
  <2> HIDE DEF a
  <2>4. /\ Shaped(b) /\ b.at = "finish" /\ b.session = old.session
        /\ b.errs = old.errs /\ b.resets = old.resets /\ b.streak = old.streak
    BY <2>3 DEF Shaped, Reasons
  <2> HIDE DEF b
  <2>5. /\ Shaped(c) /\ c.at = "finish" /\ c.session = old.session
        /\ c.errs = old.errs /\ c.resets = old.resets /\ c.streak = old.streak
    BY <2>4 DEF Shaped
  <2> HIDE DEF c, abc
  <2>6. /\ HasNext(c) /\ c.at \in Registered
        /\ c.at \notin {"read", "registered"} \cup InTurn
    BY <2>5 DEF HasNext, Registered, InTurn
  <2>7. Good(c)
    BY <1>1, <2>5, <2>6, QuietIsGood
  <2> QED
    BY <1>2, <2>1, <2>2, <2>5, <2>6, <2>7 DEF TurnEffect, At, old, new
<1>5. CASE /\ old.pending # <<>>
           /\ run' = [run EXCEPT ![r].at = "tools", ![r].said = @ \/ text,
                ![r].prompt = Append(@, Message("assistant", CallsOf(run[r])))]
  <2> DEFINE a   == [old EXCEPT !.at = "tools"]
             b   == [a EXCEPT !.said = said]
             c   == [b EXCEPT !.prompt = msg]
             abc == [old EXCEPT !.at = "tools", !.said = said, !.prompt = msg]
  <2>1. run' = [run EXCEPT ![r] = new] /\ new = abc
    BY <1>5 DEF RunsGood
  <2> HIDE DEF old, new, said, msg
  <2>2. c = abc
    BY <1>1 DEF Shaped
  <2>3. /\ Shaped(a) /\ a.at = "tools" /\ a.session = old.session
        /\ a.errs = old.errs /\ a.resets = old.resets /\ a.streak = old.streak
        /\ a.answered = old.answered /\ a.pending = old.pending
    BY <1>1 DEF Shaped, Phases, Registered, InTurn
  <2> HIDE DEF a
  <2>4. /\ Shaped(b) /\ b.at = "tools" /\ b.session = old.session
        /\ b.errs = old.errs /\ b.resets = old.resets /\ b.streak = old.streak
        /\ b.answered = old.answered /\ b.pending = old.pending
    BY <2>3 DEF Shaped
  <2> HIDE DEF b
  <2>5. /\ Shaped(c) /\ c.at = "tools" /\ c.session = old.session
        /\ c.errs = old.errs /\ c.resets = old.resets /\ c.streak = old.streak
        /\ c.answered = old.answered /\ c.pending = old.pending
    BY <2>4 DEF Shaped
  <2> HIDE DEF c, abc
  <2>6. old.answered = 0 /\ Len(old.pending) > 0
    <3>1. old.answered = 0 /\ old.pending \in Seq(Call)
      BY <1>1, <1>2 DEF Good, HasNext, Shaped
    <3> QED
      BY <1>5, <3>1
  <2>7. /\ HasNext(c) /\ c.at \in Registered
        /\ old.at \in {"read", "registered"} \cup InTurn
    BY <1>2, <2>5, <2>6 DEF HasNext, Registered, InTurn
  <2>8. Good(c)
    BY <1>1, <2>5, <2>7, QuietIsGood
  <2> QED
    BY <1>2, <2>1, <2>2, <2>5, <2>7, <2>8 DEF TurnEffect, At, old, new
<1> QED
  BY <1>3, <1>4, <1>5 DEF StreamEnds

LEMMA ResultEffect ==
  ASSUME RunsGood, NEW r \in RunIds, NEW failed \in BOOLEAN,
         At(r) \in {"tools", "approval"}, Result(r, failed)
  PROVE  TurnEffect(r)
<1> DEFINE old == run[r]
           t   == old.pending[old.answered + 1].tool
           new == run'[r]
<1>1. Good(old)
  BY DEF RunsGood
<1>2. t \in Tools
  <2>1. /\ old.pending \in Seq(Call) /\ old.answered \in Nat
        /\ old.answered < Len(old.pending)
    BY <1>1 DEF Good, HasNext, Shaped, At
  <2>2. old.answered + 1 \in DOMAIN old.pending
    BY <2>1
  <2>3. old.pending[old.answered + 1] \in Call
    BY <2>1, <2>2
  <2> QED
    BY <2>3 DEF Call
<1>3. PICK sig \in Signatures :
        run' = [run EXCEPT ![r] = AfterResult(Tally(@, t, failed), sig)]
  BY DEF Result
<1>4. /\ run' = [run EXCEPT ![r] = new]
      /\ new = AfterResult(Tally(old, t, failed), sig)
  BY <1>3 DEF RunsGood
<1>5. /\ old.at \in {"tools", "approval"} /\ old.at \in Registered
      /\ UNCHANGED <<status, instances>>
  BY DEF Result, At, Registered, InTurn
<1> HIDE DEF old, t, new
<1>6. Good(new) /\ new.session = old.session
      /\ new.at \in {"finish", "ask", "tools"}
  BY <1>1, <1>2, <1>4, <1>5, ResultIsGood
<1>7. new.at \in Registered
  BY <1>6 DEF Registered, InTurn
<1> QED
  BY <1>4, <1>5, <1>6, <1>7 DEF TurnEffect, At, old, new

LEMMA RequestApprovalEffect ==
  ASSUME RunsGood, NEW r \in RunIds, RequestApproval(r)
  PROVE  TurnEffect(r)
<1> DEFINE old == run[r]
           new == run'[r]
<1>1. Good(old) /\ Shaped(old)
  BY DEF RunsGood, Good
<1>2. /\ run' = [run EXCEPT ![r] = new] /\ new = [old EXCEPT !.at = "approval"]
      /\ old.at = "tools" /\ UNCHANGED <<status, instances>>
  BY DEF RunsGood, RequestApproval, Goto, At
<1> HIDE DEF old, new
<1>3. Shaped(new)
  BY <1>1, <1>2 DEF Shaped, Phases, Registered, InTurn
<1>4. /\ new.at = "approval" /\ new.session = old.session
      /\ new.errs = old.errs /\ new.resets = old.resets /\ new.streak = old.streak
      /\ new.answered = old.answered /\ new.pending = old.pending
  BY <1>1, <1>2 DEF Shaped
<1>5. HasNext(new) /\ old.at \in {"read", "registered"} \cup InTurn
  BY <1>1, <1>2, <1>4 DEF HasNext, Good, InTurn
<1>6. Good(new)
  BY <1>1, <1>3, <1>4, <1>5, QuietIsGood
<1>7. old.at \in Registered /\ new.at \in Registered
  BY <1>2, <1>4 DEF Registered, InTurn
<1> QED
  BY <1>2, <1>4, <1>6, <1>7 DEF TurnEffect, At, old, new

LEMMA TurnStepEffect ==
  ASSUME RunsGood, NEW r \in RunIds, TurnStep(r)
  PROVE  TurnEffect(r)
<1>1. ASSUME StreamFails(r) PROVE TurnEffect(r)
  <2>1. "error" \in Reasons /\ At(r) \in Registered
    BY <1>1 DEF StreamFails, Reasons, Registered, InTurn
  <2> QED
    BY <1>1, <2>1, StopEffect DEF StreamFails
<1>2. ASSUME NEW failed \in BOOLEAN, ExecuteTool(r, failed) \/ AnswerApproval(r, failed)
      PROVE  TurnEffect(r)
  BY <1>2, ResultEffect DEF ExecuteTool, AnswerApproval
<1>3. ASSUME ApprovalCancelled(r) PROVE TurnEffect(r)
  BY <1>3, ResultEffect DEF ApprovalCancelled
<1> QED
  BY <1>1, <1>2, <1>3, PromptEffect, AskEffect, StreamCallEffect,
     StreamEndsEffect, RequestApprovalEffect DEF TurnStep
LEMMA BeginEffect ==
  ASSUME RunsGood, NEW r \in RunIds, Begin(r)
  PROVE  /\ At(r) = "idle" /\ run' = [run EXCEPT ![r] = run'[r]]
         /\ Good(run'[r]) /\ run'[r].at = "read"
         /\ UNCHANGED instances
         /\ Enter(r, run'[r].session)
         /\ \/ /\ UNCHANGED status
               /\ status[run'[r].session] # "none" \/ run'[r].session \in Persistent
            \/ /\ status[run'[r].session] = "none"
               /\ status' = [status EXCEPT ![run'[r].session] = "active"]
<1>1. CASE RunInMain(r)
  <2>1. Main \in Sessions /\ Main \in Persistent
    BY RunAssumption
  <2>2. run' = [run EXCEPT ![r] = run'[r]] /\ run'[r] = Fresh(Main, <<>>)
    BY <1>1 DEF RunsGood, RunInMain
  <2> QED
    BY <1>1, <2>1, <2>2, FreshIsGood DEF RunInMain
<1>2. ASSUME NEW s \in Sessions, Continue(r, s)
      PROVE  /\ run' = [run EXCEPT ![r] = run'[r]]
             /\ Good(run'[r]) /\ run'[r].at = "read" /\ run'[r].session = s
  <2>1. /\ run' = [run EXCEPT ![r] = run'[r]]
        /\ run'[r] = Fresh(s, RebuildMessages(log[s]))
    BY <1>2 DEF RunsGood, Continue
  <2> QED
    BY <2>1, FreshIsGood
<1>3. ASSUME NEW s \in Sessions, Create(r, s)
      PROVE  /\ run' = [run EXCEPT ![r] = run'[r]]
             /\ Good(run'[r]) /\ run'[r].at = "read" /\ run'[r].session = s
  <2>1. run' = [run EXCEPT ![r] = run'[r]] /\ run'[r] = Fresh(s, <<>>)
    BY <1>3 DEF RunsGood, Create
  <2> QED
    BY <2>1, FreshIsGood
<1>4. ASSUME NEW s \in Sessions, Continue(r, s)
      PROVE  /\ At(r) = "idle" /\ Enter(r, s) /\ status[s] # "none"
             /\ UNCHANGED <<status, instances>>
  BY <1>4 DEF Continue
<1>5. ASSUME NEW s \in Sessions, Create(r, s)
      PROVE  /\ At(r) = "idle" /\ Enter(r, s) /\ status[s] = "none" /\ UNCHANGED instances
             /\ status' = [status EXCEPT ![s] = "active"]
  BY <1>5 DEF Create
<1> QED
  BY <1>1, <1>2, <1>3, <1>4, <1>5 DEF Begin

LEMMA RegisterEffect ==
  ASSUME RunsGood, NEW r \in RunIds, RegisterInstance(r)
  PROVE  Alters(r) /\ Good(run'[r]) /\ run'[r].at = "registered"
<1>1. /\ At(r) \in {"read", "registered"} \cup InTurn /\ Goto(r, "registered")
      /\ "registered" \in Phases
      /\ "registered" \notin {"stream", "tools", "approval"}
  BY DEF RegisterInstance, Phases, Registered
<1> QED
  BY <1>1, GotoMoves

LEMMA ReturnEffect ==
  ASSUME RunsGood, NEW r \in RunIds, Return(r)
  PROVE  Alters(r) /\ Good(run'[r]) /\ run'[r].at = "returned"
<1>1. /\ Goto(r, "returned") /\ "returned" \in Phases
      /\ "returned" \notin {"stream", "tools", "approval"}
      /\ "returned" \notin {"read", "registered"} \cup InTurn
  BY DEF Return, Phases, Registered, InTurn
<1> QED
  BY <1>1, GotoMoves

LEMMA ResolveFailsEffect ==
  ASSUME RunsGood, NEW r \in RunIds, ResolveFails(r)
  PROVE  Alters(r) /\ Good(run'[r]) /\ run'[r].at = "returned"
<1> DEFINE old == run[r]
           mid == [old EXCEPT !.at = "returned"]
           new == run'[r]
<1>1. Good(old) /\ Shaped(old)
  BY DEF RunsGood, Good
<1>2. run' = [run EXCEPT ![r] = new] /\ new = [mid EXCEPT !.reason = "unresolved"]
  BY DEF RunsGood, ResolveFails
<1> HIDE DEF old, new
<1>3. Shaped(mid)
  BY <1>1 DEF Shaped, Phases, Registered, InTurn
<1>4. /\ mid.at = "returned" /\ mid.session = old.session
      /\ mid.errs = old.errs /\ mid.resets = old.resets /\ mid.streak = old.streak
  BY <1>1 DEF Shaped
<1> HIDE DEF mid
<1>5. Shaped(new)
  BY <1>2, <1>3 DEF Shaped, Reasons
<1>6. /\ new.at = "returned" /\ new.session = old.session
      /\ new.errs = old.errs /\ new.resets = old.resets /\ new.streak = old.streak
  BY <1>2, <1>3, <1>4 DEF Shaped
<1>7. HasNext(new) /\ new.at \notin {"read", "registered"} \cup InTurn
  BY <1>6 DEF HasNext, InTurn
<1>8. Good(new)
  BY <1>1, <1>5, <1>6, <1>7, QuietIsGood
<1> QED
  BY <1>2, <1>6, <1>8 DEF Alters, old, new

LEMMA LeaveEffect ==
  ASSUME RunsGood, NEW r \in RunIds, Leave(r)
  PROVE  Alters(r) /\ Good(run'[r]) /\ run'[r].at = "over"
<1>1. run[r].session \in Sessions
  BY DEF RunsGood, Good, Shaped
<1>2. run' = [run EXCEPT ![r] = run'[r]] /\ run'[r] = Ended(run[r], "over")
  BY DEF RunsGood, Leave
<1> QED
  BY <1>1, <1>2, EndedIsGood DEF Alters

LEMMA CrashEffect ==
  ASSUME RunsGood, Crash
  PROVE  /\ RunsGood'
         /\ \A r \in RunIds : run'[r].session = run[r].session
         /\ \A r \in RunIds : run'[r].at \in {"idle", "over", "lost"}
<1>1. run' = [r \in RunIds |->
                IF r \in InFlight THEN Ended(run[r], "lost") ELSE run[r]]
  BY DEF Crash
<1>2. run' = [r \in RunIds |-> run'[r]]
  BY <1>1
<1>3. ASSUME NEW r \in RunIds
      PROVE  /\ Good(run'[r]) /\ run'[r].session = run[r].session
             /\ run'[r].at \in {"idle", "over", "lost"}
  <2>1. Good(run[r]) /\ run[r].session \in Sessions
    BY DEF RunsGood, Good, Shaped
  <2>2. CASE r \in InFlight
    <3>1. run'[r] = Ended(run[r], "lost")
      BY <1>1, <2>2
    <3> QED
      BY <2>1, <3>1, EndedIsGood
  <2>3. CASE r \notin InFlight
    BY <1>1, <2>1, <2>3 DEF InFlight, At
  <2> QED
    BY <2>2, <2>3
<1> QED
  BY <1>2, <1>3 DEF RunsGood

(* Every step of the system is one of these.                               *)
LEMMA StepCases ==
  ASSUME [Next]_vars
  PROVE  \/ \E r \in RunIds :
              \/ Begin(r) \/ RegisterInstance(r) \/ ResolveFails(r)
              \/ TurnStep(r) \/ Return(r) \/ Leave(r)
         \/ \E s \in Sessions : Cancel(s)
         \/ Crash
         \/ UNCHANGED vars
BY DEF Next, Step, User, TurnStep
-----------------------------------------------------------------------------
(* Runs of a turn.                                                         *)

LEMMA InitIsGood ==
  ASSUME Init
  PROVE  RunsGood /\ \A r \in RunIds : At(r) = "idle"
<1>1. run = [r \in RunIds |-> Ended([session |-> Main], "idle")]
  BY DEF Init
<1>2. [session |-> Main].session \in Sessions
  BY RunAssumption
<1>3. \A r \in RunIds : Good(run[r]) /\ run[r].at = "idle"
  BY <1>1, <1>2, EndedIsGood
<1> QED
  BY <1>1, <1>3 DEF RunsGood, At

LEMMA RunsStayGood ==
  ASSUME RunsGood, [Next]_vars
  PROVE  RunsGood'
<1>1. ASSUME NEW r \in RunIds, run' = [run EXCEPT ![r] = run'[r]], Good(run'[r])
      PROVE  RunsGood'
  BY <1>1 DEF RunsGood
<1>2. ASSUME NEW r \in RunIds,
             \/ Begin(r) \/ RegisterInstance(r) \/ ResolveFails(r)
             \/ TurnStep(r) \/ Return(r) \/ Leave(r)
      PROVE  RunsGood'
  <2>1. run' = [run EXCEPT ![r] = run'[r]] /\ Good(run'[r])
    BY <1>2, BeginEffect, RegisterEffect, ResolveFailsEffect, TurnStepEffect,
       ReturnEffect, LeaveEffect DEF Alters, TurnEffect
  <2> QED
    BY <1>1, <2>1
<1>3. CASE \E s \in Sessions : Cancel(s)
  BY <1>3 DEF Cancel, RunsGood
<1>4. CASE UNCHANGED vars
  BY <1>4 DEF vars, RunsGood
<1> QED
  BY <1>2, <1>3, <1>4, CrashEffect, StepCases

(* A turn never lets one tool fail more than MaxToolErrors * MaxResets     *)
(* times in a row: the third failure in a row resets the counter of its    *)
(* tool and costs one of the guidances the turn has (runtime.go, RunTurn). *)
THEOREM ToolFailuresAreBounded == Spec => []ToolFailuresBounded
<1>1. Init => RunsGood
  BY InitIsGood
<1>2. RunsGood /\ [Next]_vars => RunsGood'
  BY RunsStayGood
<1>3. RunsGood => ToolFailuresBounded
  BY DEF RunsGood, Good, Accounted, ToolFailuresBounded
<1> QED
  BY <1>1, <1>2, <1>3, PTL DEF Spec

-----------------------------------------------------------------------------
(* The status of sessions.                                                 *)

StatusKept ==
  /\ status = [s \in Sessions |-> status[s]]
  /\ PersistentStaysActive

LEMMA StatusAfterIsSet == \A reason : StatusAfter(reason) # "none"
<1>1. \A reason : StatusAfter(reason) \in {"error", "cancelled", "completed"}
  BY Zenon DEF StatusAfter
<1> QED
  BY <1>1

(* SetStatus leaves main and project sessions alone and forgets none.      *)
LEMMA SetStatusKeeps ==
  ASSUME StatusKept, NEW s \in Sessions, NEW st, st # "none", SetStatus(s, st)
  PROVE  /\ StatusKept'
         /\ \A q \in Sessions : status[q] # "none" => status'[q] # "none"
BY RunAssumption DEF StatusKept, PersistentStaysActive, SetStatus

(* What the steps of the system do to the status of the sessions.          *)
LEMMA StatusStaysKept ==
  ASSUME RunsGood, StatusKept, [Next]_vars
  PROVE  /\ StatusKept'
         /\ \A q \in Sessions : status[q] # "none" => status'[q] # "none"
<1>1. \A r \in RunIds : Session(r) \in Sessions
  BY DEF RunsGood, Good, Shaped, Session
<1>2. ASSUME UNCHANGED status
      PROVE  /\ StatusKept'
             /\ \A q \in Sessions : status[q] # "none" => status'[q] # "none"
  BY <1>2 DEF StatusKept, PersistentStaysActive
<1>3. ASSUME NEW r \in RunIds, Begin(r)
      PROVE  /\ StatusKept'
             /\ \A q \in Sessions : status[q] # "none" => status'[q] # "none"
  <2>1. CASE UNCHANGED status
    BY <1>2, <2>1
  <2>2. ASSUME NEW s \in Sessions, status' = [status EXCEPT ![s] = "active"]
        PROVE  /\ StatusKept'
               /\ \A q \in Sessions : status[q] # "none" => status'[q] # "none"
    BY <2>2, RunAssumption DEF StatusKept, PersistentStaysActive
  <2>3. run'[r].session \in Sessions
    BY <1>3, BeginEffect DEF Good, Shaped
  <2> QED
    BY <1>3, <2>1, <2>2, <2>3, BeginEffect
<1>4. ASSUME NEW r \in RunIds, RegisterInstance(r) \/ ResolveFails(r) \/ TurnStep(r)
      PROVE  UNCHANGED status
  BY <1>4, TurnStepEffect DEF RegisterInstance, ResolveFails, TurnEffect
<1>5. ASSUME NEW r \in RunIds, Return(r)
      PROVE  /\ StatusKept'
             /\ \A q \in Sessions : status[q] # "none" => status'[q] # "none"
  <2>1. SetStatus(Session(r), StatusAfter(run[r].reason))
    BY <1>5 DEF Return
  <2> QED
    BY <1>1, <2>1, StatusAfterIsSet, SetStatusKeeps
<1>6. ASSUME NEW r \in RunIds, Leave(r)
      PROVE  /\ StatusKept'
             /\ \A q \in Sessions : status[q] # "none" => status'[q] # "none"
  <2>1. SetStatus(Session(r), "completed") \/ UNCHANGED status
    BY <1>6 DEF Leave
  <2> QED
    BY <1>1, <1>2, <2>1, SetStatusKeeps
<1>7. ASSUME (\E s \in Sessions : Cancel(s)) \/ Crash \/ UNCHANGED vars
      PROVE  UNCHANGED status
  BY <1>7 DEF Cancel, Crash, vars
<1> QED
  BY <1>2, <1>3, <1>4, <1>5, <1>6, <1>7, StepCases

LEMMA InitKeepsStatus == Init => StatusKept
BY RunAssumption DEF Init, StatusKept, PersistentStaysActive

(* However runs in it end, and whoever sets its status afterwards, a main  *)
(* or project session stays active (runner.go, Run; jobexec.go, runJob).   *)
THEOREM PersistentSessionsStayActive == Spec => []PersistentStaysActive
<1>1. Init => RunsGood /\ StatusKept
  BY InitIsGood, InitKeepsStatus
<1>2. RunsGood /\ StatusKept /\ [Next]_vars => RunsGood' /\ StatusKept'
  BY RunsStayGood, StatusStaysKept
<1>3. StatusKept => PersistentStaysActive
  BY DEF StatusKept
<1> QED
  BY <1>1, <1>2, <1>3, PTL DEF Spec
-----------------------------------------------------------------------------
(* The instance table.                                                     *)

(* Runs of a session at a time have met.                                   *)
MeetingsKnown ==
  /\ \A r \in shared : r \in RunIds /\ At(r) # "idle"
  /\ \A r, q \in InFlight :
       Session(r) = Session(q) => r = q \/ {r, q} \subseteq shared

(* An entry names a run that is registered in the session, a session that  *)
(* is run exists, and a run whose entry is missing has met another.        *)
TableTrue ==
  /\ instances = [s \in Sessions |-> instances[s]]
  /\ TableTracksRuns
  /\ \A r \in InFlight : status[Session(r)] # "none"
  /\ MeetingsKnown

LEMMA RegisteredIsInFlight == \A r \in RunIds : At(r) \in Registered => r \in InFlight
BY DEF InFlight, Registered, InTurn

(* Only a run that begins meets others.                                    *)
LEMMA MeetingsStay ==
  ASSUME NEW r \in RunIds,
         RegisterInstance(r) \/ ResolveFails(r) \/ TurnStep(r) \/ Return(r) \/ Leave(r)
  PROVE  shared' = shared
BY DEF RegisterInstance, ResolveFails, TurnStep, Return, Leave, Prompt, Ask, StreamCall,
       StreamFails, StreamEnds, ExecuteTool, AnswerApproval, Result, RequestApproval,
       ApprovalCancelled

LEMMA TableStaysTrue ==
  ASSUME RunsGood, StatusKept, TableTrue, [Next]_vars
  PROVE  TableTrue'
<1>1. \A r \in RunIds : Session(r) \in Sessions
  BY DEF RunsGood, Good, Shaped, Session
<1>2. RunsGood' /\ \A q \in Sessions : status[q] # "none" => status'[q] # "none"
  BY RunsStayGood, StatusStaysKept
<1>3. ASSUME NEW r \in RunIds, Alters(r)
      PROVE  /\ \A q \in RunIds : Session(q)' = Session(q)
             /\ \A q \in RunIds \ {r} : At(q)' = At(q)
  BY <1>3 DEF Alters, RunsGood, Session, At
<1>4. ASSUME NEW r \in RunIds, Begin(r)
      PROVE  TableTrue'
  <2> DEFINE s == run'[r].session
  <2>1. /\ At(r) = "idle" /\ At(r)' = "read" /\ Session(r)' = s
        /\ s \in Sessions /\ UNCHANGED instances /\ Enter(r, s)
        /\ \A q \in RunIds \ {r} : At(q)' = At(q) /\ Session(q)' = Session(q)
    BY <1>4, BeginEffect DEF RunsGood, Good, Shaped, At, Session
  <2>2. /\ shared \subseteq shared'
        /\ \A q \in InFlight : Session(q) = s => {r, q} \subseteq shared'
        /\ \A q \in shared' : q \in shared \/ q = r \/ q \in InFlight
    BY <2>1 DEF Enter, Running
  <2>3. status'[s] # "none"
    BY <1>2, <1>4, <2>1, BeginEffect
       DEF StatusKept, PersistentStaysActive
  <2> HIDE DEF s
  <2>4. InFlight' = InFlight \cup {r} /\ r \notin InFlight
    BY <2>1 DEF InFlight
  <2>5. {"idle", "read"} \cap Registered = {}
    BY DEF Registered, InTurn
  <2>6. instances' = [q \in Sessions |-> instances'[q]]
    BY <2>1 DEF TableTrue
  <2>7. TableTracksRuns'
    BY <2>1, <2>2, <2>5 DEF TableTrue, TableTracksRuns
  <2>8. \A q \in InFlight' : status'[Session(q)'] # "none"
    BY <1>1, <1>2, <2>1, <2>3, <2>4 DEF TableTrue, InFlight
  <2>9. MeetingsKnown'
    <3>1. ASSUME NEW q \in shared' PROVE q \in RunIds /\ At(q)' # "idle"
      BY <2>1, <2>2 DEF TableTrue, MeetingsKnown, InFlight
    <3>2. ASSUME NEW p \in InFlight', NEW q \in InFlight', Session(p)' = Session(q)'
          PROVE  p = q \/ {p, q} \subseteq shared'
      <4>1. CASE p = r \/ q = r
        BY <2>1, <2>2, <2>4, <3>2, <4>1 DEF InFlight
      <4>2. CASE p # r /\ q # r
        BY <2>1, <2>2, <2>4, <3>2, <4>2 DEF TableTrue, MeetingsKnown, InFlight
      <4> QED
        BY <4>1, <4>2
    <3> QED
      BY <3>1, <3>2 DEF MeetingsKnown
  <2> QED
    BY <2>6, <2>7, <2>8, <2>9 DEF TableTrue
(* A step after which no others are in flight, in the same sessions.       *)
<1>5. ASSUME \A q \in RunIds : Session(q)' = Session(q), InFlight' \subseteq InFlight,
             \A q \in RunIds : At(q) # "idle" => At(q)' # "idle", shared' = shared
      PROVE  /\ \A q \in InFlight' : status'[Session(q)'] # "none"
             /\ MeetingsKnown'
  <2>1. \A q \in InFlight' : status'[Session(q)'] # "none"
    BY <1>1, <1>2, <1>5 DEF TableTrue, InFlight
  <2>2. \A q \in shared' : q \in RunIds /\ At(q)' # "idle"
    BY <1>5 DEF TableTrue, MeetingsKnown
  <2>3. \A p, q \in InFlight' : Session(p)' = Session(q)' => p = q \/ {p, q} \subseteq shared'
    BY <1>5 DEF TableTrue, MeetingsKnown, InFlight
  <2> QED
    BY <2>1, <2>2, <2>3 DEF MeetingsKnown
<1>6. ASSUME NEW r \in RunIds, TurnStep(r)
      PROVE  TableTrue'
  <2>1. /\ Alters(r) /\ UNCHANGED instances /\ shared' = shared
        /\ At(r) \in Registered /\ At(r)' \in Registered
    BY <1>6, TurnStepEffect, MeetingsStay DEF TurnEffect, Alters, At
  <2>2. \A q \in RunIds : At(q)' \in Registered <=> At(q) \in Registered
    BY <1>3, <2>1
  <2>3. InFlight' \subseteq InFlight /\ "idle" \notin Registered
    BY <1>3, <2>1, RegisteredIsInFlight DEF InFlight, Registered, InTurn
  <2>4. \A q \in RunIds : At(q) # "idle" => At(q)' # "idle"
    BY <1>3, <2>1, <2>3
  <2>5. TableTracksRuns'
    BY <1>3, <2>1, <2>2 DEF TableTrue, TableTracksRuns
  <2> QED
    BY <1>3, <1>5, <2>1, <2>3, <2>4, <2>5 DEF TableTrue
<1>7. ASSUME NEW r \in RunIds, RegisterInstance(r)
      PROVE  TableTrue'
  <2>1. /\ Alters(r) /\ At(r) = "read" /\ At(r)' = "registered" /\ shared' = shared
        /\ instances' = [instances EXCEPT ![Session(r)] = r]
    BY <1>7, RegisterEffect, MeetingsStay DEF RegisterInstance, At
  <2>2. "read" \notin Registered /\ "registered" \in Registered /\ r \in InFlight
    BY <2>1 DEF Registered, InTurn, InFlight
  <2>3. /\ InFlight' \subseteq InFlight
        /\ \A q \in RunIds : At(q) # "idle" => At(q)' # "idle"
    BY <1>3, <2>1, <2>2 DEF InFlight
  <2>4. \A q \in RunIds \ {r} :
          At(q) \in Registered => Session(q) # Session(r) \/ q \in shared
    BY <2>2, RegisteredIsInFlight DEF TableTrue, MeetingsKnown
  <2>5. ASSUME NEW q \in RunIds, NEW s \in Sessions, instances'[s] = q
        PROVE  At(q)' \in Registered /\ Session(q)' = s
    <3>1. CASE s = Session(r)
      BY <1>1, <1>3, <2>1, <2>2, <2>5, <3>1 DEF TableTrue
    <3>2. CASE s # Session(r)
      <4>1. instances[s] = q
        BY <2>1, <2>5, <3>2 DEF TableTrue
      <4> QED
        BY <1>3, <2>1, <2>2, <3>2, <4>1 DEF TableTrue, TableTracksRuns
    <3> QED
      BY <3>1, <3>2
  <2>6. instances' = [s \in Sessions |-> instances'[s]]
    BY <2>1 DEF TableTrue
  <2>7. ASSUME NEW q \in RunIds, At(q)' \in Registered
        PROVE  instances'[Session(q)'] = q \/ q \in shared'
    BY <1>1, <1>3, <2>1, <2>2, <2>4, <2>7 DEF TableTrue, TableTracksRuns
  <2>8. TableTracksRuns'
    BY <2>5, <2>7 DEF TableTracksRuns
  <2> QED
    BY <1>3, <1>5, <2>1, <2>3, <2>6, <2>8 DEF TableTrue
<1>8. ASSUME NEW r \in RunIds, ResolveFails(r) \/ Return(r)
      PROVE  TableTrue'
  <2>1. /\ Alters(r) /\ At(r) \in Registered /\ At(r)' = "returned" /\ shared' = shared
        /\ instances' = [instances EXCEPT ![Session(r)] = NoRun]
    BY <1>8, ResolveFailsEffect, ReturnEffect, MeetingsStay
       DEF ResolveFails, Return, RemoveInstance, At, Registered
  <2>2. "returned" \notin Registered
    BY DEF Registered, InTurn
  <2>3. /\ InFlight' \subseteq InFlight
        /\ \A q \in RunIds : At(q) # "idle" => At(q)' # "idle"
    BY <1>3, <2>1, RegisteredIsInFlight DEF InFlight
  <2>4. \A q \in RunIds \ {r} :
          At(q) \in Registered => Session(q) # Session(r) \/ q \in shared
    BY <2>1, RegisteredIsInFlight DEF TableTrue, MeetingsKnown
  <2>5. ASSUME NEW q \in RunIds, NEW s \in Sessions, instances'[s] = q
        PROVE  At(q)' \in Registered /\ Session(q)' = s
    <3>1. NoRun # q
      BY RunAssumption
    <3>2. s # Session(r) /\ instances[s] = q
      BY <2>1, <2>5, <3>1 DEF TableTrue
    <3> QED
      BY <1>3, <2>1, <3>2 DEF TableTrue, TableTracksRuns
  <2>6. instances' = [s \in Sessions |-> instances'[s]]
    BY <2>1 DEF TableTrue
  <2>7. ASSUME NEW q \in RunIds, At(q)' \in Registered
        PROVE  instances'[Session(q)'] = q \/ q \in shared'
    BY <1>1, <1>3, <2>1, <2>2, <2>4, <2>7 DEF TableTrue, TableTracksRuns
  <2>8. TableTracksRuns'
    BY <2>5, <2>7 DEF TableTracksRuns
  <2> QED
    BY <1>3, <1>5, <2>1, <2>3, <2>6, <2>8 DEF TableTrue
<1>9. ASSUME NEW r \in RunIds, Leave(r)
      PROVE  TableTrue'
  <2>1. /\ Alters(r) /\ At(r) = "returned" /\ At(r)' = "over" /\ UNCHANGED instances
        /\ shared' = shared
    BY <1>9, LeaveEffect, MeetingsStay DEF Leave, At
  <2>2. {"returned", "over"} \cap Registered = {}
    BY DEF Registered, InTurn
  <2>3. /\ InFlight' \subseteq InFlight
        /\ \A q \in RunIds : At(q) # "idle" => At(q)' # "idle"
    BY <1>3, <2>1 DEF InFlight
  <2>4. \A q \in RunIds : At(q)' \in Registered <=> At(q) \in Registered
    BY <1>3, <2>1, <2>2
  <2>5. TableTracksRuns'
    BY <1>3, <2>1, <2>4 DEF TableTrue, TableTracksRuns
  <2> QED
    BY <1>3, <1>5, <2>1, <2>3, <2>5 DEF TableTrue
<1>10. ASSUME (\E s \in Sessions : Cancel(s)) \/ UNCHANGED vars
       PROVE  TableTrue'
  <2>1. UNCHANGED <<run, instances, status, shared>>
    BY <1>10 DEF Cancel, vars
  <2> QED
    BY <2>1 DEF TableTrue, TableTracksRuns, MeetingsKnown, InFlight, At, Session
<1>11. ASSUME Crash
       PROVE  TableTrue'
  <2>1. /\ \A q \in RunIds : Session(q)' = Session(q)
        /\ \A q \in RunIds : At(q)' \in {"idle", "over", "lost"}
    BY <1>11, CrashEffect DEF Session, At
  <2>2. {"idle", "over", "lost"} \cap Registered = {}
    BY DEF Registered, InTurn
  <2>3. instances' = [s \in Sessions |-> NoRun] /\ shared' = shared
    BY <1>11 DEF Crash
  <2>4. InFlight' \subseteq InFlight
    BY <2>1 DEF InFlight
  <2>5. \A q \in RunIds : At(q) # "idle" => At(q)' # "idle"
    BY <1>11, EndedIsGood DEF Crash, At, RunsGood, Good, Shaped
  <2>6. instances' = [s \in Sessions |-> instances'[s]] /\ TableTracksRuns'
    BY <2>1, <2>2, <2>3, RunAssumption DEF TableTracksRuns
  <2> QED
    BY <1>5, <2>1, <2>3, <2>4, <2>5, <2>6 DEF TableTrue
<1> QED
  BY <1>4, <1>6, <1>7, <1>8, <1>9, <1>10, <1>11, StepCases

LEMMA InitTableTrue == Init => TableTrue
<1> SUFFICES ASSUME Init PROVE TableTrue
  OBVIOUS
<1>1. \A r \in RunIds : At(r) = "idle"
  BY InitIsGood
<1>2. instances = [s \in Sessions |-> NoRun] /\ shared = {}
  BY DEF Init
<1>3. "idle" \notin Registered /\ InFlight = {}
  BY <1>1 DEF Registered, InTurn, InFlight
<1> QED
  BY <1>1, <1>2, <1>3, RunAssumption DEF TableTrue, TableTracksRuns, MeetingsKnown

(* Both tables others go by follow the runs, whoever runs what beside      *)
(* whom: agent.cancel finds no run that is over and misses only runs that  *)
(* met another in their session, and the status the reaper goes by stays   *)
(* that of a live main or project session (registry.go:74, runner.go:391). *)
THEOREM TablesFollowTheRuns == Spec => []TablesFollowRuns
<1>1. Init => RunsGood /\ StatusKept /\ TableTrue
  BY InitIsGood, InitKeepsStatus, InitTableTrue
<1>2. RunsGood /\ StatusKept /\ TableTrue /\ [Next]_vars =>
        RunsGood' /\ StatusKept' /\ TableTrue'
  BY RunsStayGood, StatusStaysKept, TableStaysTrue
<1>3. StatusKept /\ TableTrue => TablesFollowRuns
  BY DEF StatusKept, TableTrue, TablesFollowRuns
<1> QED
  BY <1>1, <1>2, <1>3, PTL DEF Spec
-----------------------------------------------------------------------------
(* Rebuilding a log: replaying its events one after the other.             *)

LEMMA LeastExists ==
  ASSUME NEW S \in SUBSET Nat, S # {}
  PROVE  \E x \in S : \A y \in S : x <= y
<1>1. PICK x \in S : \A y \in S : ~(<<y, x>> \in OpToRel(<, Nat))
  BY NatLessThanWellFounded, WFMin
<1>2. \A y \in S : ~(y < x)
  BY <1>1 DEF OpToRel
<1> QED
  BY <1>2

(* The conversations after the first n events of a log.                    *)
IsReplay(g, l, n) ==
  g = [k \in 0 .. n |-> IF k = 0 THEN <<>> ELSE Replay(g[k - 1], l[k])]

LEMMA ReplayExists ==
  ASSUME NEW l, NEW n \in Nat
  PROVE  \E g : IsReplay(g, l, n)
<1> DEFINE Bad == {m \in Nat : ~\E g : IsReplay(g, l, m)}
<1>1. ASSUME Bad # {} PROVE FALSE
  <2>1. PICK m \in Bad : \A y \in Bad : m <= y
    BY <1>1, LeastExists
  <2>2. CASE m = 0
    <3> DEFINE g == [k \in 0 .. 0 |-> <<>>]
    <3>1. g = [k \in 0 .. 0 |-> IF k = 0 THEN <<>> ELSE Replay(g[k - 1], l[k])]
      OBVIOUS
    <3> QED
      BY <2>2, <3>1 DEF IsReplay
  <2>3. CASE m # 0
    <3>0. m \in Nat /\ m - 1 \in Nat /\ ~(m <= m - 1)
      BY <2>3
    <3>1. PICK g : IsReplay(g, l, m - 1)
      BY <2>1, <3>0
    <3> DEFINE h == [k \in 0 .. m |-> IF k = m THEN Replay(g[m - 1], l[m]) ELSE g[k]]
    <3>2. ASSUME NEW k \in 0 .. m
          PROVE  h[k] = IF k = 0 THEN <<>> ELSE Replay(h[k - 1], l[k])
      <4>1. k = 0 \/ k - 1 \in 0 .. m - 1
        OBVIOUS
      <4>2. \A i \in 0 .. m - 1 : i \in 0 .. m /\ i # m /\ h[i] = g[i]
        BY <3>0
      <4>3. \A i \in 0 .. m - 1 : g[i] = IF i = 0 THEN <<>> ELSE Replay(g[i - 1], l[i])
        BY <3>1 DEF IsReplay
      <4>4. CASE k = m
        BY <2>3, <4>1, <4>2, <4>4
      <4>5. CASE k # m
        <5>1. k \in 0 .. m - 1
          BY <3>0, <4>5
        <5> QED
          BY <4>1, <4>2, <4>3, <5>1
      <4> QED
        BY <4>4, <4>5
    <3>3. h = [k \in 0 .. m |-> h[k]]
      OBVIOUS
    <3> HIDE DEF h
    <3>4. IsReplay(h, l, m)
      BY <3>2, <3>3 DEF IsReplay
    <3> QED
      BY <2>1, <3>4
  <2> QED
    BY <2>2, <2>3
<1> QED
  BY <1>1

LEMMA ReplayAgrees ==
  ASSUME NEW g, NEW h, NEW l, NEW q, NEW n \in Nat, NEW m \in Nat, n <= m,
         IsReplay(g, l, n), IsReplay(h, q, m), \A k \in 1 .. n : l[k] = q[k]
  PROVE  g[n] = h[n]
<1> DEFINE Bad == {k \in 0 .. n : g[k] # h[k]}
<1>0. /\ \A k \in 0 .. n : g[k] = IF k = 0 THEN <<>> ELSE Replay(g[k - 1], l[k])
      /\ \A k \in 0 .. m : h[k] = IF k = 0 THEN <<>> ELSE Replay(h[k - 1], q[k])
  BY DEF IsReplay
<1>1. ASSUME Bad # {} PROVE FALSE
  <2>0. Bad \in SUBSET Nat
    OBVIOUS
  <2>1. PICK k \in Bad : \A y \in Bad : k <= y
    BY <1>1, <2>0, LeastExists
  <2>2. k # 0 /\ k \in 1 .. n /\ k - 1 \in 0 .. n /\ k \in 0 .. m /\ ~(k <= k - 1)
    <3>1. g[0] = <<>> /\ h[0] = <<>>
      BY <1>0
    <3> QED
      BY <2>1, <3>1
  <2>3. g[k - 1] = h[k - 1]
    BY <2>1, <2>2
  <2> QED
    BY <1>0, <2>1, <2>2, <2>3
<1>2. n \in 0 .. n
  OBVIOUS
<1> QED
  BY <1>1, <1>2

LEMMA RebuildIs ==
  ASSUME NEW l, Len(l) \in Nat
  PROVE  \E g : IsReplay(g, l, Len(l)) /\ RebuildMessages(l) = g[Len(l)]
<1>1. \E g : g = [k \in 0 .. Len(l) |-> IF k = 0 THEN <<>> ELSE Replay(g[k - 1], l[k])]
  BY ReplayExists DEF IsReplay
<1> DEFINE f == CHOOSE g : g = [k \in 0 .. Len(l) |-> IF k = 0 THEN <<>> ELSE Replay(g[k - 1], l[k])]
<1>2. f = [k \in 0 .. Len(l) |-> IF k = 0 THEN <<>> ELSE Replay(f[k - 1], l[k])]
  BY <1>1
<1>3. RebuildMessages(l) = f[Len(l)]
  BY DEF RebuildMessages
<1> HIDE DEF f
<1> QED
  BY <1>2, <1>3 DEF IsReplay

(* One event more is replayed on what there was.                           *)
LEMMA RebuildAppend ==
  ASSUME NEW S, NEW l \in Seq(S), NEW e \in S
  PROVE  RebuildMessages(Append(l, e)) = Replay(RebuildMessages(l), e)
<1> DEFINE n == Len(l)
           q == Append(l, e)
<1>1. n \in Nat /\ Len(q) = n + 1 /\ q[n + 1] = e /\ \A k \in 1 .. n : l[k] = q[k]
  OBVIOUS
<1>2. PICK g : IsReplay(g, l, n) /\ RebuildMessages(l) = g[n]
  BY <1>1, RebuildIs
<1> HIDE DEF q
<1>3. PICK h : IsReplay(h, q, n + 1) /\ RebuildMessages(q) = h[n + 1]
  <2>1. Len(q) \in Nat
    BY <1>1
  <2> QED
    BY <1>1, <2>1, RebuildIs
<1> HIDE DEF n
<1>4. g[n] = h[n]
  <2>1. n + 1 \in Nat /\ n <= n + 1
    BY <1>1
  <2> QED
    BY <1>1, <1>2, <1>3, <2>1, ReplayAgrees
<1>5. h[n + 1] = Replay(h[n], q[n + 1])
  <2>1. n + 1 \in 0 .. n + 1 /\ n + 1 # 0 /\ (n + 1) - 1 = n
    BY <1>1
  <2>2. h[n + 1] = IF n + 1 = 0 THEN <<>> ELSE Replay(h[(n + 1) - 1], q[n + 1])
    BY <1>3, <2>1 DEF IsReplay
  <2> QED
    BY <2>1, <2>2
<1> QED
  BY <1>1, <1>2, <1>3, <1>4, <1>5 DEF q

LEMMA RebuildEmpty == RebuildMessages(<<>>) = <<>>
<1>1. Len(<<>>) = 0
  OBVIOUS
<1>2. PICK g : IsReplay(g, <<>>, 0) /\ RebuildMessages(<<>>) = g[0]
  BY <1>1, RebuildIs
<1> QED
  BY <1>2 DEF IsReplay
-----------------------------------------------------------------------------
(* Flattening a conversation: the pieces of its messages, in order.        *)

(* The beginnings of a flattened sequence.                                 *)
IsFlat(g, ss, n) ==
  g = [i \in 1 .. n |-> IF i = 1 THEN ss[i] ELSE g[i - 1] \o ss[i]]

LEMMA FlatExists ==
  ASSUME NEW ss, NEW n \in Nat
  PROVE  \E g : IsFlat(g, ss, n)
<1> DEFINE Bad == {m \in Nat : ~\E g : IsFlat(g, ss, m)}
<1>1. ASSUME Bad # {} PROVE FALSE
  <2>1. PICK m \in Bad : \A y \in Bad : m <= y
    BY <1>1, LeastExists
  <2>2. CASE m = 0
    <3> DEFINE g == [i \in 1 .. 0 |-> <<>>]
    <3>1. g = [i \in 1 .. 0 |-> IF i = 1 THEN ss[i] ELSE g[i - 1] \o ss[i]]
      OBVIOUS
    <3> QED
      BY <2>2, <3>1 DEF IsFlat
  <2>3. CASE m # 0
    <3>0. m \in Nat /\ m - 1 \in Nat /\ ~(m <= m - 1)
      BY <2>3
    <3>1. PICK g : IsFlat(g, ss, m - 1)
      BY <2>1, <3>0
    <3> DEFINE h == [i \in 1 .. m |->
                       IF i < m THEN g[i] ELSE IF m = 1 THEN ss[m] ELSE g[m - 1] \o ss[m]]
    <3>2. ASSUME NEW i \in 1 .. m
          PROVE  h[i] = IF i = 1 THEN ss[i] ELSE h[i - 1] \o ss[i]
      <4>1. i = 1 \/ i - 1 \in 1 .. m - 1
        OBVIOUS
      <4>2. \A j \in 1 .. m - 1 : j \in 1 .. m /\ j < m /\ h[j] = g[j]
        BY <3>0
      <4>3. \A j \in 1 .. m - 1 : g[j] = IF j = 1 THEN ss[j] ELSE g[j - 1] \o ss[j]
        BY <3>1 DEF IsFlat
      <4>4. CASE i = m
        BY <2>3, <4>1, <4>2, <4>4
      <4>5. CASE i # m
        <5>1. i \in 1 .. m - 1
          BY <3>0, <4>5
        <5> QED
          BY <4>1, <4>2, <4>3, <5>1
      <4> QED
        BY <4>4, <4>5
    <3>3. h = [i \in 1 .. m |-> h[i]]
      OBVIOUS
    <3> HIDE DEF h
    <3>4. IsFlat(h, ss, m)
      BY <3>2, <3>3 DEF IsFlat
    <3> QED
      BY <2>1, <3>4
  <2> QED
    BY <2>2, <2>3
<1> QED
  BY <1>1

LEMMA FlatAgrees ==
  ASSUME NEW g, NEW h, NEW ss, NEW tt, NEW n \in Nat \ {0}, NEW m \in Nat, n <= m,
         IsFlat(g, ss, n), IsFlat(h, tt, m), \A k \in 1 .. n : ss[k] = tt[k]
  PROVE  g[n] = h[n]
<1> DEFINE Bad == {k \in 1 .. n : g[k] # h[k]}
<1>0. /\ \A k \in 1 .. n : g[k] = IF k = 1 THEN ss[k] ELSE g[k - 1] \o ss[k]
      /\ \A k \in 1 .. m : h[k] = IF k = 1 THEN tt[k] ELSE h[k - 1] \o tt[k]
  BY DEF IsFlat
<1>1. ASSUME Bad # {} PROVE FALSE
  <2>0. Bad \in SUBSET Nat
    OBVIOUS
  <2>1. PICK k \in Bad : \A y \in Bad : k <= y
    BY <1>1, <2>0, LeastExists
  <2>2. k # 1 /\ k \in 1 .. n /\ k - 1 \in 1 .. n /\ k \in 1 .. m /\ ~(k <= k - 1)
    <3>1. 1 \in 1 .. n /\ 1 \in 1 .. m
      OBVIOUS
    <3>2. g[1] = ss[1] /\ h[1] = tt[1]
      BY <1>0, <3>1
    <3>3. g[1] = h[1]
      BY <3>1, <3>2
    <3> QED
      BY <2>1, <3>3
  <2>3. g[k - 1] = h[k - 1]
    BY <2>1, <2>2
  <2> QED
    BY <1>0, <2>1, <2>2, <2>3
<1>2. n \in 1 .. n
  OBVIOUS
<1> QED
  BY <1>1, <1>2

LEMMA FlatIs ==
  ASSUME NEW ss, Len(ss) \in Nat, Len(ss) # 0
  PROVE  \E g : IsFlat(g, ss, Len(ss)) /\ FlattenSeq(ss) = g[Len(ss)]
<1>1. \E g : g = [i \in 1 .. Len(ss) |-> IF i = 1 THEN ss[i] ELSE g[i - 1] \o ss[i]]
  BY FlatExists DEF IsFlat
<1> DEFINE f == CHOOSE g : g = [i \in 1 .. Len(ss) |-> IF i = 1 THEN ss[i] ELSE g[i - 1] \o ss[i]]
<1>2. f = [i \in 1 .. Len(ss) |-> IF i = 1 THEN ss[i] ELSE f[i - 1] \o ss[i]]
  BY <1>1
<1>3. FlattenSeq(ss) = f[Len(ss)]
  BY DEF FlattenSeq
<1> HIDE DEF f
<1> QED
  BY <1>2, <1>3 DEF IsFlat

LEMMA FlattenTyped ==
  ASSUME NEW S, NEW ss \in Seq(Seq(S))
  PROVE  FlattenSeq(ss) \in Seq(S)
<1> DEFINE n == Len(ss)
<1>0. n \in Nat /\ \A i \in 1 .. n : ss[i] \in Seq(S)
  OBVIOUS
<1>1. CASE n = 0
  <2>1. ss = <<>>
    BY <1>1
  <2>2. FlattenSeq(ss) = <<>>
    BY <1>1, <2>1 DEF FlattenSeq
  <2> QED
    BY <2>2
<1>2. CASE n # 0
  <2>1. PICK g : IsFlat(g, ss, n) /\ FlattenSeq(ss) = g[n]
    BY <1>0, <1>2, FlatIs
  <2>2. \A k \in 1 .. n : g[k] = IF k = 1 THEN ss[k] ELSE g[k - 1] \o ss[k]
    BY <2>1 DEF IsFlat
  <2> HIDE DEF n
  <2> DEFINE Bad == {k \in 1 .. n : g[k] \notin Seq(S)}
  <2>3. ASSUME Bad # {} PROVE FALSE
    <3>0. Bad \in SUBSET Nat
      BY <1>0
    <3>1. PICK k \in Bad : \A y \in Bad : k <= y
      BY <2>3, <3>0, LeastExists
    <3>2. k # 1 /\ k \in 1 .. n /\ k - 1 \in 1 .. n /\ ~(k <= k - 1)
      BY <1>0, <2>2, <3>1
    <3>3. g[k - 1] \in Seq(S) /\ ss[k] \in Seq(S)
      BY <1>0, <3>1, <3>2
    <3>4. g[k] = g[k - 1] \o ss[k]
      BY <2>2, <3>2
    <3> QED
      BY <3>1, <3>3, <3>4, ConcatProperties
  <2>4. n \in 1 .. n
    BY <1>0, <1>2
  <2> QED
    BY <2>1, <2>3, <2>4
<1> QED
  BY <1>1, <1>2

LEMMA FlattenAppend ==
  ASSUME NEW S, NEW ss \in Seq(Seq(S)), NEW x \in Seq(S)
  PROVE  FlattenSeq(Append(ss, x)) = FlattenSeq(ss) \o x
<1> DEFINE n == Len(ss)
           tt == Append(ss, x)
<1>1. n \in Nat /\ Len(tt) = n + 1 /\ tt[n + 1] = x /\ \A k \in 1 .. n : ss[k] = tt[k]
  OBVIOUS
<1>2. n = 0 => ss = <<>>
  OBVIOUS
<1> HIDE DEF tt
<1>3. PICK h : IsFlat(h, tt, n + 1) /\ FlattenSeq(tt) = h[n + 1]
  <2>1. Len(tt) \in Nat /\ Len(tt) # 0
    BY <1>1
  <2> QED
    BY <1>1, <2>1, FlatIs
<1>4. h[n + 1] = IF n + 1 = 1 THEN tt[n + 1] ELSE h[(n + 1) - 1] \o tt[n + 1]
  <2>1. n + 1 \in 1 .. n + 1
    BY <1>1
  <2> HIDE DEF n
  <2> QED
    BY <1>3, <2>1 DEF IsFlat
<1>5. CASE n = 0
  <2>1. FlattenSeq(ss) = <<>>
    BY <1>2, <1>5 DEF FlattenSeq
  <2>2. <<>> \o x = x
    BY ConcatEmptySeq
  <2>3. h[n + 1] = x
    BY <1>1, <1>4, <1>5
  <2> QED
    BY <1>3, <2>1, <2>2, <2>3 DEF tt
<1>6. CASE n # 0
  <2>1. PICK g : IsFlat(g, ss, n) /\ FlattenSeq(ss) = g[n]
    BY <1>1, <1>6, FlatIs
  <2> HIDE DEF n
  <2>2. g[n] = h[n]
    <3>1. n + 1 \in Nat /\ n <= n + 1 /\ n \in Nat \ {0}
      BY <1>1, <1>6
    <3>2. \A k \in 1 .. n : ss[k] = tt[k]
      BY <1>1
    <3> DEFINE m == n + 1
    <3>3. m \in Nat /\ n <= m /\ IsFlat(h, tt, m)
      BY <1>3, <3>1
    <3> HIDE DEF m
    <3> QED
      BY <2>1, <3>1, <3>2, <3>3, FlatAgrees
  <2>3. (n + 1) - 1 = n /\ n + 1 # 1
    BY <1>1, <1>6
  <2> QED
    BY <1>1, <1>3, <1>4, <2>1, <2>2, <2>3 DEF tt
<1> QED
  BY <1>5, <1>6

(* What Flat makes of one message.                                         *)
Pieces(m) ==
  CASE m.role = "tool" -> [k \in DOMAIN m.calls |-> Message("tool", <<m.calls[k]>>)]
    [] m.role = "assistant" /\ m.calls = <<>> -> <<>>
    [] OTHER -> <<m>>

Ids    == CallIds \cup {NoCall}
Events == [type : EventTypes, call : Ids]
Msgs   == [role : Roles, calls : Seq(Ids)]

LEMMA FlatPieces ==
  ASSUME NEW msgs
  PROVE  Flat(msgs) = FlattenSeq([i \in DOMAIN msgs |-> Pieces(msgs[i])])
BY DEF Flat, Pieces

LEMMA PiecesTyped ==
  ASSUME NEW m \in Msgs
  PROVE  Pieces(m) \in Seq(Msgs)
<1>1. m.role \in Roles /\ m.calls \in Seq(Ids)
  BY DEF Msgs
<1>2. \A k \in 1 .. Len(m.calls) : Message("tool", <<m.calls[k]>>) \in Msgs
  <2>1. \A k \in 1 .. Len(m.calls) : <<m.calls[k]>> \in Seq(Ids)
    BY <1>1
  <2> QED
    BY <2>1 DEF Message, Msgs, Roles
<1>3. CASE m.role = "tool"
  <2>1. Pieces(m) = [k \in 1 .. Len(m.calls) |-> Message("tool", <<m.calls[k]>>)]
    BY <1>1, <1>3 DEF Pieces
  <2>2. Len(m.calls) \in Nat
    BY <1>1
  <2> QED
    BY <1>2, <2>1, <2>2
<1>4. CASE m.role # "tool" /\ m.role = "assistant" /\ m.calls = <<>>
  BY <1>4 DEF Pieces
<1>5. CASE m.role # "tool" /\ ~(m.role = "assistant" /\ m.calls = <<>>)
  <2>1. Pieces(m) = <<m>>
    BY <1>5 DEF Pieces
  <2> QED
    BY <2>1
<1> QED
  BY <1>3, <1>4, <1>5

LEMMA PieceSeq ==
  ASSUME NEW msgs \in Seq(Msgs)
  PROVE  [i \in DOMAIN msgs |-> Pieces(msgs[i])] \in Seq(Seq(Msgs))
<1>1. DOMAIN msgs = 1 .. Len(msgs) /\ Len(msgs) \in Nat
      /\ \A i \in 1 .. Len(msgs) : msgs[i] \in Msgs
  OBVIOUS
<1>2. \A i \in 1 .. Len(msgs) : Pieces(msgs[i]) \in Seq(Msgs)
  BY <1>1, PiecesTyped
<1> QED
  BY <1>1, <1>2

LEMMA FlatTyped ==
  ASSUME NEW msgs \in Seq(Msgs)
  PROVE  Flat(msgs) \in Seq(Msgs)
BY FlatPieces, PieceSeq, FlattenTyped

LEMMA FlatAppend ==
  ASSUME NEW msgs \in Seq(Msgs), NEW m \in Msgs
  PROVE  Flat(Append(msgs, m)) = Flat(msgs) \o Pieces(m)
<1> DEFINE ss == [i \in DOMAIN msgs |-> Pieces(msgs[i])]
           q  == Append(msgs, m)
           tt == [i \in DOMAIN q |-> Pieces(q[i])]
           n  == Len(msgs)
<1>1. n \in Nat /\ DOMAIN msgs = 1 .. n /\ DOMAIN q = 1 .. n + 1
      /\ q[n + 1] = m /\ \A i \in 1 .. n : q[i] = msgs[i]
  OBVIOUS
<1>2. ss \in Seq(Seq(Msgs)) /\ Pieces(m) \in Seq(Msgs)
  BY PieceSeq, PiecesTyped
<1>3. tt = Append(ss, Pieces(m))
  <2>1. DOMAIN ss = 1 .. n /\ Len(ss) = n
    BY <1>1
  <2> DEFINE uu == Append(ss, Pieces(m))
  <2>2. DOMAIN uu = 1 .. n + 1 /\ uu[n + 1] = Pieces(m)
        /\ (\A i \in 1 .. n : uu[i] = ss[i]) /\ uu = [i \in 1 .. n + 1 |-> uu[i]]
    <3>1. Len(ss) = n /\ ss \in Seq(Seq(Msgs))
      BY <1>2, <2>1
    <3> HIDE DEF ss, n
    <3>2. /\ uu \in Seq(Seq(Msgs)) /\ Len(uu) = n + 1 /\ uu[n + 1] = Pieces(m)
          /\ \A i \in 1 .. n : uu[i] = ss[i]
      BY <1>2, <3>1, AppendProperties
    <3>3. n + 1 \in Nat
      BY <1>1
    <3> HIDE DEF uu
    <3>4. DOMAIN uu = 1 .. n + 1 /\ uu = [i \in 1 .. n + 1 |-> uu[i]]
      BY <3>2, LenProperties
    <3> QED
      BY <3>2, <3>4
  <2>3. \A i \in 1 .. n + 1 : tt[i] = uu[i]
    <3>1. \A i \in 1 .. n + 1 : i = n + 1 \/ i \in 1 .. n
      BY <1>1
    <3>2. \A i \in 1 .. n : ss[i] = Pieces(msgs[i])
      BY <1>1
    <3> HIDE DEF uu, ss, n, q
    <3> QED
      BY <1>1, <2>2, <3>1, <3>2
  <2> HIDE DEF uu
  <2>4. tt = [i \in 1 .. n + 1 |-> tt[i]]
    BY <1>1
  <2> HIDE DEF tt
  <2> QED
    BY <2>2, <2>3, <2>4 DEF uu
<1> QED
  BY <1>2, <1>3, FlatPieces, FlattenAppend
-----------------------------------------------------------------------------
(* Conversations in which some calls are without an answer.                *)

(* A conversation in which only calls of D are without an answer.          *)
Waits(h, D) ==
  /\ \A i \in DOMAIN h : h[i].role = "assistant" =>
       /\ Answered(h, i) \subseteq ToSet(h[i].calls)
       /\ ToSet(h[i].calls) \ Answered(h, i) \subseteq D
  /\ \A i \in DOMAIN h : h[i].role = "tool" =>
       i > 1 /\ h[i - 1].role \in {"assistant", "tool"}

(* The message at p is the last that made calls; only it makes this one.   *)
Trailing(h, p) ==
  p \in DOMAIN h /\ h[p].role = "assistant" /\ \A j \in p + 1 .. Len(h) : h[j].role = "tool"

OnlyAt(h, p, id) ==
  /\ id \in ToSet(h[p].calls)
  /\ \A i \in DOMAIN h \ {p} : h[i].role = "assistant" => id \notin ToSet(h[i].calls)

LEMMA WaitsForNothing ==
  ASSUME NEW h, Waits(h, {})
  PROVE  WellFormed(h)
BY DEF Waits, WellFormed

LEMMA AppendIs ==
  ASSUME NEW h \in Seq(Msgs), NEW m \in Msgs
  PROVE  LET q == Append(h, m)
         IN  /\ q \in Seq(Msgs) /\ Len(h) \in Nat /\ Len(q) = Len(h) + 1
             /\ DOMAIN h = 1 .. Len(h) /\ DOMAIN q = 1 .. Len(h) + 1
             /\ q[Len(h) + 1] = m /\ \A i \in 1 .. Len(h) : q[i] = h[i]
OBVIOUS

LEMMA AnsweredAppend ==
  ASSUME NEW h \in Seq(Msgs), NEW m \in Msgs, NEW i \in DOMAIN h
  PROVE  Answered(Append(h, m), i) =
           IF m.role = "tool" /\ \A k \in i + 1 .. Len(h) : h[k].role = "tool"
           THEN Answered(h, i) \cup ToSet(m.calls) ELSE Answered(h, i)
<1> DEFINE q == Append(h, m)
           n == Len(h)
<1>1. /\ n \in Nat /\ Len(q) = n + 1 /\ DOMAIN h = 1 .. n
      /\ q[n + 1] = m /\ \A j \in 1 .. n : q[j] = h[j]
  BY AppendIs
<1> HIDE DEF q, n
<1>2. i \in 1 .. n
  BY <1>1
<1>3. \A j \in i + 1 .. n : j \in Block(q, i) <=> j \in Block(h, i)
  BY <1>1, <1>2 DEF Block, n
<1>4. n + 1 \in Block(q, i) <=> m.role = "tool" /\ \A k \in i + 1 .. n : h[k].role = "tool"
  <2>1. n + 1 \in i + 1 .. Len(q) /\ \A k \in i + 1 .. n + 1 : k = n + 1 \/ k \in i + 1 .. n
    BY <1>1, <1>2
  <2>2. \A k \in i + 1 .. n : q[k] = h[k] /\ k \in i + 1 .. n + 1
    BY <1>1, <1>2
  <2>3. n + 1 \in Block(q, i) <=> \A k \in i + 1 .. n + 1 : q[k].role = "tool"
    BY <2>1 DEF Block
  <2>4. n + 1 \in i + 1 .. n + 1
    BY <1>1, <1>2
  <2> QED
    BY <1>1, <2>1, <2>2, <2>3, <2>4
<1>5. Block(h, i) \subseteq i + 1 .. n /\ Block(q, i) \subseteq i + 1 .. n + 1
  BY <1>1 DEF Block, n
<1>6. Block(q, i) = IF m.role = "tool" /\ \A k \in i + 1 .. n : h[k].role = "tool"
                    THEN Block(h, i) \cup {n + 1} ELSE Block(h, i)
  <2>1. \A j \in i + 1 .. n + 1 : j = n + 1 \/ j \in i + 1 .. n
    BY <1>1, <1>2
  <2>2. n + 1 \notin i + 1 .. n
    BY <1>1
  <2> DEFINE last == m.role = "tool" /\ \A k \in i + 1 .. n : h[k].role = "tool"
  <2>3. n + 1 \in Block(q, i) <=> last
    BY <1>4
  <2> HIDE DEF last
  <2> DEFINE A == i + 1 .. n
             B == i + 1 .. n + 1
             a == Block(h, i)
             b == Block(q, i)
             o == n + 1
  <2>4. /\ \A j \in A : j \in b <=> j \in a
        /\ a \subseteq A /\ b \subseteq B /\ o \notin A /\ (o \in b <=> last)
        /\ \A j \in B : j = o \/ j \in A
    BY <1>3, <1>5, <2>1, <2>2, <2>3
  <2> HIDE DEF A, B, a, b, o
  <2>5. last => b = a \cup {o}
    BY <2>4
  <2>6. ~last => b = a
    BY <2>4
  <2>7. b = IF last THEN a \cup {o} ELSE a
    BY <2>5, <2>6, Zenon
  <2> QED
    BY <2>7 DEF last, a, b, o
<1>7. \A j \in Block(h, i) : q[j] = h[j]
  BY <1>1, <1>2, <1>5
<1> QED
  BY <1>1, <1>6, <1>7 DEF Answered, q, n

LEMMA AnsweredLast ==
  ASSUME NEW h \in Seq(Msgs)
  PROVE  Answered(h, Len(h)) = {}
<1>1. Len(h) + 1 .. Len(h) = {}
  BY LenProperties
<1> QED
  BY <1>1 DEF Answered, Block

(* A message that neither makes nor answers a call changes nothing.        *)
LEMMA WaitsPlain ==
  ASSUME NEW h \in Seq(Msgs), NEW D, Waits(h, D),
         NEW m \in Msgs, m.role # "tool", ToSet(m.calls) \subseteq D
  PROVE  Waits(Append(h, m), D)
<1> DEFINE q == Append(h, m)
           n == Len(h)
<1>1. /\ q \in Seq(Msgs) /\ n \in Nat /\ Len(q) = n + 1 /\ DOMAIN h = 1 .. n
      /\ DOMAIN q = 1 .. n + 1 /\ q[n + 1] = m /\ \A j \in 1 .. n : q[j] = h[j]
  BY AppendIs
<1>2. \A i \in 1 .. n : Answered(q, i) = Answered(h, i)
  BY <1>1, AnsweredAppend
<1>3. Answered(q, n + 1) = {}
  BY <1>1, AnsweredLast
<1> HIDE DEF q, n
<1>4. \A i \in 1 .. n + 1 : i = n + 1 \/ i \in 1 .. n
  BY <1>1
<1>5. ASSUME NEW i \in DOMAIN q, q[i].role = "assistant"
      PROVE  Answered(q, i) \subseteq ToSet(q[i].calls) /\ ToSet(q[i].calls) \ Answered(q, i) \subseteq D
  BY <1>1, <1>2, <1>3, <1>4, <1>5 DEF Waits
<1>6. ASSUME NEW i \in DOMAIN q, q[i].role = "tool"
      PROVE  i > 1 /\ q[i - 1].role \in {"assistant", "tool"}
  <2>1. i \in 1 .. n
    BY <1>1, <1>4, <1>6
  <2>2. i > 1 /\ h[i - 1].role \in {"assistant", "tool"}
    BY <1>1, <1>6, <2>1 DEF Waits
  <2>3. i - 1 \in 1 .. n
    BY <1>1, <2>1, <2>2
  <2> QED
    BY <1>1, <2>2, <2>3
<1>7. Waits(q, D)
  BY <1>5, <1>6 DEF Waits
<1> QED
  BY <1>7 DEF q

LEMMA WaitsMore ==
  ASSUME NEW h, NEW D, NEW E, Waits(h, D), D \subseteq E
  PROVE  Waits(h, E)
BY DEF Waits

(* An answer to a call of the last message that made calls.                *)
LEMMA WaitsResult ==
  ASSUME NEW h \in Seq(Msgs), NEW D, Waits(h, D), NEW p, Trailing(h, p),
         NEW id \in Ids, OnlyAt(h, p, id)
  PROVE  Waits(Append(h, Message("tool", <<id>>)), D \ {id})
<1> DEFINE m == Message("tool", <<id>>)
           q == Append(h, m)
           n == Len(h)
<1>0. m \in Msgs /\ m.role = "tool" /\ ToSet(m.calls) = {id}
  <2>1. <<id>> \in Seq(Ids)
    OBVIOUS
  <2>2. m \in Msgs /\ m.role = "tool" /\ m.calls = <<id>>
    BY <2>1 DEF Message, Msgs, Roles
  <2>3. ToSet(<<id>>) = {id}
    BY DEF ToSet
  <2> QED
    BY <2>2, <2>3
<1> HIDE DEF m
<1>1. /\ q \in Seq(Msgs) /\ n \in Nat /\ Len(q) = n + 1 /\ DOMAIN h = 1 .. n
      /\ DOMAIN q = 1 .. n + 1 /\ q[n + 1] = m /\ \A j \in 1 .. n : q[j] = h[j]
  BY <1>0, AppendIs
<1>2. \A i \in 1 .. n : Answered(q, i) =
        IF \A k \in i + 1 .. n : h[k].role = "tool" THEN Answered(h, i) \cup {id} ELSE Answered(h, i)
  BY <1>0, <1>1, AnsweredAppend
<1>3. p \in 1 .. n /\ h[p].role = "assistant" /\ \A j \in p + 1 .. n : h[j].role = "tool"
  BY <1>1 DEF Trailing
<1> HIDE DEF q, n
<1>4. \A i \in 1 .. n + 1 : i = n + 1 \/ i \in 1 .. n
  BY <1>1
<1>5. ASSUME NEW i \in DOMAIN q, q[i].role = "assistant"
      PROVE  /\ Answered(q, i) \subseteq ToSet(q[i].calls)
             /\ ToSet(q[i].calls) \ Answered(q, i) \subseteq D \ {id}
  <2>1. i \in 1 .. n /\ q[i] = h[i] /\ h[i].role = "assistant"
    BY <1>0, <1>1, <1>4, <1>5
  <2>2. Answered(h, i) \subseteq ToSet(h[i].calls) /\ ToSet(h[i].calls) \ Answered(h, i) \subseteq D
    BY <1>1, <2>1 DEF Waits
  <2>3. CASE i = p
    <3>1. Answered(q, i) = Answered(h, i) \cup {id} /\ id \in ToSet(h[i].calls)
      BY <1>2, <1>3, <2>1, <2>3 DEF OnlyAt
    <3> QED
      BY <2>1, <2>2, <3>1
  <2>4. CASE i # p
    <3>1. ~(i \in p + 1 .. n)
      BY <1>3, <2>1
    <3>2. p \in i + 1 .. n
      BY <1>1, <1>3, <2>1, <2>4, <3>1
    <3>3. Answered(q, i) = Answered(h, i)
      BY <1>2, <1>3, <2>1, <3>2
    <3>4. id \notin ToSet(h[i].calls)
      BY <1>1, <2>1, <2>4 DEF OnlyAt
    <3> QED
      BY <2>1, <2>2, <3>3, <3>4
  <2> QED
    BY <2>3, <2>4
<1>6. ASSUME NEW i \in DOMAIN q, q[i].role = "tool"
      PROVE  i > 1 /\ q[i - 1].role \in {"assistant", "tool"}
  <2>1. CASE i \in 1 .. n
    <3>1. i > 1 /\ h[i - 1].role \in {"assistant", "tool"}
      BY <1>1, <1>6, <2>1 DEF Waits
    <3>2. i - 1 \in 1 .. n
      BY <1>1, <2>1, <3>1
    <3> QED
      BY <1>1, <3>1, <3>2
  <2>2. CASE i = n + 1
    <3>1. n \in 1 .. n /\ i > 1 /\ i - 1 = n /\ (n = p \/ n \in p + 1 .. n)
      BY <1>1, <1>3, <2>2
    <3> QED
      BY <1>1, <1>3, <3>1
  <2> QED
    BY <1>1, <1>4, <2>1, <2>2
<1>7. Waits(q, D \ {id})
  BY <1>5, <1>6 DEF Waits
<1> QED
  BY <1>7 DEF q, m

(* What WithCall makes of a conversation that ends with an assistant.      *)
LEMMA WithCallJoins ==
  ASSUME NEW h \in Seq(Msgs), h # <<>>, Last(h).role = "assistant", NEW id \in Ids
  PROVE  LET q == WithCall(h, id)
             m == Message("assistant", Append(Last(h).calls, id))
         IN  /\ q \in Seq(Msgs) /\ Len(q) = Len(h) /\ Len(h) \in Nat \ {0}
             /\ q = Append(Front(h), m) /\ q # <<>> /\ Front(q) = Front(h) /\ Last(q) = m
             /\ Front(h) \in Seq(Msgs) /\ h = Append(Front(h), Last(h)) /\ m \in Msgs
             /\ DOMAIN q = 1 .. Len(h) /\ DOMAIN h = 1 .. Len(h)
             /\ \A i \in 1 .. Len(h) - 1 : q[i] = h[i]
             /\ q[Len(h)] = m /\ m.role = "assistant" /\ Last(h) = h[Len(h)]
             /\ ToSet(m.calls) = ToSet(Last(h).calls) \cup {id}
<1> DEFINE n == Len(h)
           m == Message("assistant", Append(Last(h).calls, id))
           f == Front(h)
<1>1. n \in Nat \ {0} /\ DOMAIN h = 1 .. n /\ n \in 1 .. n
  BY EmptySeq, LenProperties
<1>2. Last(h) = h[n] /\ h[n] \in Msgs /\ h[n].calls \in Seq(Ids)
  <2>1. Last(h) = h[n] /\ h[n] \in Msgs
    BY <1>1 DEF Last
  <2> QED
    BY <2>1 DEF Msgs
<1>3. m \in Msgs /\ m.role = "assistant" /\ m.calls = Append(h[n].calls, id)
  <2>1. Append(h[n].calls, id) \in Seq(Ids)
    BY <1>2
  <2> QED
    BY <1>2, <2>1 DEF Message, Msgs, Roles
<1>4. ToSet(Append(h[n].calls, id)) = ToSet(h[n].calls) \cup {id}
  <2> DEFINE c == h[n].calls
             l == Len(c)
  <2>1. l \in Nat /\ DOMAIN c = 1 .. l /\ DOMAIN Append(c, id) = 1 .. l + 1
        /\ Append(c, id)[l + 1] = id /\ \A i \in 1 .. l : Append(c, id)[i] = c[i]
    BY <1>2
  <2> HIDE DEF c, l
  <2>2. \A i \in 1 .. l + 1 : i = l + 1 \/ i \in 1 .. l
    BY <2>1
  <2>3. \A i \in 1 .. l : i \in 1 .. l + 1
    BY <2>1
  <2>4. l + 1 \in 1 .. l + 1
    BY <2>1
  <2>5. ToSet(Append(c, id)) = ToSet(c) \cup {id}
    BY <2>1, <2>2, <2>3, <2>4 DEF ToSet
  <2> QED
    BY <2>5 DEF c
<1>5. WithCall(h, id) = f \o <<m>>
  BY DEF WithCall
<1>6. f \in Seq(Msgs) /\ Len(f) = n - 1 /\ \A i \in 1 .. n - 1 : f[i] = h[i]
  <2>1. \A i \in 1 .. n - 1 : h[i] \in Msgs
    BY <1>1
  <2>2. 1 \in Int /\ n - 1 \in Int
    BY <1>1
  <2> HIDE DEF n
  <2>3. /\ SubSeq(h, 1, n - 1) \in Seq(Msgs)
        /\ Len(SubSeq(h, 1, n - 1)) = IF 1 <= n - 1 THEN (n - 1) - 1 + 1 ELSE 0
        /\ \A i \in 1 .. (n - 1) - 1 + 1 : SubSeq(h, 1, n - 1)[i] = h[1 + i - 1]
    BY <2>1, <2>2, SubSeqProperties
  <2>4. (n - 1) - 1 + 1 = n - 1 /\ (IF 1 <= n - 1 THEN (n - 1) - 1 + 1 ELSE 0) = n - 1
    BY <1>1
  <2>5. \A i \in 1 .. n - 1 : 1 + i - 1 = i
    BY <1>1
  <2> QED
    BY <2>3, <2>4, <2>5 DEF Front, n
<1> HIDE DEF m, f
<1>7. f \o <<m>> = Append(f, m)
  BY <1>3, <1>6, AppendIsConcat
<1> HIDE DEF n
<1>8. /\ Append(f, m) \in Seq(Msgs) /\ Len(Append(f, m)) = n
      /\ DOMAIN Append(f, m) = 1 .. n /\ Append(f, m)[n] = m
      /\ \A i \in 1 .. n - 1 : Append(f, m)[i] = h[i]
  <2>1. (n - 1) + 1 = n
    BY <1>1
  <2>2. Len(f) + 1 = n /\ 1 .. Len(f) = 1 .. n - 1
    BY <1>6, <2>1
  <2>3. /\ Append(f, m) \in Seq(Msgs) /\ Len(Append(f, m)) = Len(f) + 1
        /\ DOMAIN Append(f, m) = 1 .. Len(f) + 1 /\ Append(f, m)[Len(f) + 1] = m
        /\ \A i \in 1 .. Len(f) : Append(f, m)[i] = f[i]
    BY <1>3, <1>6, AppendIs
  <2> QED
    BY <1>6, <2>2, <2>3
<1>9. h = Append(f, h[n])
  <2> DEFINE g == Append(f, h[n])
  <2>1. (n - 1) + 1 = n
    BY <1>1
  <2>2. Len(f) + 1 = n /\ 1 .. Len(f) = 1 .. n - 1
    BY <1>6, <2>1
  <2>3. g \in Seq(Msgs) /\ Len(g) = n /\ g[n] = h[n] /\ \A i \in 1 .. n - 1 : g[i] = h[i]
    BY <1>2, <1>6, <2>2, AppendIs
  <2>4. \A i \in 1 .. n : i = n \/ i \in 1 .. n - 1
    BY <1>1
  <2> HIDE DEF g
  <2>5. h = g
    BY <2>3, <2>4, SeqEqual DEF n
  <2> QED
    BY <2>5 DEF g
<1>10. Append(f, m) # <<>> /\ Last(Append(f, m)) = m /\ Front(Append(f, m)) = f
  <2> DEFINE q == Append(f, m)
  <2>1. q # <<>> /\ Last(q) = m
    BY <1>1, <1>8, EmptySeq DEF Last
  <2>2. /\ SubSeq(q, 1, n - 1) \in Seq(Msgs)
        /\ Len(SubSeq(q, 1, n - 1)) = IF 1 <= n - 1 THEN (n - 1) - 1 + 1 ELSE 0
        /\ \A i \in 1 .. (n - 1) - 1 + 1 : SubSeq(q, 1, n - 1)[i] = q[1 + i - 1]
    <3>1. \A i \in 1 .. n - 1 : q[i] \in Msgs
      <4>1. \A i \in 1 .. n - 1 : i \in 1 .. n
        BY <1>1
      <4> QED
        BY <1>1, <1>8, <4>1
    <3>2. 1 \in Int /\ n - 1 \in Int
      BY <1>1
    <3> HIDE DEF q
    <3> QED
      BY <3>1, <3>2, SubSeqProperties
  <2>4. (n - 1) - 1 + 1 = n - 1 /\ (IF 1 <= n - 1 THEN (n - 1) - 1 + 1 ELSE 0) = n - 1
    BY <1>1
  <2>5. \A i \in 1 .. n - 1 : 1 + i - 1 = i
    BY <1>1
  <2>6. \A i \in 1 .. n - 1 : q[i] = f[i]
    BY <1>6, <1>8
  <2> HIDE DEF q
  <2>7. SubSeq(q, 1, n - 1) = f
    BY <1>6, <2>2, <2>4, <2>5, <2>6, SeqEqual
  <2>8. Len(q) = n
    BY <1>8 DEF q
  <2>9. Front(q) = f
    BY <2>7, <2>8 DEF Front
  <2> QED
    BY <2>1, <2>9 DEF q
<1> QED
  BY <1>1, <1>2, <1>3, <1>4, <1>5, <1>6, <1>7, <1>8, <1>9, <1>10 DEF n, m, f
-----------------------------------------------------------------------------
Known(h, I) == \A i \in DOMAIN h : ToSet(h[i].calls) \subseteq I

LEMMA WithCallOpens ==
  ASSUME NEW h \in Seq(Msgs), h # <<>> => Last(h).role # "assistant", NEW id \in Ids
  PROVE  LET q == WithCall(h, id)
             m == Message("assistant", <<id>>)
         IN  /\ q = Append(h, m) /\ m \in Msgs /\ m.role = "assistant"
             /\ ToSet(m.calls) = {id} /\ m.calls = <<id>>
             /\ q # <<>> /\ Last(q) = m /\ Front(q) = h
<1> DEFINE m == Message("assistant", <<id>>)
           q == Append(h, m)
           n == Len(h)
<1>1. m \in Msgs /\ m.role = "assistant" /\ m.calls = <<id>> /\ ToSet(<<id>>) = {id}
  <2>1. <<id>> \in Seq(Ids)
    OBVIOUS
  <2>2. m \in Msgs /\ m.role = "assistant" /\ m.calls = <<id>>
    BY <2>1 DEF Message, Msgs, Roles
  <2>3. ToSet(<<id>>) = {id}
    BY DEF ToSet
  <2> QED
    BY <2>2, <2>3
<1>2. WithCall(h, id) = q
  BY DEF WithCall
<1> HIDE DEF m
<1>3. /\ q \in Seq(Msgs) /\ n \in Nat /\ Len(q) = n + 1
      /\ q[n + 1] = m /\ \A i \in 1 .. n : q[i] = h[i]
  BY <1>1, AppendIs
<1>4. q # <<>> /\ Last(q) = m
  BY <1>3, EmptySeq DEF Last
<1>5. SubSeq(q, 1, (n + 1) - 1) = h
  <2>1. (n + 1) - 1 = n
    BY <1>3
  <2> HIDE DEF n, q
  <2>2. \A i \in 1 .. n : q[i] \in Msgs
    <3>1. \A i \in 1 .. n : h[i] \in Msgs
      BY DEF n
    <3> QED
      BY <1>3, <3>1
  <2>3. /\ SubSeq(q, 1, n) \in Seq(Msgs)
        /\ Len(SubSeq(q, 1, n)) = IF 1 <= n THEN n - 1 + 1 ELSE 0
        /\ \A i \in 1 .. n - 1 + 1 : SubSeq(q, 1, n)[i] = q[1 + i - 1]
    BY <1>3, <2>2, SubSeqProperties
  <2>4. n - 1 + 1 = n /\ (IF 1 <= n THEN n - 1 + 1 ELSE 0) = n
    BY <1>3
  <2>5. \A i \in 1 .. n : 1 + i - 1 = i
    BY <1>3
  <2> QED
    BY <1>3, <2>1, <2>3, <2>4, <2>5, SeqEqual DEF n
<1>6. Front(q) = h
  BY <1>3, <1>5 DEF Front
<1> QED
  BY <1>1, <1>2, <1>4, <1>6 DEF m

(* A call more, wherever it lands, waits for its answer.                   *)
LEMMA WaitsCall ==
  ASSUME NEW h \in Seq(Msgs), NEW D, Waits(h, D), NEW id \in Ids
  PROVE  Waits(WithCall(h, id), D \cup {id}) /\ WithCall(h, id) \in Seq(Msgs)
<1>1. CASE h # <<>> => Last(h).role # "assistant"
  <2> DEFINE m == Message("assistant", <<id>>)
  <2>1. /\ WithCall(h, id) = Append(h, m) /\ m \in Msgs /\ m.role = "assistant"
        /\ ToSet(m.calls) = {id}
    BY <1>1, WithCallOpens
  <2>2. Waits(h, D \cup {id})
    BY WaitsMore
  <2> HIDE DEF m
  <2> QED
    BY <2>1, <2>2, WaitsPlain, AppendProperties
<1>2. CASE h # <<>> /\ Last(h).role = "assistant"
  <2> DEFINE n == Len(h)
             m == Message("assistant", Append(Last(h).calls, id))
             q == WithCall(h, id)
  <2>1. /\ q \in Seq(Msgs) /\ Len(q) = n /\ n \in Nat \ {0}
        /\ DOMAIN q = 1 .. n /\ DOMAIN h = 1 .. n
        /\ \A i \in 1 .. n - 1 : q[i] = h[i]
        /\ q[n] = m /\ m.role = "assistant" /\ h[n].role = "assistant"
        /\ ToSet(m.calls) = ToSet(h[n].calls) \cup {id}
    BY <1>2, WithCallJoins
  <2> HIDE DEF m, q, n
  <2>2. \A i \in 1 .. n : i = n \/ i \in 1 .. n - 1
    BY <2>1
  <2>3. \A i \in 1 .. n : q[i].role = h[i].role
    BY <2>1, <2>2
  <2>4. ASSUME NEW i \in 1 .. n
        PROVE  Answered(q, i) = Answered(h, i)
    <3>1. Block(q, i) = Block(h, i)
      <4>1. \A k \in i + 1 .. n : k \in 1 .. n
        BY <2>1
      <4>2. \A j \in i + 1 .. n : \A k \in i + 1 .. j : k \in 1 .. n
        BY <2>1
      <4> QED
        BY <2>1, <2>3, <4>1, <4>2 DEF Block, n
    <3>2. ASSUME NEW j \in Block(h, i) PROVE q[j] = h[j]
      <4>1. j \in i + 1 .. n /\ h[j].role = "tool"
        <5>1. j \in i + 1 .. n /\ \A k \in i + 1 .. j : h[k].role = "tool"
          BY <3>2 DEF Block, n
        <5>2. j \in i + 1 .. j
          BY <2>1, <5>1
        <5> QED
          BY <5>1, <5>2
      <4>2. j \in 1 .. n /\ j # n
        BY <2>1, <4>1
      <4> QED
        BY <2>1, <2>2, <4>2
    <3> QED
      BY <3>1, <3>2 DEF Answered
  <2>5. ASSUME NEW i \in DOMAIN q, q[i].role = "assistant"
        PROVE  /\ Answered(q, i) \subseteq ToSet(q[i].calls)
               /\ ToSet(q[i].calls) \ Answered(q, i) \subseteq D \cup {id}
    <3>1. i \in 1 .. n /\ h[i].role = "assistant" /\ Answered(q, i) = Answered(h, i)
      BY <2>1, <2>3, <2>4, <2>5
    <3>2. Answered(h, i) \subseteq ToSet(h[i].calls) /\ ToSet(h[i].calls) \ Answered(h, i) \subseteq D
      BY <2>1, <3>1 DEF Waits
    <3>3. q[i] = h[i] \/ ToSet(q[i].calls) = ToSet(h[i].calls) \cup {id}
      BY <2>1, <2>2, <3>1
    <3> QED
      BY <3>1, <3>2, <3>3
  <2>6. ASSUME NEW i \in DOMAIN q, q[i].role = "tool"
        PROVE  i > 1 /\ q[i - 1].role \in {"assistant", "tool"}
    <3>1. i \in 1 .. n /\ i > 1 /\ h[i - 1].role \in {"assistant", "tool"}
      BY <2>1, <2>3, <2>6 DEF Waits
    <3>2. i - 1 \in 1 .. n
      BY <2>1, <3>1
    <3> QED
      BY <2>3, <3>1, <3>2
  <2>7. Waits(q, D \cup {id})
    BY <2>5, <2>6 DEF Waits
  <2> QED
    BY <2>1, <2>7 DEF q
<1> QED
  BY <1>1, <1>2

LEMMA KnownCall ==
  ASSUME NEW h \in Seq(Msgs), NEW I, Known(h, I), NEW id \in Ids
  PROVE  Known(WithCall(h, id), I \cup {id})
<1>1. CASE h # <<>> => Last(h).role # "assistant"
  <2> DEFINE m == Message("assistant", <<id>>)
             q == Append(h, m)
             n == Len(h)
  <2>1. WithCall(h, id) = q /\ m \in Msgs /\ ToSet(m.calls) = {id}
    BY <1>1, WithCallOpens
  <2> HIDE DEF m
  <2>2. /\ n \in Nat /\ DOMAIN h = 1 .. n /\ DOMAIN q = 1 .. n + 1
        /\ q[n + 1] = m /\ \A i \in 1 .. n : q[i] = h[i]
    BY <2>1, AppendIs
  <2> HIDE DEF q, n
  <2>3. \A i \in 1 .. n + 1 : i = n + 1 \/ i \in 1 .. n
    BY <2>2
  <2> QED
    BY <2>1, <2>2, <2>3 DEF Known
<1>2. CASE h # <<>> /\ Last(h).role = "assistant"
  <2> DEFINE n == Len(h)
             m == Message("assistant", Append(Last(h).calls, id))
             q == WithCall(h, id)
  <2>1. /\ n \in Nat \ {0} /\ DOMAIN q = 1 .. n /\ DOMAIN h = 1 .. n
        /\ \A i \in 1 .. n - 1 : q[i] = h[i]
        /\ q[n] = m /\ ToSet(m.calls) = ToSet(h[n].calls) \cup {id}
    BY <1>2, WithCallJoins
  <2> HIDE DEF m, q, n
  <2>2. \A i \in 1 .. n : i = n \/ i \in 1 .. n - 1
    BY <2>1
  <2> QED
    BY <2>1, <2>2 DEF Known, q
<1> QED
  BY <1>1, <1>2

LEMMA KnownAppend ==
  ASSUME NEW h \in Seq(Msgs), NEW I, Known(h, I), NEW m \in Msgs, ToSet(m.calls) \subseteq I
  PROVE  Known(Append(h, m), I)
<1> DEFINE q == Append(h, m)
           n == Len(h)
<1>1. /\ n \in Nat /\ DOMAIN h = 1 .. n /\ DOMAIN q = 1 .. n + 1
      /\ q[n + 1] = m /\ \A i \in 1 .. n : q[i] = h[i]
  BY AppendIs
<1> HIDE DEF q, n
<1>2. \A i \in 1 .. n + 1 : i = n + 1 \/ i \in 1 .. n
  BY <1>1
<1>3. Known(q, I)
  BY <1>1, <1>2 DEF Known
<1> QED
  BY <1>3 DEF q

-----------------------------------------------------------------------------
(* One event more in a log.                                                *)

IdsOf(l, type) == {ev.call : ev \in {e \in ToSet(l) : e.type = type}}
LogIds(l)      == {ev.call : ev \in ToSet(l)}
Open(l)        == IdsOf(l, "tool_call") \ IdsOf(l, "tool_result")

LogFine(l) ==
  /\ l \in Seq(Events) /\ RebuildMessages(l) \in Seq(Msgs)
  /\ Known(RebuildMessages(l), LogIds(l)) /\ Waits(RebuildMessages(l), Open(l))

LEMMA ToSetAppend ==
  ASSUME NEW S, NEW l \in Seq(S), NEW e \in S
  PROVE  ToSet(Append(l, e)) = ToSet(l) \cup {e}
<1> DEFINE n == Len(l)
           q == Append(l, e)
<1>1. n \in Nat /\ DOMAIN l = 1 .. n /\ DOMAIN q = 1 .. n + 1
      /\ q[n + 1] = e /\ \A i \in 1 .. n : q[i] = l[i]
  OBVIOUS
<1> HIDE DEF q, n
<1>2. \A i \in 1 .. n + 1 : i = n + 1 \/ i \in 1 .. n
  BY <1>1
<1>3. n + 1 \in 1 .. n + 1 /\ \A i \in 1 .. n : i \in 1 .. n + 1
  BY <1>1
<1>4. ToSet(q) = ToSet(l) \cup {e}
  BY <1>1, <1>2, <1>3 DEF ToSet
<1> QED
  BY <1>4 DEF q

LEMMA IdsAppend ==
  ASSUME NEW l \in Seq(Events), NEW e \in Events
  PROVE  LET q == Append(l, e)
         IN  /\ q \in Seq(Events) /\ LogIds(q) = LogIds(l) \cup {e.call}
             /\ \A type : IdsOf(q, type) =
                  IF e.type = type THEN IdsOf(l, type) \cup {e.call} ELSE IdsOf(l, type)
             /\ \A type : IdsOf(l, type) \subseteq LogIds(l)
<1> DEFINE q == Append(l, e)
<1>1. q \in Seq(Events) /\ ToSet(q) = ToSet(l) \cup {e}
  BY ToSetAppend
<1> HIDE DEF q
<1>2. LogIds(q) = LogIds(l) \cup {e.call}
  BY <1>1 DEF LogIds
<1>3. ASSUME NEW type, e.type = type
      PROVE  IdsOf(q, type) = IdsOf(l, type) \cup {e.call}
  BY <1>1, <1>3 DEF IdsOf
<1>4. ASSUME NEW type, e.type # type
      PROVE  IdsOf(q, type) = IdsOf(l, type)
  BY <1>1, <1>4 DEF IdsOf
<1>5. \A type : IdsOf(l, type) \subseteq LogIds(l)
  BY DEF IdsOf, LogIds
<1> QED
  BY <1>1, <1>2, <1>3, <1>4, <1>5 DEF q

LEMMA EventTyped ==
  ASSUME NEW type \in EventTypes, NEW id \in Ids
  PROVE  Event(type, id) \in Events /\ Event(type, id).type = type /\ Event(type, id).call = id
BY DEF Event, Events

(* Messages of the user and of the assistant.                              *)
LEMMA SaidEvent ==
  ASSUME NEW l, LogFine(l), NEW role \in {"user", "assistant"}, NEW type,
         type = IF role = "user" THEN "user_message" ELSE "assistant_message"
  PROVE  LET q == Append(l, Event(type, NoCall))
             m == Message(role, <<>>)
         IN  /\ LogFine(q) /\ LogIds(q) = LogIds(l) \cup {NoCall}
             /\ RebuildMessages(q) = Append(RebuildMessages(l), m)
             /\ m \in Msgs /\ m.role = role /\ m.calls = <<>>
<1> DEFINE e == Event(type, NoCall)
           q == Append(l, e)
           m == Message(role, <<>>)
           h == RebuildMessages(l)
<1>1. type \in EventTypes /\ type # "tool_call" /\ type # "tool_result" /\ NoCall \in Ids
  BY DEF EventTypes, Ids
<1>2. e \in Events /\ e.type = type /\ e.call = NoCall
  BY <1>1, EventTyped
<1>3. l \in Seq(Events) /\ h \in Seq(Msgs) /\ Known(h, LogIds(l)) /\ Waits(h, Open(l))
  BY DEF LogFine
<1>4. m \in Msgs /\ m.role = role /\ m.calls = <<>> /\ ToSet(<<>>) = {}
  <2>1. <<>> \in Seq(Ids) /\ role \in Roles
    BY DEF Roles
  <2>2. ToSet(<<>>) = {}
    BY DEF ToSet
  <2> QED
    BY <2>1, <2>2 DEF Message, Msgs
<1>5. Replay(h, e) = Append(h, m)
  <2> HIDE DEF h, e
  <2> QED
    BY <1>2 DEF Replay
<1>6. RebuildMessages(q) = Append(h, m)
  BY <1>2, <1>3, <1>5, RebuildAppend
<1> HIDE DEF e, m, h
<1>7. /\ q \in Seq(Events) /\ LogIds(q) = LogIds(l) \cup {NoCall}
      /\ IdsOf(q, "tool_call") = IdsOf(l, "tool_call")
      /\ IdsOf(q, "tool_result") = IdsOf(l, "tool_result")
  BY <1>1, <1>2, <1>3, IdsAppend
<1> HIDE DEF q
<1>8. Open(q) = Open(l)
  BY <1>7 DEF Open
<1>9. Append(h, m) \in Seq(Msgs) /\ Waits(Append(h, m), Open(l))
  BY <1>3, <1>4, WaitsPlain, AppendProperties
<1>10. Known(Append(h, m), LogIds(q))
  <2>1. Known(h, LogIds(q))
    BY <1>3, <1>7 DEF Known
  <2> QED
    BY <1>3, <1>4, <2>1, KnownAppend
<1>11. LogFine(q)
  BY <1>6, <1>7, <1>8, <1>9, <1>10 DEF LogFine
<1> QED
  BY <1>4, <1>6, <1>7, <1>11 DEF q, e, m, h

(* A message of the system is not replayed.                                *)
LEMMA SystemEvent ==
  ASSUME NEW l, LogFine(l)
  PROVE  LET q == Append(l, Event("system_message", NoCall))
         IN  /\ LogFine(q) /\ LogIds(q) = LogIds(l) \cup {NoCall}
             /\ RebuildMessages(q) = RebuildMessages(l)
<1> DEFINE e == Event("system_message", NoCall)
           q == Append(l, e)
           h == RebuildMessages(l)
<1>1. "system_message" \in EventTypes /\ NoCall \in Ids
  BY DEF EventTypes, Ids
<1>2. e \in Events /\ e.type = "system_message" /\ e.call = NoCall
  BY <1>1, EventTyped
<1>3. l \in Seq(Events) /\ h \in Seq(Msgs) /\ Known(h, LogIds(l)) /\ Waits(h, Open(l))
  BY DEF LogFine
<1>5. Replay(h, e) = h
  <2> HIDE DEF h, e
  <2> QED
    BY <1>2 DEF Replay
<1>6. RebuildMessages(q) = h
  BY <1>2, <1>3, <1>5, RebuildAppend
<1> HIDE DEF e, h
<1>7. /\ q \in Seq(Events) /\ LogIds(q) = LogIds(l) \cup {NoCall}
      /\ IdsOf(q, "tool_call") = IdsOf(l, "tool_call")
      /\ IdsOf(q, "tool_result") = IdsOf(l, "tool_result")
  BY <1>2, <1>3, IdsAppend
<1> HIDE DEF q
<1>8. Open(q) = Open(l)
  BY <1>7 DEF Open
<1>11. LogFine(q)
  BY <1>3, <1>6, <1>7, <1>8 DEF LogFine, Known
<1> QED
  BY <1>6, <1>7, <1>11 DEF q, e, h

LEMMA CallEvent ==
  ASSUME NEW l, LogFine(l), NEW id \in CallIds, id \notin LogIds(l)
  PROVE  LET q == Append(l, Event("tool_call", id))
         IN  /\ LogFine(q) /\ LogIds(q) = LogIds(l) \cup {id}
             /\ RebuildMessages(q) = WithCall(RebuildMessages(l), id)
<1> DEFINE e == Event("tool_call", id)
           q == Append(l, e)
           h == RebuildMessages(l)
<1>1. "tool_call" \in EventTypes /\ id \in Ids
  BY DEF EventTypes, Ids
<1>2. e \in Events /\ e.type = "tool_call" /\ e.call = id
  BY <1>1, EventTyped
<1>3. l \in Seq(Events) /\ h \in Seq(Msgs) /\ Known(h, LogIds(l)) /\ Waits(h, Open(l))
  BY DEF LogFine
<1>5. Replay(h, e) = WithCall(h, id)
  <2> HIDE DEF h, e
  <2> QED
    BY <1>2 DEF Replay
<1>6. RebuildMessages(q) = WithCall(h, id)
  BY <1>2, <1>3, <1>5, RebuildAppend
<1> HIDE DEF e, h
<1>7. /\ q \in Seq(Events) /\ LogIds(q) = LogIds(l) \cup {id}
      /\ IdsOf(q, "tool_call") = IdsOf(l, "tool_call") \cup {id}
      /\ IdsOf(q, "tool_result") = IdsOf(l, "tool_result")
      /\ IdsOf(l, "tool_result") \subseteq LogIds(l)
  BY <1>2, <1>3, IdsAppend
<1> HIDE DEF q
<1>8. Open(q) = Open(l) \cup {id}
  BY <1>7 DEF Open
<1>9. WithCall(h, id) \in Seq(Msgs) /\ Waits(WithCall(h, id), Open(q))
      /\ Known(WithCall(h, id), LogIds(q))
  BY <1>1, <1>3, <1>7, <1>8, WaitsCall, KnownCall
<1>11. LogFine(q)
  BY <1>6, <1>7, <1>9 DEF LogFine
<1> QED
  BY <1>6, <1>7, <1>11 DEF q, e, h

LEMMA ResultEvent ==
  ASSUME NEW l, LogFine(l), NEW id \in CallIds, NEW p, Trailing(RebuildMessages(l), p),
         OnlyAt(RebuildMessages(l), p, id)
  PROVE  LET q == Append(l, Event("tool_result", id))
             m == Message("tool", <<id>>)
         IN  /\ LogFine(q) /\ LogIds(q) = LogIds(l)
             /\ RebuildMessages(q) = Append(RebuildMessages(l), m)
             /\ m \in Msgs /\ m.role = "tool" /\ m.calls = <<id>>
<1> DEFINE e == Event("tool_result", id)
           q == Append(l, e)
           m == Message("tool", <<id>>)
           h == RebuildMessages(l)
<1>1. "tool_result" \in EventTypes /\ id \in Ids
  BY DEF EventTypes, Ids
<1>2. e \in Events /\ e.type = "tool_result" /\ e.call = id
  BY <1>1, EventTyped
<1>3. l \in Seq(Events) /\ h \in Seq(Msgs) /\ Known(h, LogIds(l)) /\ Waits(h, Open(l))
  BY DEF LogFine
<1>4. m \in Msgs /\ m.role = "tool" /\ m.calls = <<id>> /\ ToSet(<<id>>) = {id}
  <2>1. <<id>> \in Seq(Ids)
    BY <1>1
  <2>2. ToSet(<<id>>) = {id}
    BY DEF ToSet
  <2> QED
    BY <2>1, <2>2 DEF Message, Msgs, Roles
<1>5. Replay(h, e) = Append(h, m)
  <2> HIDE DEF h, e
  <2> QED
    BY <1>2 DEF Replay
<1>6. RebuildMessages(q) = Append(h, m)
  BY <1>2, <1>3, <1>5, RebuildAppend
<1>a. id \in LogIds(l)
  BY <1>3 DEF Trailing, OnlyAt, Known
<1>b. Waits(Append(h, m), Open(l) \ {id})
  BY <1>1, <1>3, WaitsResult
<1> HIDE DEF e, m, h
<1>7. /\ q \in Seq(Events) /\ LogIds(q) = LogIds(l)
      /\ IdsOf(q, "tool_call") = IdsOf(l, "tool_call")
      /\ IdsOf(q, "tool_result") = IdsOf(l, "tool_result") \cup {id}
  <2>1. LogIds(q) = LogIds(l) \cup {id}
    BY <1>2, <1>3, IdsAppend
  <2>2. LogIds(q) = LogIds(l)
    BY <1>a, <2>1
  <2> QED
    BY <1>2, <1>3, <2>2, IdsAppend
<1> HIDE DEF q
<1>8. Open(q) = Open(l) \ {id}
  BY <1>7 DEF Open
<1>9. Append(h, m) \in Seq(Msgs)
  BY <1>3, <1>4, AppendProperties
<1>10. Known(Append(h, m), LogIds(q))
  BY <1>3, <1>4, <1>7, <1>a, KnownAppend
<1>11. LogFine(q)
  BY <1>6, <1>7, <1>8, <1>9, <1>10, <1>b DEF LogFine
<1> QED
  BY <1>4, <1>6, <1>7, <1>11 DEF q, e, m, h
-----------------------------------------------------------------------------
(* The results of the first n of the calls c, one by one.                  *)
Told(c, n) == [k \in 1 .. n |-> Message("tool", <<c[k]>>)]

(* A run in its turn and what the log of its session rebuilds to: where    *)
(* the calls of its response stand there.                                  *)
Waiting(state) == state.at = "ask" \/ (state.at = "stream" /\ state.pending = <<>>)
Calling(state) == state.at = "stream" /\ state.pending # <<>>
Working(state) == state.at \in {"tools", "approval"}

Placed(state, h) ==
  /\ Waiting(state) /\ h # <<>> => Last(h).role # "assistant"
  /\ Calling(state) =>
       /\ h # <<>> /\ Last(h) = Message("assistant", CallsOf(state))
       /\ \A k \in 1 .. Len(state.pending) : OnlyAt(h, Len(h), state.pending[k].id)
  /\ Working(state) =>
       \E p \in DOMAIN h :
         /\ Trailing(h, p)
         /\ \A k \in state.answered + 1 .. Len(state.pending) : OnlyAt(h, p, state.pending[k].id)

(* What the model has been shown is what the log rebuilds to.              *)
Shown(state, h) ==
  /\ state.at \in {"read", "registered"} => state.prompt = h
  /\ state.at \in InTurn => state.prompt \in Seq(Msgs)
  /\ Waiting(state) => Flat(state.prompt) = Flat(h)
  /\ Calling(state) => Flat(state.prompt) = Flat(Front(h))
  /\ Working(state) => Flat(h) = Flat(state.prompt) \o Told(CallsOf(state), state.answered)

LEMMA CallsTyped ==
  ASSUME NEW state, Shaped(state)
  PROVE  LET c == CallsOf(state)
         IN  /\ c \in Seq(Ids) /\ Len(c) = Len(state.pending) /\ Len(c) \in Nat
             /\ \A k \in 1 .. Len(c) : c[k] = state.pending[k].id /\ c[k] \in CallIds
             /\ state.pending \in Seq(Call)
<1> DEFINE p == state.pending
           n == Len(p)
<1>1. p \in Seq(Call)
  BY DEF Shaped
<1>2. n \in Nat /\ \A k \in 1 .. n : p[k].id \in CallIds
  <2>1. n \in Nat /\ \A k \in 1 .. n : p[k] \in Call
    BY <1>1
  <2> QED
    BY <2>1 DEF Call
<1>3. CallsOf(state) = [k \in 1 .. n |-> p[k].id]
  BY DEF CallsOf
<1> HIDE DEF p, n
<1>4. \A k \in 1 .. n : p[k].id \in Ids
  BY <1>2 DEF Ids
<1>5. [k \in 1 .. n |-> p[k].id] \in Seq(Ids) /\ Len([k \in 1 .. n |-> p[k].id]) = n
  BY <1>2, <1>4
<1> QED
  BY <1>1, <1>2, <1>3, <1>5 DEF p, n

LEMMA ToldGrows ==
  ASSUME NEW c \in Seq(Ids), NEW n \in Nat, n + 1 <= Len(c)
  PROVE  /\ Told(c, n) \in Seq(Msgs)
         /\ Told(c, n + 1) = Told(c, n) \o <<Message("tool", <<c[n + 1]>>)>>
         /\ <<Message("tool", <<c[n + 1]>>)>> \in Seq(Msgs)
<1> DEFINE M(k) == Message("tool", <<c[k]>>)
           t == [k \in 1 .. n |-> M(k)]
           u == [k \in 1 .. n + 1 |-> M(k)]
<1>1. \A k \in 1 .. n + 1 : M(k) \in Msgs
  <2>1. Len(c) \in Nat
    OBVIOUS
  <2>2. \A k \in 1 .. n + 1 : c[k] \in Ids
    BY <2>1
  <2>3. \A k \in 1 .. n + 1 : <<c[k]>> \in Seq(Ids)
    BY <2>2
  <2> QED
    BY <2>3 DEF Message, Msgs, Roles
<1>2. \A k \in 1 .. n : k \in 1 .. n + 1
  OBVIOUS
<1>3. n + 1 \in Nat /\ n + 1 \in 1 .. n + 1 /\ \A k \in 1 .. n + 1 : k = n + 1 \/ k \in 1 .. n
  OBVIOUS
<1> HIDE DEF M
<1>4. t \in Seq(Msgs) /\ Len(t) = n /\ \A k \in 1 .. n : t[k] = M(k)
  BY <1>1, <1>2
<1>5. u \in Seq(Msgs) /\ Len(u) = n + 1 /\ \A k \in 1 .. n + 1 : u[k] = M(k)
  BY <1>1, <1>3
<1> DEFINE v == Append(t, M(n + 1))
<1> HIDE DEF t, u
<1>6. v \in Seq(Msgs) /\ Len(v) = n + 1 /\ v[n + 1] = M(n + 1) /\ \A k \in 1 .. n : v[k] = M(k)
  BY <1>1, <1>3, <1>4, AppendProperties
<1> HIDE DEF v
<1>7. u = v
  BY <1>2, <1>3, <1>5, <1>6, SeqEqual
<1>8. v = t \o <<M(n + 1)>>
  BY <1>1, <1>3, <1>4, AppendIsConcat DEF v
<1>9. <<M(n + 1)>> \in Seq(Msgs)
  BY <1>1, <1>3
<1> QED
  BY <1>4, <1>7, <1>8, <1>9 DEF Told, t, u, M

LEMMA ToldNothing == \A c : Told(c, 0) = <<>>
BY DEF Told

LEMMA PiecesTool ==
  ASSUME NEW c \in Seq(Ids)
  PROVE  /\ Message("tool", c) \in Msgs
         /\ Pieces(Message("tool", c)) = Told(c, Len(c))
<1>1. Message("tool", c) \in Msgs
  BY DEF Message, Msgs, Roles
<1>2. DOMAIN c = 1 .. Len(c)
  OBVIOUS
<1> QED
  BY <1>1, <1>2 DEF Pieces, Message, Told

LEMMA LastAppend ==
  ASSUME NEW h \in Seq(Msgs), NEW m \in Msgs
  PROVE  Append(h, m) # <<>> /\ Last(Append(h, m)) = m
BY AppendProperties DEF Last

LEMMA AsideIsFree ==
  ASSUME NEW state, state.at \notin InTurn \cup {"read", "registered"}, NEW h
  PROVE  Placed(state, h) /\ Shown(state, h)
BY DEF Placed, Shown, Waiting, Calling, Working, InTurn
-----------------------------------------------------------------------------
(* The moves of a turn: what they do to a run and to the conversation.     *)

(* The prompt is a message of the user, on both sides.                     *)
LEMMA PromptShows ==
  ASSUME NEW st, NEW h \in Seq(Msgs), st.at = "registered",
         NEW new, new.at = "ask", new.prompt = Append(st.prompt, Message("user", <<>>))
  PROVE  LET q == Append(h, Message("user", <<>>))
         IN  Placed(new, q) /\ (Shown(st, h) => Shown(new, q))
<1> DEFINE m == Message("user", <<>>)
           q == Append(h, m)
<1>1. m \in Msgs /\ m.role = "user"
  <2>1. <<>> \in Seq(Ids)
    OBVIOUS
  <2> QED
    BY <2>1 DEF Message, Msgs, Roles
<1> HIDE DEF m
<1>2. q \in Seq(Msgs) /\ q # <<>> /\ Last(q) = m
  BY <1>1, LastAppend, AppendProperties
<1>3. Shown(st, h) => new.prompt = q
  BY DEF Shown, m
<1> HIDE DEF q
<1>4. Placed(new, q)
  BY <1>1, <1>2 DEF Placed, Waiting, Calling, Working
<1>5. Shown(st, h) => Shown(new, q)
  BY <1>2, <1>3 DEF Shown, Waiting, Calling, Working
<1> QED
  BY <1>4, <1>5 DEF q, m

LEMMA AskShows ==
  ASSUME NEW st, NEW h, st.at = "ask",
         NEW new, new.at = "stream", new.pending = <<>>, new.prompt = st.prompt
  PROVE  (Placed(st, h) => Placed(new, h)) /\ (Shown(st, h) => Shown(new, h))
BY DEF Placed, Shown, Waiting, Calling, Working, InTurn

(* A call joins those of its response, which stand at the end.             *)
LEMMA CallShows ==
  ASSUME NEW st, Shaped(st), NEW h \in Seq(Msgs), st.at = "stream", NEW t \in Tools,
         NEW id \in CallIds, NEW I, Known(h, I), id \notin I,
         NEW new, new.at = "stream", new.pending = Append(st.pending, [id |-> id, tool |-> t]),
         new.prompt = st.prompt, Placed(st, h)
  PROVE  /\ Placed(new, WithCall(h, id))
         /\ Shown(st, h) => Shown(new, WithCall(h, id))
<1> DEFINE q == WithCall(h, id)
           x == [id |-> id, tool |-> t]
           p == st.pending
           n == Len(p)
<1>0. id \in Ids
  BY DEF Ids
<1>1. /\ p \in Seq(Call) /\ CallsOf(st) \in Seq(Ids) /\ Len(CallsOf(st)) = n
      /\ \A k \in 1 .. n : CallsOf(st)[k] = p[k].id
  BY CallsTyped
<1>2. x \in Call /\ x.id = id
  BY DEF Call
<1> HIDE DEF x
<1>3. /\ n \in Nat /\ Len(new.pending) = n + 1 /\ new.pending # <<>>
      /\ new.pending[n + 1] = x /\ \A k \in 1 .. n : new.pending[k] = p[k]
  BY <1>1, <1>2, AppendProperties DEF x
<1>4. \A k \in 1 .. n + 1 : k = n + 1 \/ k \in 1 .. n
  BY <1>3
<1>5. CallsOf(new) = Append(CallsOf(st), id)
  <2> DEFINE c == CallsOf(new)
             d == Append(CallsOf(st), id)
  <2>1. c = [k \in 1 .. n + 1 |-> new.pending[k].id]
    BY <1>3 DEF CallsOf
  <2>2. d \in Seq(Ids) /\ Len(d) = n + 1 /\ d[n + 1] = id /\ \A k \in 1 .. n : d[k] = p[k].id
    BY <1>0, <1>1, AppendProperties
  <2> HIDE DEF d, n
  <2>3. \A k \in 1 .. n + 1 : d[k] = new.pending[k].id /\ d[k] \in Ids
    BY <1>0, <1>2, <1>3, <1>4, <2>2
  <2>4. n + 1 \in Nat
    BY <1>3
  <2>5. d = [k \in 1 .. n + 1 |-> d[k]]
    BY <2>2, LenProperties
  <2> QED
    BY <2>1, <2>3, <2>5 DEF d
<1>6. \A i \in DOMAIN h : id \notin ToSet(h[i].calls)
  BY DEF Known
<1>7. CASE p = <<>>
  <2> DEFINE m == Message("assistant", <<id>>)
             l == Len(h)
  <2>1. Waiting(st)
    BY <1>7 DEF Waiting
  <2>2. h # <<>> => Last(h).role # "assistant"
    BY <2>1 DEF Placed
  <2>3. /\ q = Append(h, m) /\ m \in Msgs /\ ToSet(m.calls) = {id}
        /\ q # <<>> /\ Last(q) = m /\ Front(q) = h
    BY <1>0, <2>2, WithCallOpens
  <2>4. n = 0 /\ CallsOf(st) = <<>> /\ CallsOf(new) = <<id>>
    <3>1. n = 0
      BY <1>7
    <3>2. CallsOf(st) = <<>>
      BY <1>1, <3>1
    <3> QED
      BY <1>5, <3>1, <3>2
  <2> HIDE DEF m
  <2>5. /\ q \in Seq(Msgs) /\ l \in Nat /\ Len(q) = l + 1 /\ DOMAIN h = 1 .. l
        /\ DOMAIN q = 1 .. l + 1 /\ q[l + 1] = m /\ \A i \in 1 .. l : q[i] = h[i]
    BY <2>3, AppendIs
  <2> HIDE DEF q, l
  <2>6. OnlyAt(q, Len(q), id)
    <3>1. \A i \in 1 .. l + 1 : i = l + 1 \/ i \in 1 .. l
      BY <2>5
    <3> QED
      BY <1>6, <2>3, <2>5, <3>1 DEF OnlyAt
  <2>7. \A k \in 1 .. n + 1 : new.pending[k].id = id
    BY <1>2, <1>3, <2>4
  <2>8. Placed(new, q)
    BY <1>3, <2>3, <2>4, <2>6, <2>7 DEF Placed, Waiting, Calling, Working, m
  <2>9. Shown(st, h) => Shown(new, q)
    BY <1>3, <2>1, <2>3 DEF Shown, Waiting, Calling, Working, InTurn
  <2> QED
    BY <2>8, <2>9 DEF q
<1>8. CASE p # <<>>
  <2> DEFINE m == Message("assistant", Append(CallsOf(st), id))
             l == Len(h)
  <2>1. /\ Calling(st) /\ h # <<>> /\ Last(h) = Message("assistant", CallsOf(st))
        /\ \A k \in 1 .. n : OnlyAt(h, l, p[k].id)
    <3>1. Calling(st)
      BY <1>8 DEF Calling
    <3> QED
      BY <3>1 DEF Placed
  <2>2. Last(h).role = "assistant" /\ Last(h).calls = CallsOf(st)
    BY <2>1 DEF Message
  <2>3. /\ q \in Seq(Msgs) /\ Len(q) = l /\ l \in Nat \ {0}
        /\ q # <<>> /\ Front(q) = Front(h) /\ Last(q) = m
        /\ DOMAIN q = 1 .. l /\ DOMAIN h = 1 .. l
        /\ \A i \in 1 .. l - 1 : q[i] = h[i]
        /\ q[l] = m /\ Last(h) = h[l]
        /\ ToSet(m.calls) = ToSet(h[l].calls) \cup {id}
    BY <1>0, <2>1, <2>2, WithCallJoins
  <2> HIDE DEF q, m, l
  <2>4. \A i \in 1 .. l : i = l \/ i \in 1 .. l - 1
    BY <2>3
  <2>5. ASSUME NEW y, OnlyAt(h, l, y) PROVE OnlyAt(q, l, y)
    BY <2>3, <2>4, <2>5 DEF OnlyAt
  <2>6. OnlyAt(q, l, id)
    BY <1>6, <2>3, <2>4 DEF OnlyAt
  <2>7. \A k \in 1 .. n + 1 : OnlyAt(q, Len(q), new.pending[k].id)
    BY <1>2, <1>3, <1>4, <2>1, <2>3, <2>5, <2>6
  <2>8. Placed(new, q)
    BY <1>3, <1>5, <2>3, <2>7 DEF Placed, Waiting, Calling, Working, m
  <2>9. Shown(st, h) => Shown(new, q)
    BY <1>3, <2>1, <2>3 DEF Shown, Waiting, Calling, Working, InTurn
  <2> QED
    BY <2>8, <2>9 DEF q
<1> QED
  BY <1>7, <1>8
-----------------------------------------------------------------------------
(* The response is complete: the run has it, and executes its calls.       *)
LEMMA EndShows ==
  ASSUME NEW st, Shaped(st), Calling(st), st.answered = 0, NEW h \in Seq(Msgs), Placed(st, h),
         NEW new, new.at = "tools", new.pending = st.pending, new.answered = 0,
         new.prompt = Append(st.prompt, Message("assistant", CallsOf(st)))
  PROVE  /\ Placed(new, h)
         /\ Shown(st, h) => Shown(new, h)
<1> DEFINE c == CallsOf(st)
           m == Message("assistant", c)
           n == Len(h)
<1>1. /\ h # <<>> /\ Last(h) = m /\ \A k \in 1 .. Len(st.pending) : OnlyAt(h, n, st.pending[k].id)
  BY DEF Placed
<1>2. c \in Seq(Ids) /\ NoCall \in Ids /\ CallsOf(new) = c
  <2>1. c \in Seq(Ids)
    BY CallsTyped
  <2> QED
    BY <2>1 DEF Ids, CallsOf
<1>3. m \in Msgs /\ m.role = "assistant"
  <2> HIDE DEF c
  <2> QED
    BY <1>2 DEF Message, Msgs, Roles
<1> HIDE DEF c, m
<1>4. /\ Front(h) \in Seq(Msgs) /\ h = Append(Front(h), m) /\ n \in Nat \ {0}
      /\ DOMAIN h = 1 .. n /\ h[n] = m
  BY <1>1, <1>2, <1>3, WithCallJoins
<1> HIDE DEF n
<1>5. Trailing(h, n) /\ n \in DOMAIN h
  <2>1. n + 1 .. n = {} /\ n \in 1 .. n
    BY <1>4
  <2> QED
    BY <1>3, <1>4, <2>1 DEF Trailing, n
<1>6. Placed(new, h)
  <2>1. \A k \in new.answered + 1 .. Len(new.pending) : OnlyAt(h, n, new.pending[k].id)
    BY <1>1
  <2>2. \E p \in DOMAIN h :
          /\ Trailing(h, p)
          /\ \A k \in new.answered + 1 .. Len(new.pending) : OnlyAt(h, p, new.pending[k].id)
    BY <1>5, <2>1
  <2> QED
    BY <2>2 DEF Placed, Waiting, Calling, Working
<1>7. ASSUME Shown(st, h) PROVE Shown(new, h)
  <2>1. st.prompt \in Seq(Msgs) /\ Flat(st.prompt) = Flat(Front(h))
    BY <1>7 DEF Shown, Calling, InTurn
  <2>2. new.prompt = Append(st.prompt, m) /\ new.prompt \in Seq(Msgs)
    BY <1>3, <2>1, AppendProperties DEF m, c
  <2>3. Flat(new.prompt) = Flat(st.prompt) \o Pieces(m)
    BY <1>3, <2>1, <2>2, FlatAppend
  <2>4. Flat(h) = Flat(Front(h)) \o Pieces(m)
    BY <1>3, <1>4, FlatAppend
  <2>5. Flat(new.prompt) \o Told(CallsOf(new), new.answered) = Flat(new.prompt)
    <3> DEFINE f == Flat(new.prompt)
    <3>1. f \in Seq(Msgs)
      BY <2>2, FlatTyped
    <3>2. Told(CallsOf(new), new.answered) = <<>>
      BY ToldNothing
    <3> HIDE DEF f
    <3>3. f \o <<>> = f
      BY <3>1, ConcatEmptySeq
    <3> QED
      BY <3>2, <3>3 DEF f
  <2>6. Flat(h) = Flat(new.prompt) \o Told(CallsOf(new), new.answered)
    BY <2>1, <2>3, <2>4, <2>5
  <2> QED
    BY <2>2, <2>6 DEF Shown, Waiting, Calling, Working
<1> QED
  BY <1>6, <1>7

LEMMA Regroup ==
  ASSUME NEW x \in Seq(Msgs), NEW y \in Seq(Msgs), NEW z \in Seq(Msgs)
  PROVE  (x \o y) \o z = x \o (y \o z)
BY ConcatAssociative

(* A result answers the next call, and the last one ends the response.     *)
LEMMA ResultShows ==
  ASSUME NEW st, Shaped(st), Working(st), st.answered < Len(st.pending),
         NEW h \in Seq(Msgs), Placed(st, h),
         NEW id, id = st.pending[st.answered + 1].id,
         NEW new, new.pending = st.pending, new.at \in {"finish", "ask", "tools"},
         new.at = "tools" => new.prompt = st.prompt /\ new.answered = st.answered + 1,
         new.at = "ask" => /\ new.prompt = Append(st.prompt, Message("tool", CallsOf(st)))
                           /\ st.answered + 1 = Len(st.pending)
  PROVE  LET q == Append(h, Message("tool", <<id>>))
         IN  /\ id \in CallIds
             /\ \E p : Trailing(h, p) /\ OnlyAt(h, p, id)
             /\ Placed(new, q)
             /\ Shown(st, h) => Shown(new, q)
<1> DEFINE m == Message("tool", <<id>>)
           q == Append(h, m)
           n == Len(h)
           c == CallsOf(st)
           a == st.answered
           l == Len(st.pending)
<1>1. /\ c \in Seq(Ids) /\ Len(c) = l /\ l \in Nat /\ CallsOf(new) = c
      /\ \A k \in 1 .. l : c[k] = st.pending[k].id /\ c[k] \in CallIds
  <2>1. CallsOf(new) = c
    BY DEF CallsOf
  <2> QED
    BY <2>1, CallsTyped
<1>2. a \in Nat /\ a + 1 \in 1 .. l /\ a + 1 \in a + 1 .. l
  <2>1. a \in Nat
    BY DEF Shaped
  <2> QED
    BY <1>1, <2>1
<1>3. id = c[a + 1] /\ id \in CallIds /\ id \in Ids
  BY <1>1, <1>2 DEF Ids
<1>4. m \in Msgs /\ m.role = "tool" /\ m.calls = <<id>>
  <2>1. <<id>> \in Seq(Ids)
    BY <1>3
  <2> QED
    BY <2>1 DEF Message, Msgs, Roles
<1>5. PICK p \in DOMAIN h : Trailing(h, p) /\ \A k \in a + 1 .. l : OnlyAt(h, p, st.pending[k].id)
  BY DEF Placed
<1> HIDE DEF m, c
<1>6. /\ q \in Seq(Msgs) /\ n \in Nat /\ Len(q) = n + 1 /\ DOMAIN h = 1 .. n
      /\ DOMAIN q = 1 .. n + 1 /\ q[n + 1] = m /\ (\A i \in 1 .. n : q[i] = h[i])
      /\ q # <<>> /\ Last(q) = m
  BY <1>4, AppendIs, LastAppend
<1>7. Trailing(h, p) /\ OnlyAt(h, p, id)
  BY <1>2, <1>5
<1> HIDE DEF q, n, a, l
<1>8. \A i \in 1 .. n + 1 : i = n + 1 \/ i \in 1 .. n
  BY <1>6
<1>9. Trailing(q, p) /\ p \in DOMAIN q
  <2>1. p \in 1 .. n /\ h[p].role = "assistant" /\ \A j \in p + 1 .. n : h[j].role = "tool"
    BY <1>5, <1>6 DEF Trailing, n
  <2>2. \A j \in p + 1 .. n + 1 : j = n + 1 \/ (j \in p + 1 .. n /\ j \in 1 .. n)
    BY <1>6, <2>1
  <2>3. \A j \in p + 1 .. n + 1 : q[j].role = "tool"
    BY <1>4, <1>6, <2>1, <2>2
  <2>4. p \in 1 .. n + 1
    BY <1>6, <2>1
  <2> QED
    BY <1>6, <2>1, <2>3, <2>4 DEF Trailing
<1>10. ASSUME NEW y, OnlyAt(h, p, y) PROVE OnlyAt(q, p, y)
  <2>1. p \in 1 .. n
    BY <1>5, <1>6
  <2> QED
    BY <1>4, <1>6, <1>8, <1>10, <2>1 DEF OnlyAt
<1>11. Placed(new, q)
  <2>1. CASE new.at = "finish"
    BY <2>1, AsideIsFree DEF InTurn
  <2>2. CASE new.at = "ask"
    BY <1>4, <1>6, <2>2 DEF Placed, Waiting, Calling, Working
  <2>3. CASE new.at = "tools"
    <3>1. \A k \in new.answered + 1 .. Len(new.pending) : k \in a + 1 .. l
      <4>1. new.answered = a + 1 /\ Len(new.pending) = l
        BY <2>3 DEF a, l
      <4> QED
        BY <1>1, <1>2, <4>1
    <3>2. \A k \in new.answered + 1 .. Len(new.pending) : OnlyAt(q, p, new.pending[k].id)
      BY <1>5, <1>10, <3>1 DEF a, l
    <3>3. \E i \in DOMAIN q :
            /\ Trailing(q, i)
            /\ \A k \in new.answered + 1 .. Len(new.pending) : OnlyAt(q, i, new.pending[k].id)
      BY <1>9, <3>2
    <3> QED
      BY <2>3, <3>3 DEF Placed, Waiting, Calling, Working
  <2> QED
    BY <2>1, <2>2, <2>3
<1>12. ASSUME Shown(st, h) PROVE Shown(new, q)
  <2>1. st.prompt \in Seq(Msgs) /\ Flat(h) = Flat(st.prompt) \o Told(c, a)
    BY <1>12 DEF Shown, Working, InTurn, c, a
  <2>2. Pieces(m) = <<m>>
    <3>1. Pieces(Message("tool", <<id>>)) = Told(<<id>>, Len(<<id>>))
      <4>1. <<id>> \in Seq(Ids)
        BY <1>3
      <4> QED
        BY <4>1, PiecesTool
    <3>2. Told(<<id>>, 1) = <<Message("tool", <<id>>)>>
      BY DEF Told
    <3>3. Len(<<id>>) = 1
      OBVIOUS
    <3> QED
      BY <3>1, <3>2, <3>3 DEF m
  <2>3. Flat(q) = Flat(h) \o <<m>>
    BY <1>4, <2>2, FlatAppend DEF q
  <2>4. Told(c, a) \in Seq(Msgs) /\ Told(c, a + 1) = Told(c, a) \o <<m>> /\ <<m>> \in Seq(Msgs)
    <3>1. a + 1 <= Len(c)
      BY <1>1, <1>2
    <3> QED
      BY <1>1, <1>2, <1>3, <3>1, ToldGrows DEF m
  <2>5. Flat(st.prompt) \in Seq(Msgs)
    BY <2>1, FlatTyped
  <2>6. Flat(q) = Flat(st.prompt) \o Told(c, a + 1)
    <3> DEFINE x == Flat(st.prompt)
               y == Told(c, a)
               z == <<m>>
    <3>1. x \in Seq(Msgs) /\ y \in Seq(Msgs) /\ z \in Seq(Msgs)
      BY <2>4, <2>5
    <3> HIDE DEF x, y, z
    <3>2. (x \o y) \o z = x \o (y \o z)
      BY <3>1, Regroup
    <3>3. Flat(q) = (x \o y) \o z /\ Told(c, a + 1) = y \o z
      BY <2>1, <2>3, <2>4 DEF x, y, z
    <3>4. Flat(q) = x \o Told(c, a + 1)
      BY <3>2, <3>3
    <3> QED
      BY <3>4 DEF x
  <2>7. CASE new.at = "finish"
    BY <2>7, AsideIsFree DEF InTurn
  <2>8. CASE new.at = "tools"
    <3>1. new.prompt = st.prompt /\ new.answered = a + 1
      BY <2>8 DEF a
    <3> QED
      BY <1>1, <2>1, <2>6, <2>8, <3>1 DEF Shown, Waiting, Calling, Working
  <2>9. CASE new.at = "ask"
    <3>1. new.prompt = Append(st.prompt, Message("tool", c)) /\ a + 1 = Len(c)
      BY <1>1, <2>9 DEF a, l, c
    <3>2. Message("tool", c) \in Msgs /\ Pieces(Message("tool", c)) = Told(c, Len(c))
      BY <1>1, PiecesTool
    <3>3. Flat(new.prompt) = Flat(st.prompt) \o Told(c, a + 1)
      BY <2>1, <3>1, <3>2, FlatAppend
    <3>4. new.prompt \in Seq(Msgs)
      BY <2>1, <3>1, <3>2, AppendProperties
    <3> QED
      BY <2>6, <2>9, <3>3, <3>4 DEF Shown, Waiting, Calling, Working
  <2> QED
    BY <2>7, <2>8, <2>9
<1> QED
  BY <1>3, <1>7, <1>11, <1>12 DEF q, m

(* What a result leaves of the run.                                        *)
LEMMA ResultLeaves ==
  ASSUME NEW st, Shaped(st), st.answered < Len(st.pending),
         NEW t \in Tools, NEW failed \in BOOLEAN, NEW sig
  PROVE  LET new == AfterResult(Tally(st, t, failed), sig)
         IN  /\ new.pending = st.pending /\ new.issued = st.issued
             /\ new.at \in {"finish", "ask", "tools"}
             /\ new.at = "tools" => new.prompt = st.prompt /\ new.answered = st.answered + 1
             /\ new.at = "ask" => /\ new.prompt = Append(st.prompt, Message("tool", CallsOf(st)))
                                  /\ st.answered + 1 = Len(st.pending)
<1> DEFINE ta == Tally(st, t, failed)
           new == AfterResult(ta, sig)
           Fine(x) == /\ x.pending = st.pending /\ x.issued = st.issued
                      /\ x.at \in {"finish", "ask", "tools"}
                      /\ x.at = "tools" => x.prompt = st.prompt /\ x.answered = st.answered + 1
                      /\ x.at = "ask" => /\ x.prompt = Append(st.prompt, Message("tool", CallsOf(st)))
                                        /\ st.answered + 1 = Len(st.pending)
<1> SUFFICES Fine(new)
  OBVIOUS
<1>1. /\ ta.pending = st.pending /\ ta.issued = st.issued /\ ta.prompt = st.prompt
      /\ ta.answered = st.answered + 1 /\ DOMAIN ta = DOMAIN st
  BY DEF Tally, Shaped
<1>2. /\ "at" \in DOMAIN st /\ "prompt" \in DOMAIN st /\ "pending" \in DOMAIN st
      /\ "answered" \in DOMAIN st /\ "issued" \in DOMAIN st /\ "reason" \in DOMAIN st
  BY DEF Shaped
<1>3. /\ st.pending \in Seq(Call) /\ Len(st.pending) \in Nat /\ st.answered \in Nat
  BY DEF Shaped
<1> HIDE DEF ta
<1>4. CASE ta.resets >= MaxResets
  <2>1. new = [ta EXCEPT !.at = "finish", !.reason = "consecutive_errors"]
    BY <1>4 DEF AfterResult
  <2> HIDE DEF new
  <2> QED
    BY <1>1, <1>2, <2>1
<1>5. CASE ~(ta.resets >= MaxResets) /\ ta.answered < Len(ta.pending)
  <2>1. new = [ta EXCEPT !.at = "tools"]
    BY <1>5 DEF AfterResult
  <2> HIDE DEF new
  <2> QED
    BY <1>1, <1>2, <2>1
<1>6. CASE ~(ta.resets >= MaxResets) /\ ~(ta.answered < Len(ta.pending))
  <2> DEFINE p == Append(ta.prompt, Message("tool", CallsOf(ta)))
             s == Append(ta.sigs, sig)
             x == [ta EXCEPT !.sigs = s, !.steps = @ + 1, !.prompt = p]
  <2>1. new = NextStep(ta, sig)
    BY <1>6 DEF AfterResult
  <2>2. new = IF IsLooping(x.sigs) THEN [x EXCEPT !.at = "finish", !.reason = "loop_detected"]
              ELSE IF x.steps = MaxIterations
              THEN [x EXCEPT !.at = "finish", !.reason = "max_iterations"]
              ELSE [x EXCEPT !.at = "ask"]
    BY <2>1 DEF NextStep
  <2>3. p = Append(st.prompt, Message("tool", CallsOf(st)))
    BY <1>1 DEF CallsOf
  <2> HIDE DEF p, s
  <2>4. /\ x.pending = st.pending /\ x.issued = st.issued /\ x.prompt = p
        /\ DOMAIN x = DOMAIN st
    BY <1>1, <1>2
  <2> HIDE DEF x, new
  <2>5. st.answered + 1 = Len(st.pending)
    BY <1>1, <1>3, <1>6
  <2>6. ASSUME new = [x EXCEPT !.at = "ask"]
        PROVE  new.at = "ask" /\ new.pending = st.pending /\ new.issued = st.issued /\ new.prompt = p
    BY <1>2, <2>4, <2>6
  <2>7. ASSUME NEW reason, new = [x EXCEPT !.at = "finish", !.reason = reason]
        PROVE  new.at = "finish" /\ new.pending = st.pending /\ new.issued = st.issued
    BY <1>2, <2>4, <2>7
  <2>8. CASE new = [x EXCEPT !.at = "ask"]
    BY <2>3, <2>5, <2>6, <2>8
  <2>9. CASE \E reason : new = [x EXCEPT !.at = "finish", !.reason = reason]
    BY <2>7, <2>9
  <2> QED
    BY <2>2, <2>8, <2>9
<1> QED
  BY <1>4, <1>5, <1>6
-----------------------------------------------------------------------------
(* Runs and the logs of their sessions.                                    *)

Rebuilt(s) == RebuildMessages(log[s])

(* While a run may yet write to a log no two runs met over, the log has no *)
(* call of its that is to come.                                            *)
Numbered(r) ==
  /\ At(r) = "idle" => run[r].issued = 0
  /\ At(r) \notin {"over", "lost"} /\ (At(r) = "idle" \/ ~Mixed(Session(r))) =>
       \A s \in Sessions, n \in Nat :
         ~Mixed(s) /\ n > run[r].issued => <<r, n>> \notin LogIds(log[s])

(* Nothing is known of the log of a session two runs met in.               *)
HistInv ==
  /\ log = [s \in Sessions |-> log[s]]
  /\ \A s \in Sessions :
       (~Mixed(s) => LogFine(log[s])) /\ (status[s] = "none" => log[s] = <<>>)
  /\ \A r \in RunIds :
       /\ ~Mixed(Session(r)) => Placed(run[r], Rebuilt(Session(r)))
       /\ ~Mixed(Session(r)) /\ r \notin JobRuns => Shown(run[r], Rebuilt(Session(r)))
       /\ Numbered(r)

(* What a step of r leaves of its session and of itself.                   *)
Kept(r) ==
  LET s   == run'[r].session
      new == run'[r]
  IN  /\ s \in Sessions /\ log' = [log EXCEPT ![s] = log'[s]]
      /\ LogFine(log'[s])
      /\ Placed(new, RebuildMessages(log'[s]))
      /\ r \notin JobRuns => Shown(new, RebuildMessages(log'[s]))
      /\ new.at \notin {"over", "lost"} => new.issued \in Nat /\ new.issued >= run[r].issued
      /\ \A x \in LogIds(log'[s]) :
           \/ x \in LogIds(log[s]) \/ x = NoCall
           \/ \E n \in Nat : n <= new.issued /\ x = <<r, n>>

(* A session two runs met in is never again one nobody did.                *)
LEMMA MixedStays ==
  ASSUME RunsGood, TableTrue, [Next]_vars
  PROVE  /\ shared \subseteq shared'
         /\ \A r \in RunIds : At(r) # "idle" => Session(r)' = Session(r) /\ At(r)' # "idle"
         /\ \A s : Mixed(s) => Mixed(s)'
<1>1. /\ shared \subseteq shared'
      /\ \A r \in RunIds : At(r) # "idle" => Session(r)' = Session(r) /\ At(r)' # "idle"
  <2>1. ASSUME NEW q \in RunIds, Alters(q), At(q)' # "idle", shared' = shared
        PROVE  <1>1!1 /\ <1>1!2
    BY <2>1 DEF Alters, RunsGood, At, Session
  <2>2. ASSUME NEW q \in RunIds, Begin(q)
        PROVE  <1>1!1 /\ <1>1!2
    BY <2>2, BeginEffect DEF RunsGood, At, Session, Enter
  <2>3. ASSUME NEW q \in RunIds,
               RegisterInstance(q) \/ ResolveFails(q) \/ TurnStep(q) \/ Return(q) \/ Leave(q)
        PROVE  Alters(q) /\ At(q)' # "idle" /\ shared' = shared
    <3>1. "idle" \notin Registered
      BY DEF Registered, InTurn
    <3> QED
      BY <2>3, <3>1, MeetingsStay, RegisterEffect, ResolveFailsEffect, TurnStepEffect,
         ReturnEffect, LeaveEffect DEF TurnEffect, Alters, At
  <2>4. ASSUME Crash
        PROVE  <1>1!1 /\ <1>1!2
    <3>1. shared' = shared /\ \A r \in RunIds : Session(r)' = Session(r)
      BY <2>4, CrashEffect DEF Crash, Session
    <3>2. \A r \in RunIds : At(r) # "idle" => At(r)' # "idle"
      BY <2>4, EndedIsGood DEF Crash, At, RunsGood, Good, Shaped
    <3> QED
      BY <3>1, <3>2
  <2>5. ASSUME (\E s \in Sessions : Cancel(s)) \/ UNCHANGED vars
        PROVE  <1>1!1 /\ <1>1!2
    BY <2>5 DEF Cancel, vars, At, Session
  <2> QED
    BY <2>1, <2>2, <2>3, <2>4, <2>5, StepCases
<1> QED
  BY <1>1 DEF Mixed, TableTrue, MeetingsKnown

LEMMA CleanBefore ==
  ASSUME RunsGood, TableTrue, [Next]_vars, NEW r \in RunIds, ~Mixed(Session(r))'
  PROVE  ~Mixed(run'[r].session)
<1> SUFFICES ASSUME Mixed(run'[r].session) PROVE FALSE
  OBVIOUS
<1>1. PICK q \in shared : Session(q) = run'[r].session
  BY DEF Mixed
<1>2. q \in shared' /\ Session(q)' = Session(q)
  BY MixedStays DEF TableTrue, MeetingsKnown
<1> QED
  BY <1>1, <1>2 DEF Mixed, Session

(* A step of a run writes to the log of its session only.                  *)
LEMMA OwnLog ==
  ASSUME log = [s \in Sessions |-> log[s]], NEW r \in RunIds, Session(r) \in Sessions,
         RegisterInstance(r) \/ ResolveFails(r) \/ TurnStep(r) \/ Return(r) \/ Leave(r)
  PROVE  log' = [log EXCEPT ![Session(r)] = log'[Session(r)]]
<1>1. ASSUME NEW type, NEW id, Log(Session(r), type, id)
      PROVE  log' = [log EXCEPT ![Session(r)] = log'[Session(r)]]
  BY <1>1 DEF Log
<1>2. ASSUME UNCHANGED log
      PROVE  log' = [log EXCEPT ![Session(r)] = log'[Session(r)]]
  BY <1>2
<1>3. ASSUME TurnStep(r)
      PROVE  UNCHANGED log \/ \E type, id : Log(Session(r), type, id)
  BY <1>3, Zenon DEF TurnStep, Prompt, Ask, StreamCall, StreamFails, StreamEnds,
     ExecuteTool, AnswerApproval, Result, RequestApproval, ApprovalCancelled
<1>4. ASSUME Return(r)
      PROVE  UNCHANGED log \/ \E type, id : Log(Session(r), type, id)
  BY <1>4, Zenon DEF Return
<1>5. ASSUME RegisterInstance(r) \/ ResolveFails(r) \/ Leave(r)
      PROVE  UNCHANGED log
  BY <1>5 DEF RegisterInstance, ResolveFails, Leave
<1> QED
  BY <1>1, <1>2, <1>3, <1>4, <1>5

LEMMA QuietKept ==
  ASSUME HistInv, NEW r \in RunIds, UNCHANGED log, run'[r].session \in Sessions,
         ~Mixed(run'[r].session),
         Placed(run'[r], Rebuilt(run'[r].session)),
         r \notin JobRuns => Shown(run'[r], Rebuilt(run'[r].session)),
         run'[r].at \notin {"over", "lost"} =>
           run'[r].issued \in Nat /\ run'[r].issued = run[r].issued
  PROVE  Kept(r)
<1> DEFINE s == run'[r].session
           new == run'[r]
<1>1. log' = log /\ log' = [log EXCEPT ![s] = log'[s]] /\ LogFine(log'[s])
  BY DEF HistInv
<1>2. new.at \notin {"over", "lost"} => new.issued \in Nat /\ new.issued >= run[r].issued
  OBVIOUS
<1> QED
  BY <1>1, <1>2 DEF Kept, Rebuilt

(* The steps of r disturb no other run: nobody else is in its session, or  *)
(* nothing is said of it.                                                  *)
LEMMA KeptIsEnough ==
  ASSUME HistInv, RunsGood, StatusKept, TableTrue, [Next]_vars,
         NEW r \in RunIds, run' = [run EXCEPT ![r] = run'[r]],
         run'[r].session \in Sessions,
         log' = [log EXCEPT ![run'[r].session] = log'[run'[r].session]],
         ~Mixed(Session(r))' => Kept(r),
         At(r) = "idle" => UNCHANGED log,
         At(r) # "idle" => r \in InFlight /\ run'[r].session = run[r].session,
         run'[r].at # "idle"
  PROVE  HistInv'
<1> DEFINE s == run'[r].session
           new == run'[r]
           clean == ~Mixed(Session(r))'
<1>0. /\ s \in Sessions /\ log' = [log EXCEPT ![s] = log'[s]]
      /\ clean =>
           /\ LogFine(log'[s]) /\ Placed(new, RebuildMessages(log'[s]))
           /\ r \notin JobRuns => Shown(new, RebuildMessages(log'[s]))
           /\ new.at \notin {"over", "lost"} => new.issued \in Nat /\ new.issued >= run[r].issued
           /\ \A x \in LogIds(log'[s]) :
                \/ x \in LogIds(log[s]) \/ x = NoCall
                \/ \E n \in Nat : n <= new.issued /\ x = <<r, n>>
  BY DEF Kept
<1>1. /\ \A q \in RunIds \ {r} : run'[q] = run[q]
      /\ \A q \in RunIds : run[q].issued \in Nat /\ run[q].session \in Sessions
  BY DEF RunsGood, Good, Shaped
<1>2. \A p \in Sessions \ {s} : log'[p] = log[p]
  BY <1>0 DEF HistInv
<1>3. log' = [p \in Sessions |-> log'[p]]
  BY <1>0 DEF HistInv
<1>4. log' = log \/ (r \in InFlight /\ Session(r) = s)
  BY DEF Session
<1>5. \A p : ~Mixed(p)' => ~Mixed(p)
  BY MixedStays
<1>6. \A p : p = s => (~Mixed(p)' <=> clean)
  BY DEF Mixed, Session
<1> HIDE DEF s, new, clean
<1>7. ASSUME NEW p \in Sessions
      PROVE  (~Mixed(p)' => LogFine(log'[p])) /\ (status'[p] = "none" => log'[p] = <<>>)
  <2>1. ASSUME ~Mixed(p)' PROVE LogFine(log'[p])
    <3>1. CASE p = s
      BY <1>0, <1>6, <2>1, <3>1
    <3>2. CASE p # s
      BY <1>2, <1>5, <2>1, <3>2 DEF HistInv
    <3> QED
      BY <3>1, <3>2
  <2>2. ASSUME status'[p] = "none" PROVE log'[p] = <<>>
    <3>1. status[p] = "none"
      BY <2>2, StatusStaysKept
    <3>2. log[p] = <<>>
      BY <3>1 DEF HistInv
    <3>3. log'[p] = log[p]
      BY <1>2, <1>4, <3>1 DEF TableTrue
    <3> QED
      BY <3>2, <3>3
  <2> QED
    BY <2>1, <2>2
<1>8. ASSUME NEW q \in RunIds, ~Mixed(Session(q))'
      PROVE  /\ Placed(run'[q], RebuildMessages(log'[run'[q].session]))
             /\ q \notin JobRuns => Shown(run'[q], RebuildMessages(log'[run'[q].session]))
  <2>1. CASE q = r
    BY <1>0, <1>8, <2>1 DEF s, new, clean
  <2>2. CASE q # r
    <3>0. run'[q] = run[q] /\ run[q].session \in Sessions
      BY <1>1, <2>2
    <3>1. run'[q] = run[q] /\ run[q].session \in Sessions /\ ~Mixed(run[q].session)
      BY <1>8, <3>0, CleanBefore
    <3>2. CASE q \in InFlight
      <4>1. ASSUME r \in InFlight, Session(r) = Session(q) PROVE FALSE
        BY <2>2, <3>1, <3>2, <4>1 DEF TableTrue, MeetingsKnown, Mixed, Session
      <4>2. log'[run[q].session] = log[run[q].session]
        BY <1>2, <1>4, <3>1, <4>1 DEF Session
      <4> QED
        BY <3>1, <4>2 DEF HistInv, Rebuilt, Session
    <3>3. CASE q \notin InFlight
      <4>1. run[q].at \notin InTurn \cup {"read", "registered"}
        BY <3>3 DEF InFlight, At, InTurn
      <4> QED
        BY <3>1, <4>1, AsideIsFree
    <3> QED
      BY <3>2, <3>3
  <2> QED
    BY <2>1, <2>2
<1>9. ASSUME NEW q \in RunIds
      PROVE  /\ run'[q].at = "idle" => run'[q].issued = 0
             /\ run'[q].at \notin {"over", "lost"}
                /\ (run'[q].at = "idle" \/ ~Mixed(Session(q))') =>
                  \A p \in Sessions, n \in Nat :
                    ~Mixed(p)' /\ n > run'[q].issued => <<q, n>> \notin LogIds(log'[p])
  <2>1. run'[q].at = "idle" => run'[q].issued = 0
    <3>1. q # r => run'[q] = run[q]
      BY <1>1
    <3> QED
      BY <3>1 DEF HistInv, Numbered, At
  <2>2. ASSUME run'[q].at \notin {"over", "lost"},
               run'[q].at = "idle" \/ ~Mixed(Session(q))',
               NEW p \in Sessions, NEW n \in Nat, ~Mixed(p)',
               n > run'[q].issued, <<q, n>> \in LogIds(log'[p])
        PROVE  FALSE
    <3>1. /\ run[q].at \notin {"over", "lost"} /\ n > run[q].issued
          /\ run[q].at = "idle" \/ ~Mixed(run[q].session)
      <4>1. CASE q = r
        <5>1. run[q].at \notin {"over", "lost"}
          BY <4>1 DEF InFlight, At
        <5>2. clean
          BY <2>2, <4>1 DEF clean
        <5>3. /\ run'[q].issued \in Nat /\ run'[q].issued >= run[q].issued
              /\ run[q].issued \in Nat
          BY <1>0, <1>1, <2>2, <4>1, <5>2 DEF new
        <5>4. run[q].at = "idle" \/ ~Mixed(run[q].session)
          BY <4>1, <5>2, CleanBefore DEF clean, At
        <5> QED
          BY <2>2, <5>1, <5>3, <5>4
      <4>2. CASE q # r
        <5>1. run'[q] = run[q]
          BY <1>1, <4>2
        <5> QED
          BY <2>2, <5>1, CleanBefore
      <4> QED
        BY <4>1, <4>2
    <3>2. <<q, n>> \notin LogIds(log[p])
      BY <1>5, <2>2, <3>1 DEF HistInv, Numbered, At, Session
    <3>3. p = s /\ clean
      BY <1>2, <1>6, <2>2, <3>2
    <3>4. <<q, n>> # NoCall
      <4>1. <<q, n>> \in RunIds \X Nat
        OBVIOUS
      <4> QED
        BY <4>1, RunAssumption
    <3>5. PICK k \in Nat : k <= new.issued /\ <<q, n>> = <<r, k>>
      BY <1>0, <2>2, <3>2, <3>3, <3>4
    <3>6. q = r /\ n = k
      BY <3>5
    <3>7. run'[q].issued \in Nat /\ run'[q].issued = new.issued
      BY <1>0, <2>2, <3>3, <3>6 DEF new
    <3> QED
      BY <2>2, <3>5, <3>6, <3>7
  <2> QED
    BY <2>1, <2>2
<1> QED
  BY <1>3, <1>7, <1>8, <1>9 DEF HistInv, Rebuilt, Session, Numbered, At
-----------------------------------------------------------------------------
(* What the three kinds of events leave of a log, for logs named by others. *)
LEMMA UserSaid ==
  ASSUME NEW l, LogFine(l), NEW q, q = Append(l, Event("user_message", NoCall))
  PROVE  /\ LogFine(q) /\ LogIds(q) = LogIds(l) \cup {NoCall}
         /\ RebuildMessages(q) = Append(RebuildMessages(l), Message("user", <<>>))
<1> DEFINE type == "user_message"
<1>1. type = IF "user" = "user" THEN "user_message" ELSE "assistant_message"
  OBVIOUS
<1>2. q = Append(l, Event(type, NoCall)) /\ "user" \in {"user", "assistant"}
  OBVIOUS
<1> HIDE DEF type
<1> QED
  BY <1>1, <1>2, SaidEvent

LEMMA AssistantSaid ==
  ASSUME NEW l, LogFine(l), NEW q, q = Append(l, Event("assistant_message", NoCall))
  PROVE  LogFine(q) /\ LogIds(q) = LogIds(l) \cup {NoCall}
<1> DEFINE type == "assistant_message"
<1>1. type = IF "assistant" = "user" THEN "user_message" ELSE "assistant_message"
  OBVIOUS
<1>2. q = Append(l, Event(type, NoCall)) /\ "assistant" \in {"user", "assistant"}
  OBVIOUS
<1> HIDE DEF type
<1> QED
  BY <1>1, <1>2, SaidEvent

LEMMA CallMade ==
  ASSUME NEW l, LogFine(l), NEW id \in CallIds, id \notin LogIds(l),
         NEW q, q = Append(l, Event("tool_call", id))
  PROVE  /\ LogFine(q) /\ LogIds(q) = LogIds(l) \cup {id}
         /\ RebuildMessages(q) = WithCall(RebuildMessages(l), id)
BY CallEvent

(* What is known of a run and its session before a step.                   *)
LEMMA Before ==
  ASSUME HistInv, RunsGood, NEW r \in RunIds, ~Mixed(run[r].session)
  PROVE  LET s == run[r].session
         IN  /\ s \in Sessions /\ s = Session(r) /\ ~Mixed(s) /\ At(r) = run[r].at
             /\ Shaped(run[r]) /\ HasNext(run[r]) /\ run[r].issued \in Nat
             /\ LogFine(log[s]) /\ Rebuilt(s) \in Seq(Msgs)
             /\ Known(Rebuilt(s), LogIds(log[s]))
             /\ Placed(run[r], Rebuilt(s))
             /\ r \notin JobRuns => Shown(run[r], Rebuilt(s))
             /\ run = [q \in RunIds |-> run[q]]
BY DEF HistInv, RunsGood, Good, Shaped, Session, At, LogFine, Rebuilt

LEMMA BeginKept ==
  ASSUME HistInv, RunsGood, NEW r \in RunIds, ~Mixed(run'[r].session), Begin(r)
  PROVE  Kept(r) /\ UNCHANGED log /\ At(r) = "idle" /\ run'[r].at = "read"
<1>1. ASSUME NEW s \in Sessions, NEW prompt, At(r) = "idle",
             run' = [run EXCEPT ![r] = Fresh(s, prompt)], UNCHANGED log,
             r \notin JobRuns => prompt = Rebuilt(s)
      PROVE  Kept(r) /\ run'[r].at = "read"
  <2> DEFINE new == run'[r]
  <2>1. new = Fresh(s, prompt)
    BY <1>1 DEF RunsGood
  <2>2. new.at = "read" /\ new.session = s /\ new.prompt = prompt /\ new.issued = 0
    BY <2>1 DEF Fresh
  <2>3. run[r].issued = 0
    BY <1>1 DEF HistInv, Numbered
  <2> HIDE DEF new
  <2>4. Placed(new, Rebuilt(s)) /\ (r \notin JobRuns => Shown(new, Rebuilt(s)))
    BY <1>1, <2>2 DEF Placed, Shown, Waiting, Calling, Working, InTurn
  <2> USE DEF new
  <2>5. Kept(r)
    BY <1>1, <2>2, <2>3, <2>4, QuietKept
  <2> QED
    BY <2>2, <2>5
<1>2. CASE RunInMain(r)
  BY <1>1, <1>2, RunAssumption DEF RunInMain
<1>3. ASSUME NEW s \in Sessions, Continue(r, s)
      PROVE  Kept(r) /\ run'[r].at = "read"
  BY <1>1, <1>3 DEF Continue, Rebuilt
<1>4. ASSUME NEW s \in Sessions, Create(r, s)
      PROVE  Kept(r) /\ run'[r].at = "read"
  <2>1. log[s] = <<>>
    BY <1>4 DEF Create, HistInv
  <2>2. Rebuilt(s) = <<>>
    BY <2>1, RebuildEmpty DEF Rebuilt
  <2> QED
    BY <1>1, <1>4, <2>2 DEF Create
<1>5. UNCHANGED log /\ At(r) = "idle"
  BY DEF Begin, RunInMain, Continue, Create
<1> QED
  BY <1>2, <1>3, <1>4, <1>5 DEF Begin

(* Steps after which a run has no turn any more, and says nothing.         *)
LEMMA AsideKept ==
  ASSUME HistInv, RunsGood, NEW r \in RunIds, ~Mixed(run[r].session), UNCHANGED log,
         run'[r].session = run[r].session, run'[r].at \in {"finish", "returned", "over"},
         run'[r].at # "over" => run'[r].issued = run[r].issued
  PROVE  Kept(r)
<1>1. run'[r].at \notin InTurn \cup {"read", "registered"}
  BY DEF InTurn
<1>2. \A h : Placed(run'[r], h) /\ Shown(run'[r], h)
  BY <1>1, AsideIsFree
<1> QED
  BY <1>2, Before, QuietKept

LEMMA StopKept ==
  ASSUME HistInv, RunsGood, NEW r \in RunIds, ~Mixed(run[r].session), NEW reason, Stop(r, reason), UNCHANGED log
  PROVE  Kept(r)
<1> DEFINE old == run[r]
           new == run'[r]
<1>1. new = [old EXCEPT !.at = "finish", !.reason = reason]
  BY DEF RunsGood, Stop
<1>2. Shaped(old)
  BY Before
<1> HIDE DEF old, new
<1>3. new.at = "finish" /\ new.session = old.session /\ new.issued = old.issued
  BY <1>1, <1>2 DEF Shaped
<1> QED
  BY <1>3, AsideKept DEF old, new

LEMMA RegisterKept ==
  ASSUME HistInv, RunsGood, NEW r \in RunIds, ~Mixed(run[r].session), RegisterInstance(r)
  PROVE  Kept(r)
<1> DEFINE old == run[r]
           new == run'[r]
           s == old.session
<1>1. new = [old EXCEPT !.at = "registered"] /\ old.at = "read" /\ UNCHANGED log
  BY DEF RunsGood, RegisterInstance, Goto, At
<1>2. Shaped(old) /\ s \in Sessions /\ ~Mixed(s) /\ old.issued \in Nat
      /\ (r \notin JobRuns => Shown(old, Rebuilt(s)))
  BY Before
<1> HIDE DEF old, new
<1>3. /\ new.at = "registered" /\ new.session = s /\ new.issued = old.issued
      /\ new.prompt = old.prompt
  BY <1>1, <1>2 DEF Shaped
<1> HIDE DEF s
<1>4. Placed(new, Rebuilt(s)) /\ (r \notin JobRuns => Shown(new, Rebuilt(s)))
  BY <1>1, <1>2, <1>3 DEF Placed, Shown, Waiting, Calling, Working, InTurn
<1> QED
  BY <1>1, <1>2, <1>3, <1>4, QuietKept DEF old, new

LEMMA ResolveFailsKept ==
  ASSUME HistInv, RunsGood, NEW r \in RunIds, ~Mixed(run[r].session), ResolveFails(r)
  PROVE  Kept(r)
<1> DEFINE old == run[r]
           new == run'[r]
<1>1. new = [old EXCEPT !.at = "returned", !.reason = "unresolved"] /\ UNCHANGED log
  BY DEF RunsGood, ResolveFails
<1>2. Shaped(old)
  BY Before
<1> HIDE DEF old, new
<1>3. new.at = "returned" /\ new.session = old.session /\ new.issued = old.issued
  BY <1>1, <1>2 DEF Shaped
<1> QED
  BY <1>1, <1>3, AsideKept DEF old, new

LEMMA LeaveKept ==
  ASSUME HistInv, RunsGood, NEW r \in RunIds, ~Mixed(run[r].session), Leave(r)
  PROVE  Kept(r)
<1>1. run'[r].session = run[r].session /\ run'[r].at = "over"
  BY LeaveEffect DEF Alters
<1>2. UNCHANGED log
  BY DEF Leave
<1> QED
  BY <1>1, <1>2, AsideKept

LEMMA AskKept ==
  ASSUME HistInv, RunsGood, NEW r \in RunIds, ~Mixed(run[r].session), Ask(r)
  PROVE  Kept(r)
<1> DEFINE old == run[r]
           new == run'[r]
           s == old.session
<1>1. old.at = "ask" /\ UNCHANGED log
  BY DEF Ask, At
<1>2. Shaped(old) /\ s \in Sessions /\ ~Mixed(s) /\ old.issued \in Nat /\ Placed(old, Rebuilt(s))
      /\ (r \notin JobRuns => Shown(old, Rebuilt(s)))
  BY Before
<1>3. CASE Stop(r, "cancelled") \/ Stop(r, "error")
  BY <1>1, <1>3, StopKept
<1>4. CASE run' = [run EXCEPT ![r].at = "stream", ![r].pending = <<>>, ![r].answered = 0]
  <2>1. new = [old EXCEPT !.at = "stream", !.pending = <<>>, !.answered = 0]
    BY <1>4 DEF RunsGood
  <2> HIDE DEF old, new
  <2>2. /\ new.at = "stream" /\ new.session = s /\ new.issued = old.issued
        /\ new.prompt = old.prompt /\ new.pending = <<>>
    BY <1>2, <2>1 DEF Shaped
  <2> HIDE DEF s
  <2>3. Placed(new, Rebuilt(s)) /\ (r \notin JobRuns => Shown(new, Rebuilt(s)))
    BY <1>1, <1>2, <2>2, AskShows
  <2> QED
    BY <1>1, <1>2, <2>2, <2>3, QuietKept DEF old, new
<1> QED
  BY <1>3, <1>4 DEF Ask

LEMMA StreamEndsKept ==
  ASSUME HistInv, RunsGood, NEW r \in RunIds, ~Mixed(run[r].session), NEW text \in BOOLEAN, StreamEnds(r, text)
  PROVE  Kept(r)
<1> DEFINE old == run[r]
           new == run'[r]
           s == old.session
           said == old.said \/ text
<1>1. old.at = "stream" /\ UNCHANGED log
  BY DEF StreamEnds, At
<1>2. /\ Shaped(old) /\ HasNext(old) /\ s \in Sessions /\ ~Mixed(s) /\ old.issued \in Nat
      /\ Rebuilt(s) \in Seq(Msgs) /\ Placed(old, Rebuilt(s))
      /\ (r \notin JobRuns => Shown(old, Rebuilt(s)))
  BY Before
<1>3. CASE Stop(r, "token_budget") \/ Stop(r, "degenerate_output")
  BY <1>1, <1>3, StopKept
<1>4. CASE run' = [run EXCEPT ![r].at = "finish", ![r].reason = "end_turn",
                              ![r].said = @ \/ text]
  <2>1. new = [old EXCEPT !.at = "finish", !.reason = "end_turn", !.said = said]
    BY <1>4 DEF RunsGood
  <2> HIDE DEF old, new, said
  <2>2. new.at = "finish" /\ new.session = old.session /\ new.issued = old.issued
    BY <1>2, <2>1 DEF Shaped
  <2> QED
    BY <1>1, <2>2, AsideKept DEF old, new
<1>5. CASE /\ old.pending # <<>>
           /\ run' = [run EXCEPT ![r].at = "tools", ![r].said = @ \/ text,
                ![r].prompt = Append(@, Message("assistant", CallsOf(run[r])))]
  <2> DEFINE msg == Append(old.prompt, Message("assistant", CallsOf(old)))
  <2>1. new = [old EXCEPT !.at = "tools", !.said = said, !.prompt = msg]
    BY <1>5 DEF RunsGood
  <2> HIDE DEF old, new, said, msg
  <2>2. /\ new.at = "tools" /\ new.session = s /\ new.issued = old.issued
        /\ new.prompt = msg /\ new.pending = old.pending /\ new.answered = old.answered
    BY <1>2, <2>1 DEF Shaped
  <2> HIDE DEF s
  <2>3. Calling(old) /\ old.answered = 0
    BY <1>1, <1>2, <1>5 DEF Calling, HasNext, old
  <2>4. Placed(new, Rebuilt(s)) /\ (r \notin JobRuns => Shown(new, Rebuilt(s)))
    BY <1>2, <2>2, <2>3, EndShows DEF msg
  <2> QED
    BY <1>1, <1>2, <2>2, <2>4, QuietKept DEF old, new
<1> QED
  BY <1>3, <1>4, <1>5 DEF StreamEnds

LEMMA RequestApprovalKept ==
  ASSUME HistInv, RunsGood, NEW r \in RunIds, ~Mixed(run[r].session), RequestApproval(r)
  PROVE  Kept(r)
<1> DEFINE old == run[r]
           new == run'[r]
           s == old.session
<1>1. new = [old EXCEPT !.at = "approval"] /\ old.at = "tools" /\ UNCHANGED log
  BY DEF RunsGood, RequestApproval, Goto, At
<1>2. Shaped(old) /\ s \in Sessions /\ ~Mixed(s) /\ old.issued \in Nat /\ Placed(old, Rebuilt(s))
      /\ (r \notin JobRuns => Shown(old, Rebuilt(s)))
  BY Before
<1> HIDE DEF old, new
<1>3. /\ new.at = "approval" /\ new.session = s /\ new.issued = old.issued
      /\ new.prompt = old.prompt /\ new.pending = old.pending /\ new.answered = old.answered
  BY <1>1, <1>2 DEF Shaped
<1> HIDE DEF s
<1>4. Placed(new, Rebuilt(s)) /\ (r \notin JobRuns => Shown(new, Rebuilt(s)))
  BY <1>1, <1>2, <1>3 DEF Placed, Shown, Waiting, Calling, Working, InTurn, CallsOf
<1> QED
  BY <1>1, <1>2, <1>3, <1>4, QuietKept DEF old, new
-----------------------------------------------------------------------------
(* Steps that write to the log.                                            *)

LEMMA LogGrows ==
  ASSUME HistInv, NEW s \in Sessions, NEW type, NEW id, Log(s, type, id)
  PROVE  log'[s] = Append(log[s], Event(type, id)) /\ log' = [log EXCEPT ![s] = log'[s]]
BY DEF HistInv, Log

LEMMA PromptKept ==
  ASSUME HistInv, RunsGood, NEW r \in RunIds, ~Mixed(run[r].session), Prompt(r)
  PROVE  Kept(r)
<1> DEFINE old == run[r]
           new == run'[r]
           s == old.session
           h == Rebuilt(s)
           m == Message("user", <<>>)
           msg == Append(old.prompt, m)
<1>1. /\ new = [old EXCEPT !.at = "ask", !.prompt = msg] /\ old.at = "registered"
      /\ Log(s, "user_message", NoCall)
  BY DEF RunsGood, Prompt, At, Session
<1>2. /\ Shaped(old) /\ s \in Sessions /\ ~Mixed(s) /\ old.issued \in Nat /\ LogFine(log[s])
      /\ h \in Seq(Msgs) /\ (r \notin JobRuns => Shown(old, h))
  BY Before
<1>3. log'[s] = Append(log[s], Event("user_message", NoCall)) /\ log' = [log EXCEPT ![s] = log'[s]]
  BY <1>1, <1>2, LogGrows
<1>4. /\ LogFine(log'[s]) /\ LogIds(log'[s]) = LogIds(log[s]) \cup {NoCall}
      /\ RebuildMessages(log'[s]) = Append(h, m)
  BY <1>2, <1>3, UserSaid DEF Rebuilt
<1> HIDE DEF old, new, msg
<1>5. /\ new.at = "ask" /\ new.session = s /\ new.issued = old.issued /\ new.prompt = msg
  BY <1>1, <1>2 DEF Shaped
<1> HIDE DEF s, h
<1>6. Placed(new, Append(h, m)) /\ (r \notin JobRuns => Shown(new, Append(h, m)))
  BY <1>1, <1>2, <1>5, PromptShows DEF msg
<1> HIDE DEF m
<1>7. new.issued \in Nat /\ new.issued >= old.issued
  BY <1>2, <1>5
<1> QED
  BY <1>2, <1>3, <1>4, <1>5, <1>6, <1>7 DEF Kept, old, new

LEMMA StreamCallKept ==
  ASSUME HistInv, RunsGood, NEW r \in RunIds, ~Mixed(run[r].session), NEW t \in Tools, StreamCall(r, t)
  PROVE  Kept(r)
<1> DEFINE old == run[r]
           new == run'[r]
           s == old.session
           h == Rebuilt(s)
           id == <<r, old.issued + 1>>
           x == [id |-> id, tool |-> t]
           p == Append(old.pending, x)
<1>1. /\ new = [old EXCEPT !.pending = p, !.issued = @ + 1] /\ old.at = "stream"
      /\ Log(s, "tool_call", id)
  BY DEF RunsGood, StreamCall, At, Session
<1>2. /\ Shaped(old) /\ s \in Sessions /\ ~Mixed(s) /\ old.issued \in Nat /\ LogFine(log[s])
      /\ h \in Seq(Msgs) /\ Known(h, LogIds(log[s])) /\ Placed(old, h)
      /\ (r \notin JobRuns => Shown(old, h))
  BY Before
<1>3. log'[s] = Append(log[s], Event("tool_call", id)) /\ log' = [log EXCEPT ![s] = log'[s]]
  BY <1>1, <1>2, LogGrows
<1>4. id \in CallIds /\ id \notin LogIds(log[s]) /\ old.issued + 1 \in Nat
  <2>1. old.issued + 1 \in Nat /\ old.issued + 1 > old.issued
    BY <1>2
  <2>2. old.at \notin {"over", "lost"}
    BY <1>1
  <2>3. id \notin LogIds(log[s])
    BY <1>2, <2>1, <2>2 DEF HistInv, Numbered, At, Session
  <2> QED
    BY <2>1, <2>3 DEF CallIds
<1>5. /\ LogFine(log'[s]) /\ LogIds(log'[s]) = LogIds(log[s]) \cup {id}
      /\ RebuildMessages(log'[s]) = WithCall(h, id)
  <2> DEFINE l == log[s]
             q == log'[s]
  <2>1. LogFine(l) /\ q = Append(l, Event("tool_call", id)) /\ h = RebuildMessages(l)
    BY <1>2, <1>3 DEF Rebuilt
  <2>2. id \in CallIds /\ id \notin LogIds(l)
    BY <1>4
  <2>3. q = log'[s] /\ l = log[s]
    OBVIOUS
  <2> HIDE DEF l, q, id, h
  <2> QED
    BY <2>1, <2>2, <2>3, CallMade
<1> HIDE DEF old, new, p
<1>6. /\ new.at = "stream" /\ new.session = s /\ new.issued = old.issued + 1
      /\ new.prompt = old.prompt /\ new.pending = p
  BY <1>1, <1>2 DEF Shaped
<1> HIDE DEF s, h, id
<1>7. /\ Placed(new, WithCall(h, id)) /\ (r \notin JobRuns => Shown(new, WithCall(h, id)))
  BY <1>1, <1>2, <1>4, <1>6, CallShows DEF p
<1>8. new.issued \in Nat /\ new.issued >= old.issued
  BY <1>2, <1>4, <1>6
<1>9. \E n \in Nat : n <= new.issued /\ id = <<r, n>>
  BY <1>4, <1>6, <1>8 DEF id
<1> QED
  BY <1>2, <1>3, <1>5, <1>6, <1>7, <1>8, <1>9 DEF Kept, old, new

LEMMA ResultKept ==
  ASSUME HistInv, RunsGood, NEW r \in RunIds, ~Mixed(run[r].session), NEW failed \in BOOLEAN,
         At(r) \in {"tools", "approval"}, Result(r, failed)
  PROVE  Kept(r)
<1> DEFINE old == run[r]
           new == run'[r]
           s == old.session
           h == Rebuilt(s)
           call == old.pending[old.answered + 1]
           id == call.id
           t == call.tool
           m == Message("tool", <<id>>)
<1>1. old.at \in {"tools", "approval"} /\ Log(s, "tool_result", id)
  BY DEF Result, At, Session
<1>2. /\ Shaped(old) /\ s \in Sessions /\ ~Mixed(s) /\ old.issued \in Nat /\ LogFine(log[s])
      /\ h \in Seq(Msgs) /\ Placed(old, h) /\ (r \notin JobRuns => Shown(old, h))
      /\ HasNext(old)
  BY Before
<1>3. old.answered < Len(old.pending) /\ Working(old) /\ t \in Tools
  <2>1. old.answered < Len(old.pending) /\ Working(old)
    BY <1>1, <1>2 DEF HasNext, Working
  <2>2. old.pending \in Seq(Call) /\ old.answered \in Nat
    BY <1>2 DEF Shaped
  <2>3. old.answered + 1 \in 1 .. Len(old.pending)
    BY <2>1, <2>2
  <2>4. call \in Call
    BY <2>2, <2>3
  <2> QED
    BY <2>1, <2>4 DEF Call
<1>4. PICK sig \in Signatures :
        run' = [run EXCEPT ![r] = AfterResult(Tally(@, t, failed), sig)]
  BY DEF Result
<1>5. new = AfterResult(Tally(old, t, failed), sig)
  BY <1>4 DEF RunsGood
<1>6. new.session = s
  <2>1. TurnEffect(r)
    BY ResultEffect
  <2> QED
    BY <2>1 DEF TurnEffect
<1>7. log'[s] = Append(log[s], Event("tool_result", id)) /\ log' = [log EXCEPT ![s] = log'[s]]
  BY <1>1, <1>2, LogGrows
<1> HIDE DEF old, new, t
<1>8. /\ new.pending = old.pending /\ new.issued = old.issued
      /\ new.at \in {"finish", "ask", "tools"}
      /\ new.at = "tools" => new.prompt = old.prompt /\ new.answered = old.answered + 1
      /\ new.at = "ask" => /\ new.prompt = Append(old.prompt, Message("tool", CallsOf(old)))
                           /\ old.answered + 1 = Len(old.pending)
  BY <1>2, <1>3, <1>5, ResultLeaves
<1> HIDE DEF s, h
<1>9. /\ id \in CallIds /\ \E p : Trailing(h, p) /\ OnlyAt(h, p, id)
      /\ Placed(new, Append(h, m)) /\ (Shown(old, h) => Shown(new, Append(h, m)))
  <2> HIDE DEF m
  <2>1. id = old.pending[old.answered + 1].id
    OBVIOUS
  <2> HIDE DEF id
  <2> QED
    BY <1>2, <1>3, <1>8, <2>1, ResultShows DEF m
<1> HIDE DEF id
<1>10. /\ LogFine(log'[s]) /\ LogIds(log'[s]) = LogIds(log[s])
       /\ RebuildMessages(log'[s]) = Append(h, m)
  <2>1. PICK p : Trailing(h, p) /\ OnlyAt(h, p, id)
    BY <1>9
  <2>2. Trailing(RebuildMessages(log[s]), p) /\ OnlyAt(RebuildMessages(log[s]), p, id)
    BY <2>1 DEF h, Rebuilt
  <2> QED
    BY <1>2, <1>7, <1>9, <2>2, ResultEvent DEF h, Rebuilt
<1> HIDE DEF m
<1>11. new.issued \in Nat /\ new.issued >= old.issued
  BY <1>2, <1>8
<1> QED
  BY <1>2, <1>6, <1>7, <1>9, <1>10, <1>11 DEF Kept, old, new

LEMMA ReturnKept ==
  ASSUME HistInv, RunsGood, NEW r \in RunIds, ~Mixed(run[r].session), Return(r)
  PROVE  Kept(r)
<1> DEFINE old == run[r]
           new == run'[r]
           s == old.session
<1>1. new = [old EXCEPT !.at = "returned"]
  BY DEF RunsGood, Return, Goto
<1>2. /\ Shaped(old) /\ s \in Sessions /\ ~Mixed(s) /\ old.issued \in Nat /\ LogFine(log[s])
  BY Before
<1>3. \/ Log(s, "system_message", NoCall) \/ Log(s, "assistant_message", NoCall)
      \/ UNCHANGED log
  BY Zenon DEF Return, Session
<1> HIDE DEF old, new
<1>4. new.at = "returned" /\ new.session = s /\ new.issued = old.issued
  BY <1>1, <1>2 DEF Shaped
<1> HIDE DEF s
<1>5. \A h : Placed(new, h) /\ Shown(new, h)
  <2>1. new.at \notin InTurn \cup {"read", "registered"}
    BY <1>4 DEF InTurn
  <2> QED
    BY <2>1, AsideIsFree
<1>6. new.issued \in Nat /\ new.issued >= old.issued
  BY <1>2, <1>4
<1>7. CASE UNCHANGED log
  BY <1>4, <1>7, AsideKept DEF old, new, s
<1>8. CASE Log(s, "system_message", NoCall)
  <2>1. log'[s] = Append(log[s], Event("system_message", NoCall)) /\ log' = [log EXCEPT ![s] = log'[s]]
    BY <1>2, <1>8, LogGrows
  <2>2. LogFine(log'[s]) /\ LogIds(log'[s]) = LogIds(log[s]) \cup {NoCall}
    BY <1>2, <2>1, SystemEvent
  <2> QED
    BY <1>2, <1>4, <1>5, <1>6, <2>1, <2>2 DEF Kept, old, new
<1>9. CASE Log(s, "assistant_message", NoCall)
  <2>1. log'[s] = Append(log[s], Event("assistant_message", NoCall)) /\ log' = [log EXCEPT ![s] = log'[s]]
    BY <1>2, <1>9, LogGrows
  <2>2. LogFine(log'[s]) /\ LogIds(log'[s]) = LogIds(log[s]) \cup {NoCall}
    BY <1>2, <2>1, AssistantSaid
  <2> QED
    BY <1>2, <1>4, <1>5, <1>6, <2>1, <2>2 DEF Kept, old, new
<1> QED
  BY <1>3, <1>7, <1>8, <1>9

LEMMA TurnStepKept ==
  ASSUME HistInv, RunsGood, NEW r \in RunIds, ~Mixed(run[r].session), TurnStep(r)
  PROVE  Kept(r)
<1>1. ASSUME StreamFails(r) PROVE Kept(r)
  BY <1>1, StopKept DEF StreamFails
<1>2. ASSUME NEW failed \in BOOLEAN, ExecuteTool(r, failed) \/ AnswerApproval(r, failed)
      PROVE  Kept(r)
  BY <1>2, ResultKept DEF ExecuteTool, AnswerApproval
<1>3. ASSUME ApprovalCancelled(r) PROVE Kept(r)
  BY <1>3, ResultKept DEF ApprovalCancelled
<1> QED
  BY <1>1, <1>2, <1>3, PromptKept, AskKept, StreamCallKept,
     StreamEndsKept, RequestApprovalKept DEF TurnStep

(* A crash leaves the logs, and the runs it meets say no more.             *)
LEMMA CrashKeepsHist ==
  ASSUME HistInv, RunsGood, TableTrue, [Next]_vars, Crash
  PROVE  HistInv'
<1>1. UNCHANGED <<log, status>>
  BY DEF Crash
<1>2. ASSUME NEW r \in RunIds
      PROVE  /\ run'[r].at \notin InTurn \cup {"read", "registered"}
             /\ run'[r].at \notin {"over", "lost"} => run'[r] = run[r]
  <2>1. run'[r].at \in {"idle", "over", "lost"}
    BY CrashEffect
  <2>2. run'[r] = IF r \in InFlight THEN Ended(run[r], "lost") ELSE run[r]
    BY DEF Crash
  <2>3. Ended(run[r], "lost").at = "lost"
    BY EndedIsGood DEF RunsGood, Good, Shaped
  <2> QED
    BY <2>1, <2>2, <2>3 DEF InTurn
<1>3. \A r \in RunIds : \A h : Placed(run'[r], h) /\ Shown(run'[r], h)
  BY <1>2, AsideIsFree
<1>7. \A s : ~Mixed(s)' <=> ~Mixed(s)
  <2>1. shared' = shared /\ \A r \in RunIds : Session(r)' = Session(r)
    BY CrashEffect DEF Crash, Session
  <2> QED
    BY <2>1 DEF Mixed, TableTrue, MeetingsKnown
<1>4. ASSUME NEW r \in RunIds PROVE Numbered(r)'
  BY <1>1, <1>2, <1>7 DEF HistInv, Numbered, At, Session
<1>5. log' = [s \in Sessions |-> log'[s]]
  BY <1>1 DEF HistInv
<1>6. \A s \in Sessions :
        (~Mixed(s)' => LogFine(log'[s])) /\ (status'[s] = "none" => log'[s] = <<>>)
  BY <1>1, <1>7 DEF HistInv
<1> QED
  BY <1>3, <1>4, <1>5, <1>6 DEF HistInv
-----------------------------------------------------------------------------
LEMMA StepKeepsHist ==
  ASSUME HistInv, RunsGood, StatusKept, TableTrue, [Next]_vars
  PROVE  HistInv'
<1>1. ASSUME NEW r \in RunIds, Begin(r)
      PROVE  HistInv'
  <2>1. /\ At(r) = "idle" /\ run'[r].at # "idle" /\ run' = [run EXCEPT ![r] = run'[r]]
        /\ run'[r].session \in Sessions
    BY <1>1, BeginEffect DEF Good, Shaped
  <2>2. ASSUME ~Mixed(Session(r))' PROVE Kept(r)
    BY <1>1, <2>2, CleanBefore, BeginKept
  <2>3. UNCHANGED log
    BY <1>1 DEF Begin, RunInMain, Continue, Create
  <2>4. log' = [log EXCEPT ![run'[r].session] = log'[run'[r].session]]
    BY <2>1, <2>3 DEF HistInv
  <2> QED
    BY <2>1, <2>2, <2>3, <2>4, KeptIsEnough
<1>2. ASSUME NEW r \in RunIds, ~Mixed(run[r].session) => Kept(r),
             At(r) \notin {"idle", "over", "lost"}, Alters(r), run'[r].at # "idle",
             RegisterInstance(r) \/ ResolveFails(r) \/ TurnStep(r) \/ Return(r) \/ Leave(r)
      PROVE  HistInv'
  <2>1. r \in InFlight /\ At(r) # "idle"
    BY <1>2 DEF InFlight
  <2>2. run' = [run EXCEPT ![r] = run'[r]] /\ run'[r].session = run[r].session
    BY <1>2 DEF Alters
  <2>3. run[r].session \in Sessions
    BY DEF RunsGood, Good, Shaped
  <2>4. log' = [log EXCEPT ![run[r].session] = log'[run[r].session]]
    BY <1>2, <2>3, OwnLog DEF HistInv, Session
  <2>5. ASSUME ~Mixed(Session(r))' PROVE Kept(r)
    <3>1. ~Mixed(run'[r].session)
      BY <2>5, CleanBefore
    <3>2. ~Mixed(run[r].session)
      BY <2>2, <3>1
    <3> QED
      BY <1>2, <3>2
  <2>6. /\ run'[r].session \in Sessions
        /\ log' = [log EXCEPT ![run'[r].session] = log'[run'[r].session]]
    BY <2>2, <2>3, <2>4
  <2>7. run'[r].at # "idle"
    BY <1>2
  <2> QED
    BY <2>1, <2>2, <2>5, <2>6, <2>7, KeptIsEnough
<1>3. ASSUME NEW r \in RunIds, RegisterInstance(r)
      PROVE  HistInv'
  <2>1. At(r) = "read"
    BY <1>3 DEF RegisterInstance
  <2> QED
    BY <1>2, <1>3, <2>1, RegisterKept, RegisterEffect
<1>4. ASSUME NEW r \in RunIds, ResolveFails(r)
      PROVE  HistInv'
  <2>1. At(r) = "registered"
    BY <1>4 DEF ResolveFails
  <2> QED
    BY <1>2, <1>4, <2>1, ResolveFailsKept, ResolveFailsEffect
<1>5. ASSUME NEW r \in RunIds, TurnStep(r)
      PROVE  HistInv'
  <2>1. Alters(r) /\ At(r) \in Registered /\ run'[r].at \in Registered
    BY <1>5, TurnStepEffect DEF TurnEffect, Alters
  <2>2. At(r) \notin {"idle", "over", "lost"} /\ run'[r].at # "idle"
    BY <2>1 DEF Registered, InTurn
  <2> QED
    BY <1>2, <1>5, <2>1, <2>2, TurnStepKept
<1>6. ASSUME NEW r \in RunIds, Return(r)
      PROVE  HistInv'
  <2>1. At(r) = "finish"
    BY <1>6 DEF Return
  <2> QED
    BY <1>2, <1>6, <2>1, ReturnKept, ReturnEffect
<1>7. ASSUME NEW r \in RunIds, Leave(r)
      PROVE  HistInv'
  <2>1. At(r) = "returned"
    BY <1>7 DEF Leave
  <2> QED
    BY <1>2, <1>7, <2>1, LeaveKept, LeaveEffect
<1>8. ASSUME UNCHANGED <<log, status, run, shared>>
      PROVE  HistInv'
  <2>1. log' = log /\ status' = status /\ run' = run /\ shared' = shared
    BY <1>8
  <2> QED
    BY <2>1 DEF HistInv, Rebuilt, Session, Numbered, At, Mixed
<1>9. ASSUME NEW s \in Sessions, Cancel(s)
      PROVE  HistInv'
  BY <1>8, <1>9 DEF Cancel
<1>10. ASSUME Crash
       PROVE  HistInv'
  BY <1>10, CrashKeepsHist
<1>11. ASSUME UNCHANGED vars
       PROVE  HistInv'
  BY <1>8, <1>11 DEF vars
<1> QED
  BY <1>1, <1>3, <1>4, <1>5, <1>6, <1>7, <1>9, <1>10, <1>11, StepCases

LEMMA InitHist == Init => HistInv
<1> SUFFICES ASSUME Init PROVE HistInv
  OBVIOUS
<1>1. log = [s \in Sessions |-> <<>>]
  BY DEF Init
<1>2. LogFine(<<>>) /\ LogIds(<<>>) = {}
  <2>1. ToSet(<<>>) = {}
    BY DEF ToSet
  <2>2. DOMAIN <<>> = {} /\ <<>> \in Seq(Events) /\ <<>> \in Seq(Msgs)
    OBVIOUS
  <2>3. RebuildMessages(<<>>) = <<>>
    BY RebuildEmpty
  <2>4. \A I : Known(<<>>, I) /\ Waits(<<>>, I)
    BY <2>2 DEF Known, Waits
  <2>5. LogIds(<<>>) = {}
    BY <2>1 DEF LogIds
  <2> QED
    BY <2>2, <2>3, <2>4, <2>5 DEF LogFine
<1>3. \A s \in Sessions : LogFine(log[s]) /\ LogIds(log[s]) = {} /\ log[s] = <<>>
  BY <1>1, <1>2
<1>4. ASSUME NEW r \in RunIds
      PROVE  /\ \A h : Placed(run[r], h) /\ Shown(run[r], h)
             /\ run[r].issued = 0
  <2>1. run[r].at = "idle"
    BY InitIsGood DEF At
  <2>2. run[r] = Ended([session |-> Main], "idle")
    BY DEF Init
  <2>3. run[r].issued = 0
    BY <2>2 DEF Ended, Fresh
  <2>4. run[r].at \notin InTurn \cup {"read", "registered"}
    BY <2>1 DEF InTurn
  <2> QED
    BY <2>3, <2>4, AsideIsFree
<1>5. \A r \in RunIds : Numbered(r)
  BY <1>3, <1>4 DEF Numbered
<1> QED
  BY <1>1, <1>3, <1>4, <1>5 DEF HistInv

(* A log in which all calls are answered leaves none waiting.              *)
LEMMA HistMeans ==
  ASSUME HistInv, RunsGood
  PROVE  HistoryRebuilds
<1>1. ASSUME NEW s \in Sessions, ~Mixed(s),
             CallsIn(s, "tool_call") = CallsIn(s, "tool_result")
      PROVE  WellFormed(RebuildMessages(log[s]))
  <2> DEFINE l == log[s]
  <2>1. LogFine(l)
    BY <1>1 DEF HistInv
  <2>2. IdsOf(l, "tool_call") = IdsOf(l, "tool_result")
    BY <1>1 DEF CallsIn, IdsOf
  <2> HIDE DEF l
  <2>3. Open(l) = {}
    BY <2>2 DEF Open
  <2>4. WellFormed(RebuildMessages(l))
    BY <2>1, <2>3, WaitsForNothing DEF LogFine
  <2> QED
    BY <2>4 DEF l
<1>2. ASSUME NEW r \in RunIds \ JobRuns, At(r) = "ask", ~Mixed(Session(r))
      PROVE  Flat(run[r].prompt) = Flat(RebuildMessages(log[Session(r)]))
  <2>1. Shown(run[r], Rebuilt(Session(r)))
    BY <1>2 DEF HistInv
  <2>2. Waiting(run[r])
    BY <1>2 DEF Waiting, At
  <2> QED
    BY <2>1, <2>2 DEF Shown, Rebuilt
<1> QED
  BY <1>1, <1>2 DEF HistoryRebuilds, AnsweredLogRebuilds, ResumeSeesWhatModelSaw

(* A log whose calls are all answered rebuilds to a conversation a provider *)
(* accepts, and a run that asks the model has in its prompt what a resume   *)
(* would rebuild (convert.go, RebuildMessages; runtime.go, Run), in every   *)
(* session no two runs were in at a time, whatever goes on in the others.   *)
THEOREM HistoriesRebuild == Spec => []HistoryRebuilds
<1> DEFINE Inv == HistInv /\ RunsGood /\ StatusKept /\ TableTrue
<1>1. Init => Inv
  BY InitHist, InitIsGood, InitKeepsStatus, InitTableTrue
<1>2. Inv /\ [Next]_vars => Inv'
  BY StepKeepsHist, RunsStayGood, StatusStaysKept, TableStaysTrue
<1>3. Inv => HistoryRebuilds
  BY HistMeans
<1> QED
  BY <1>1, <1>2, <1>3, PTL DEF Spec
-----------------------------------------------------------------------------
(* Repetitions: how often a turn has done the same step.                   *)

(* The steps from a to b that g stands for.                                *)
Of(sigs, a, b, g) == {i \in a .. b : sigs[i] = g}

(* No window so far was looping.                                           *)
Varied(sigs) ==
  \A m \in LoopWindow .. Len(sigs), g \in Signatures :
    Cardinality(Of(sigs, m - LoopWindow + 1, m, g)) <= LoopRepeats

LEMMA OfIsFinite ==
  ASSUME NEW sigs, NEW g, NEW a \in Int, NEW b \in Int
  PROVE  IsFiniteSet(Of(sigs, a, b, g)) /\ Cardinality(Of(sigs, a, b, g)) \in Nat
<1>1. IsFiniteSet(a .. b)
  BY FS_Interval
<1>2. Of(sigs, a, b, g) \in SUBSET (a .. b)
  BY DEF Of
<1>3. IsFiniteSet(Of(sigs, a, b, g))
  BY <1>1, <1>2, FS_Subset
<1> QED
  BY <1>3, FS_CardinalityType

(* isLooping counts the last window.                                       *)
LEMMA LastWindow ==
  ASSUME NEW q \in Seq(Signatures), Len(q) >= LoopWindow, ~IsLooping(q), NEW g \in Signatures
  PROVE  Cardinality(Of(q, Len(q) - LoopWindow + 1, Len(q), g)) <= LoopRepeats
<1> DEFINE n == Len(q)
           w == LoopWindow
           d == n - w
           win == SubSeq(q, d + 1, n)
           S == Of(q, d + 1, n, g)
           T == {i \in DOMAIN win : win[i] = g}
<1>1. n \in Nat /\ w \in Nat \ {0} /\ LoopRepeats \in Nat /\ d \in Nat /\ n = d + w /\ DOMAIN q = 1 .. n
  BY RunAssumption
<1>2. win \in Seq(Signatures) /\ DOMAIN win = 1 .. w /\ \A i \in 1 .. w : win[i] = q[d + i]
  <2> HIDE DEF d, n, w
  <2>1. \A i \in d + 1 .. n : q[i] \in Signatures
    <3>1. \A i \in d + 1 .. n : i \in 1 .. n
      BY <1>1
    <3> QED
      BY <1>1, <3>1
  <2>2. /\ win \in Seq(Signatures)
        /\ Len(win) = IF d + 1 <= n THEN n - (d + 1) + 1 ELSE 0
        /\ \A i \in 1 .. n - (d + 1) + 1 : win[i] = q[d + 1 + i - 1]
    BY <1>1, <2>1, SubSeqProperties
  <2>3. (IF d + 1 <= n THEN n - (d + 1) + 1 ELSE 0) = w /\ n - (d + 1) + 1 = w
    BY <1>1
  <2>4. \A i \in 1 .. w : d + 1 + i - 1 = d + i
    BY <1>1
  <2>5. Len(win) = w
    BY <2>2, <2>3
  <2> HIDE DEF win
  <2>6. DOMAIN win = 1 .. w
    BY <2>2, <2>5
  <2> QED
    BY <2>2, <2>3, <2>4, <2>6
<1>3. ~\E x \in ToSet(win) : Count(win, x) > LoopRepeats
  BY DEF IsLooping
<1> HIDE DEF n, w, d, win
<1>4. IsFiniteSet(T) /\ Cardinality(T) \in Nat
  <2>1. IsFiniteSet(1 .. w)
    BY <1>1, FS_Interval
  <2>2. T \in SUBSET (1 .. w)
    BY <1>2
  <2>3. IsFiniteSet(T)
    BY <2>1, <2>2, FS_Subset
  <2> QED
    BY <2>3, FS_CardinalityType
<1>5. Cardinality(T) <= LoopRepeats
  <2>1. CASE g \in ToSet(win)
    <3>1. ~(Cardinality(T) > LoopRepeats)
      BY <1>3, <2>1 DEF Count
    <3> QED
      BY <1>1, <1>4, <3>1
  <2>2. CASE g \notin ToSet(win)
    <3>1. T = {}
      BY <2>2 DEF ToSet
    <3>2. Cardinality(T) = 0
      BY <3>1, FS_EmptySet
    <3> QED
      BY <1>1, <3>2
  <2> QED
    BY <2>1, <2>2
<1>6. Cardinality(S) <= Cardinality(T)
  <2> DEFINE shift == [i \in S |-> i - d]
  <2>1. ASSUME NEW i \in S PROVE i \in Int /\ i - d \in T
    <3>1. i \in d + 1 .. n /\ q[i] = g
      BY DEF Of
    <3>2. i - d \in 1 .. w /\ d + (i - d) = i /\ i \in Int
      BY <1>1, <3>1
    <3> QED
      BY <1>2, <3>1, <3>2
  <2> HIDE DEF S, T
  <2>2. shift \in [S -> T]
    BY <2>1
  <2>3. ASSUME NEW i \in S, NEW j \in S, shift[i] = shift[j] PROVE i = j
    <3>1. i - d = j - d /\ i \in Int /\ j \in Int
      BY <2>1, <2>3
    <3> QED
      BY <1>1, <3>1
  <2> HIDE DEF shift
  <2>4. shift \in Injection(S, T)
    BY <2>2, <2>3 DEF Injection, IsInjective
  <2> QED
    BY <1>4, <2>4, FS_Injection
<1>7. Cardinality(S) \in Nat
  <2>1. d + 1 \in Int /\ n \in Int
    BY <1>1
  <2> QED
    BY <2>1, OfIsFinite
<1> HIDE DEF S, T
<1>8. Cardinality(S) <= LoopRepeats
  BY <1>1, <1>4, <1>5, <1>6, <1>7
<1>9. S = Of(q, n - w + 1, n, g)
  BY DEF S, d
<1> QED
  BY <1>8, <1>9 DEF n, w

LEMMA VariedAppend ==
  ASSUME NEW l \in Seq(Signatures), Varied(l), NEW x \in Signatures, ~IsLooping(Append(l, x))
  PROVE  Varied(Append(l, x))
<1> DEFINE n == Len(l)
           q == Append(l, x)
           w == LoopWindow
<1>1. /\ q \in Seq(Signatures) /\ n \in Nat /\ Len(q) = n + 1 /\ w \in Nat \ {0}
      /\ \A i \in 1 .. n : q[i] = l[i]
  BY RunAssumption
<1> HIDE DEF q
<1> SUFFICES ASSUME NEW m \in w .. Len(q), NEW g \in Signatures
             PROVE  Cardinality(Of(q, m - w + 1, m, g)) <= LoopRepeats
  BY DEF Varied, q
<1>2. CASE m = Len(q)
  <2>1. Len(q) >= w
    BY <1>1, <1>2
  <2>2. Cardinality(Of(q, Len(q) - w + 1, Len(q), g)) <= LoopRepeats
    BY <1>1, <2>1, LastWindow DEF q
  <2> QED
    BY <1>2, <2>2
<1>3. CASE m # Len(q)
  <2> HIDE DEF n, w
  <2>1. m \in w .. n /\ \A i \in m - w + 1 .. m : i \in 1 .. n
    BY <1>1, <1>3
  <2>2. Of(q, m - w + 1, m, g) = Of(l, m - w + 1, m, g)
    BY <1>1, <2>1 DEF Of
  <2>3. Cardinality(Of(l, m - w + 1, m, g)) <= LoopRepeats
    BY <2>1 DEF Varied, n, w
  <2> QED
    BY <2>2, <2>3
<1> QED
  BY <1>2, <1>3

(* One window more is one more in the quotient.                            *)
LEMMA NextWindow ==
  ASSUME NEW w \in Nat \ {0}, NEW m \in Nat, m >= w
  PROVE  /\ (m + w - 1) \div w = ((m - w) + w - 1) \div w + 1
         /\ ((m - w) + w - 1) \div w \in Nat
<1> DEFINE x == m + w - 1
           y == (m - w) + w - 1
           a == x \div w
           b == y \div w
           r == x % w
           s == y % w
<1>1. x \in Nat /\ y \in Nat /\ x = y + w
  OBVIOUS
<1> HIDE DEF x, y
<1>2. a \in Nat /\ r \in 0 .. w - 1 /\ x = w * a + r
  BY <1>1
<1>3. b \in Nat /\ s \in 0 .. w - 1 /\ y = w * b + s
  BY <1>1
<1> HIDE DEF a, b, r, s
<1>4. ~(a > b + 1)
  <2> SUFFICES ASSUME a > b + 1 PROVE FALSE
    OBVIOUS
  <2>1. PICK k \in Nat : a = b + 2 + k
    <3>1. a - b - 2 \in Nat /\ a = b + 2 + (a - b - 2)
      BY <1>2, <1>3
    <3> QED
      BY <3>1
  <2>2. w * a = w * b + 2 * w + w * k /\ w * k >= 0
    BY <1>3, <2>1
  <2>3. w * a \in Nat /\ w * b \in Nat /\ w * k \in Nat
    BY <1>2, <1>3
  <2> QED
    BY <1>1, <1>2, <1>3, <2>2, <2>3
<1>5. ~(a < b + 1)
  <2> SUFFICES ASSUME a < b + 1 PROVE FALSE
    OBVIOUS
  <2>1. PICK k \in Nat : b = a + k
    <3>1. b - a \in Nat /\ b = a + (b - a)
      BY <1>2, <1>3
    <3> QED
      BY <3>1
  <2>2. w * b = w * a + w * k /\ w * k >= 0
    BY <1>2, <2>1
  <2>3. w * a \in Nat /\ w * b \in Nat /\ w * k \in Nat
    BY <1>2, <1>3
  <2> QED
    BY <1>1, <1>2, <1>3, <2>2, <2>3
<1>6. a = b + 1
  BY <1>2, <1>3, <1>4, <1>5
<1> QED
  BY <1>3, <1>6 DEF a, b, x, y

LEMMA QuotientOfMore ==
  ASSUME NEW w \in Nat \ {0}, NEW m \in Nat
  PROVE  /\ (m + w - 1) \div w \in Nat
         /\ m >= 1 => (m + w - 1) \div w >= 1
<1> DEFINE x == m + w - 1
           a == x \div w
           r == x % w
<1>1. x \in Nat /\ (m >= 1 => x >= w)
  OBVIOUS
<1> HIDE DEF x
<1>2. a \in Nat /\ r \in 0 .. w - 1 /\ x = w * a + r
  BY <1>1
<1> HIDE DEF a, r
<1>3. ASSUME m >= 1 PROVE a >= 1
  <2>1. a = 0 => w * a = 0
    OBVIOUS
  <2>2. a # 0
    BY <1>1, <1>2, <1>3, <2>1
  <2> QED
    BY <1>2, <2>2
<1> QED
  BY <1>2, <1>3 DEF a, x

(* Windows without a loop, one after the other, bound the whole.           *)
LEMMA Spread ==
  ASSUME NEW l \in Seq(Signatures), Varied(l), Len(l) >= LoopWindow, NEW g \in Signatures
  PROVE  Count(l, g) <= LoopRepeats * ((Len(l) + LoopWindow - 1) \div LoopWindow)
<1> DEFINE n == Len(l)
           w == LoopWindow
           K == LoopRepeats
           c(a, b) == Cardinality(Of(l, a, b, g))
           quo(m) == (m + w - 1) \div w
           Bad == {m \in 0 .. n : ~(c(1, m) <= K * quo(m))}
<1>1. n \in Nat /\ w \in Nat \ {0} /\ K \in Nat /\ n >= w /\ DOMAIN l = 1 .. n
  BY RunAssumption
<1>2. \A m \in w .. n : c(m - w + 1, m) <= K
  BY DEF Varied
<1> HIDE DEF n, w, K
<1>3. \A m \in Nat : quo(m) \in Nat /\ (m >= 1 => quo(m) >= 1)
  BY <1>1, QuotientOfMore
<1>4. \A a, b \in Int : IsFiniteSet(Of(l, a, b, g)) /\ c(a, b) \in Nat
  BY OfIsFinite
<1>5. ASSUME Bad # {} PROVE FALSE
  <2>1. Bad \in SUBSET Nat
    BY <1>1
  <2>2. PICK m \in Bad : \A k \in Bad : m <= k
    BY <1>5, <2>1, LeastExists
  <2>3. m \in Nat /\ m <= n /\ ~(c(1, m) <= K * quo(m)) /\ \A k \in 0 .. m - 1 : c(1, k) <= K * quo(k)
    <3>1. m \in 0 .. n /\ ~(c(1, m) <= K * quo(m))
      BY <2>2
    <3>2. ASSUME NEW k \in 0 .. m - 1 PROVE c(1, k) <= K * quo(k)
      <4>1. k \in 0 .. n /\ ~(m <= k)
        BY <1>1, <3>1, <3>2
      <4> QED
        BY <2>2, <4>1
    <3> QED
      BY <1>1, <3>1, <3>2
  <2> HIDE DEF Bad
  <2> DEFINE q == quo(m)
             cm == c(1, m)
  <2>4. q \in Nat /\ cm \in Nat /\ (m >= 1 => q >= 1) /\ ~(cm <= K * q) /\ K * q \in Nat
    <3>1. q \in Nat /\ (m >= 1 => q >= 1)
      BY <1>3, <2>3
    <3>2. cm \in Nat /\ ~(cm <= K * q)
      <4>1. 1 \in Int /\ m \in Int
        BY <2>3
      <4> QED
        BY <1>4, <2>3, <4>1
    <3> HIDE DEF q
    <3>3. K * q \in Nat
      BY <1>1, <3>1
    <3> QED
      BY <3>1, <3>2, <3>3
  <2>5. CASE m = 0
    <3>1. Of(l, 1, m, g) = {}
      BY <2>5 DEF Of
    <3>2. cm = 0
      BY <3>1, FS_EmptySet
    <3> HIDE DEF q, cm
    <3> QED
      BY <2>4, <3>2
  <2>6. CASE m >= 1 /\ m < w
    <3>1. Of(l, 1, m, g) \in SUBSET Of(l, 1, w, g)
      <4>1. \A i \in 1 .. m : i \in 1 .. w
        BY <1>1, <2>3, <2>6
      <4> QED
        BY <4>1 DEF Of
    <3>2. 1 \in Int /\ w \in Int /\ w - w + 1 = 1 /\ w \in w .. n
      BY <1>1
    <3>3. cm <= c(1, w)
      BY <1>4, <3>1, <3>2, FS_Subset
    <3>4. c(1, w) <= K /\ c(1, w) \in Nat
      BY <1>2, <1>4, <3>2
    <3> DEFINE cw == c(1, w)
    <3>5. cm <= cw /\ cw <= K /\ cw \in Nat
      BY <3>3, <3>4
    <3> HIDE DEF q, cm, cw
    <3>6. PICK p \in Nat : q = 1 + p
      <4>1. q - 1 \in Nat /\ q = 1 + (q - 1)
        BY <2>4, <2>6
      <4> QED
        BY <4>1
    <3>7. K * q = K + K * p /\ K * p \in Nat
      BY <1>1, <3>6
    <3> QED
      BY <1>1, <2>4, <3>5, <3>7
  <2>7. CASE m >= w
    <3> DEFINE d == m - w
               S == Of(l, 1, d, g)
               T == Of(l, d + 1, m, g)
               b == quo(d)
    <3>1. d \in Nat /\ d \in 0 .. m - 1 /\ m = d + w /\ m \in w .. n
      BY <1>1, <2>3, <2>7
    <3>2. q = b + 1 /\ b \in Nat
      BY <1>1, <2>3, <2>7, NextWindow
    <3>3. c(1, d) <= K * b /\ c(d + 1, m) <= K
      BY <1>2, <2>3, <3>1
    <3> HIDE DEF d
    <3>4. Of(l, 1, m, g) = S \cup T
      <4>1. 1 .. m = (1 .. d) \cup (d + 1 .. m)
        BY <1>1, <3>1
      <4> QED
        BY <4>1 DEF Of
    <3>5. /\ IsFiniteSet(S) /\ IsFiniteSet(T)
          /\ Cardinality(S) \in Nat /\ Cardinality(T) \in Nat
      <4>1. 1 \in Int /\ d \in Int /\ d + 1 \in Int /\ m \in Int
        BY <2>3, <3>1
      <4> QED
        BY <1>4, <4>1
    <3>6. Cardinality(S) <= K * b /\ Cardinality(T) <= K
      BY <3>3
    <3> HIDE DEF S, T, b, q
    <3>7. cm = Cardinality(S) + Cardinality(T) - Cardinality(S \cap T)
      BY <3>4, <3>5, FS_Union
    <3>8. Cardinality(S \cap T) \in Nat
      <4>1. (S \cap T) \in SUBSET S
        OBVIOUS
      <4>2. IsFiniteSet(S \cap T)
        BY <3>5, <4>1, FS_Subset
      <4> QED
        BY <4>2, FS_CardinalityType
    <3> DEFINE cs == Cardinality(S)
               ct == Cardinality(T)
               cu == Cardinality(S \cap T)
    <3>9. /\ cm = cs + ct - cu /\ cs \in Nat /\ ct \in Nat /\ cu \in Nat
          /\ cs <= K * b /\ ct <= K
      BY <3>5, <3>6, <3>7, <3>8
    <3> HIDE DEF cm, cs, ct, cu
    <3>10. K * q = K * b + K /\ K * b \in Nat
      BY <1>1, <3>2
    <3> QED
      BY <1>1, <2>4, <3>9, <3>10
  <2> QED
    BY <1>1, <2>3, <2>5, <2>6, <2>7
<1>6. c(1, n) <= K * quo(n)
  <2>1. n \in 0 .. n
    BY <1>1
  <2> QED
    BY <1>5, <2>1
<1>7. Count(l, g) = c(1, n)
  BY <1>1 DEF Count, Of
<1> QED
  BY <1>6, <1>7 DEF n, w, K

Going == InTurn \cup {"read", "registered"}

(* A goroutine that goes on has not been looping.                          *)
Tame(state) ==
  state.sigs \in Seq(Signatures) /\ (state.at \in Going => Varied(state.sigs))

AllTame == \A r \in RunIds : Tame(run[r])

LEMMA EmptyIsTame == \A state : state.sigs = <<>> => Tame(state)
<1>1. <<>> \in Seq(Signatures) /\ Len(<<>>) = 0
  OBVIOUS
<1>2. LoopWindow .. 0 = {}
  BY RunAssumption
<1>3. Varied(<<>>)
  BY <1>1, <1>2 DEF Varied
<1> QED
  BY <1>1, <1>3 DEF Tame

LEMMA FreshIsTame ==
  /\ \A s, prompt : Tame(Fresh(s, prompt))
  /\ \A state, phase : Tame(Ended(state, phase))
<1>1. \A s, prompt : Fresh(s, prompt).sigs = <<>>
  BY DEF Fresh
<1>2. \A state, phase : Ended(state, phase).sigs = <<>>
  BY DEF Ended, Fresh
<1> QED
  BY <1>1, <1>2, EmptyIsTame

(* Steps that leave the steps of a turn as they are.                       *)
LEMMA MovesAreTame ==
  ASSUME AllTame, RunsGood, NEW r \in RunIds,
         \/ RegisterInstance(r) \/ ResolveFails(r) \/ Prompt(r) \/ Ask(r)
         \/ StreamFails(r) \/ \E text \in BOOLEAN : StreamEnds(r, text)
         \/ \E t \in Tools : StreamCall(r, t)
         \/ RequestApproval(r) \/ Return(r)
  PROVE  Tame(run'[r])
<1> DEFINE old == run[r]
           new == run'[r]
<1>1. Shaped(old) /\ Tame(old)
  BY DEF RunsGood, Good, AllTame
<1>2. ASSUME NEW phase, Goto(r, phase) PROVE new.sigs = old.sigs /\ new.at = phase
  <2>1. new = [old EXCEPT !.at = phase]
    BY <1>2 DEF Goto, RunsGood
  <2> HIDE DEF old, new
  <2> QED
    BY <1>1, <2>1 DEF Shaped
<1>3. ASSUME NEW reason, Stop(r, reason) PROVE new.sigs = old.sigs /\ new.at = "finish"
  <2>1. new = [old EXCEPT !.at = "finish", !.reason = reason]
    BY <1>3 DEF Stop, RunsGood
  <2> HIDE DEF old, new
  <2> QED
    BY <1>1, <2>1 DEF Shaped
<1>4. ASSUME new.sigs = old.sigs, new.at \in Going => old.at \in Going
      PROVE  Tame(new)
  BY <1>1, <1>4 DEF Tame
<1>5. CASE RegisterInstance(r)
  BY <1>2, <1>4, <1>5 DEF RegisterInstance, At, Going
<1>6. CASE ResolveFails(r)
  <2>1. new = [old EXCEPT !.at = "returned", !.reason = "unresolved"]
    BY <1>6 DEF ResolveFails, RunsGood
  <2> HIDE DEF old, new
  <2>2. new.sigs = old.sigs /\ new.at = "returned"
    BY <1>1, <2>1 DEF Shaped
  <2>3. new.at \notin Going
    BY <2>2 DEF Going, InTurn
  <2> QED
    BY <1>4, <2>2, <2>3 DEF old, new
<1>7. CASE Prompt(r)
  <2> DEFINE msg == Append(old.prompt, Message("user", <<>>))
  <2>1. new = [old EXCEPT !.at = "ask", !.prompt = msg] /\ old.at = "registered"
    BY <1>7 DEF Prompt, RunsGood, At
  <2> HIDE DEF old, new, msg
  <2>2. new.sigs = old.sigs
    BY <1>1, <2>1 DEF Shaped
  <2>3. old.at \in Going
    BY <2>1 DEF Going
  <2> QED
    BY <1>4, <2>2, <2>3 DEF old, new
<1>8. CASE Ask(r)
  <2>1. old.at \in Going
    BY <1>8 DEF Ask, At, Going, InTurn
  <2>2. CASE Stop(r, "cancelled") \/ Stop(r, "error")
    BY <1>3, <1>4, <2>1, <2>2
  <2>3. CASE run' = [run EXCEPT ![r].at = "stream", ![r].pending = <<>>, ![r].answered = 0]
    <3>1. new = [old EXCEPT !.at = "stream", !.pending = <<>>, !.answered = 0]
      BY <2>3 DEF RunsGood
    <3> HIDE DEF old, new
    <3>2. new.sigs = old.sigs
      BY <1>1, <3>1 DEF Shaped
    <3> QED
      BY <1>4, <2>1, <3>2 DEF old, new
  <2> QED
    BY <1>8, <2>2, <2>3 DEF Ask
<1>9. CASE StreamFails(r)
  BY <1>3, <1>4, <1>9 DEF StreamFails, At, Going, InTurn
<1>10. ASSUME NEW text \in BOOLEAN, StreamEnds(r, text)
       PROVE  Tame(new)
  <2>1. old.at \in Going
    BY <1>10 DEF StreamEnds, At, Going, InTurn
  <2>2. CASE Stop(r, "token_budget") \/ Stop(r, "degenerate_output")
    BY <1>3, <1>4, <2>1, <2>2
  <2> DEFINE said == old.said \/ text
             msg == Append(old.prompt, Message("assistant", CallsOf(old)))
  <2>3. CASE run' = [run EXCEPT ![r].at = "finish", ![r].reason = "end_turn",
                                ![r].said = @ \/ text]
    <3>1. new = [old EXCEPT !.at = "finish", !.reason = "end_turn", !.said = said]
      BY <2>3 DEF RunsGood
    <3> HIDE DEF old, new, said
    <3>2. new.sigs = old.sigs
      BY <1>1, <3>1 DEF Shaped
    <3> QED
      BY <1>4, <2>1, <3>2 DEF old, new
  <2>4. CASE run' = [run EXCEPT ![r].at = "tools", ![r].said = @ \/ text,
                       ![r].prompt = Append(@, Message("assistant", CallsOf(run[r])))]
    <3>1. new = [old EXCEPT !.at = "tools", !.said = said, !.prompt = msg]
      BY <2>4 DEF RunsGood
    <3> HIDE DEF old, new, said, msg
    <3>2. new.sigs = old.sigs
      BY <1>1, <3>1 DEF Shaped
    <3> QED
      BY <1>4, <2>1, <3>2 DEF old, new
  <2> QED
    BY <1>10, <2>2, <2>3, <2>4 DEF StreamEnds
<1>11. ASSUME NEW t \in Tools, StreamCall(r, t)
       PROVE  Tame(new)
  <2> DEFINE call == [id |-> <<r, old.issued + 1>>, tool |-> t]
             p == Append(old.pending, call)
  <2>1. new = [old EXCEPT !.pending = p, !.issued = @ + 1] /\ old.at \in Going
    BY <1>11 DEF StreamCall, RunsGood, At, Going, InTurn
  <2> HIDE DEF old, new, p
  <2>2. new.sigs = old.sigs
    BY <1>1, <2>1 DEF Shaped
  <2> QED
    BY <1>4, <2>1, <2>2 DEF old, new
<1>12. CASE RequestApproval(r)
  BY <1>2, <1>4, <1>12 DEF RequestApproval, At, Going, InTurn
<1>13. CASE Return(r)
  <2>1. new.sigs = old.sigs /\ new.at = "returned"
    BY <1>2, <1>13 DEF Return
  <2> QED
    BY <1>4, <2>1 DEF Going, InTurn
<1> QED
  BY <1>5, <1>6, <1>7, <1>8, <1>9, <1>10, <1>11, <1>12, <1>13

(* A batch that is complete is a step more, and isLooping looks at it.     *)
LEMMA ResultIsTame ==
  ASSUME NEW st, Shaped(st), Tame(st), st.at \in Going,
         NEW t \in Tools, NEW failed \in BOOLEAN, NEW sig \in Signatures
  PROVE  Tame(AfterResult(Tally(st, t, failed), sig))
<1> DEFINE ta == Tally(st, t, failed)
           new == AfterResult(ta, sig)
<1>1. ta.sigs = st.sigs /\ DOMAIN ta = DOMAIN st
  BY DEF Tally, Shaped
<1>2. "at" \in DOMAIN st /\ "sigs" \in DOMAIN st /\ "reason" \in DOMAIN st
      /\ "prompt" \in DOMAIN st /\ "steps" \in DOMAIN st
  BY DEF Shaped
<1>3. st.sigs \in Seq(Signatures) /\ Varied(st.sigs)
  BY DEF Tame
<1> HIDE DEF ta
<1>4. CASE ta.resets >= MaxResets
  <2>1. new = [ta EXCEPT !.at = "finish", !.reason = "consecutive_errors"]
    BY <1>4 DEF AfterResult
  <2> HIDE DEF new, ta
  <2>2. new.sigs = st.sigs
    BY <1>1, <1>2, <2>1
  <2>3. Tame(new)
    BY <1>3, <2>2 DEF Tame
  <2> QED
    BY <2>3 DEF new, ta
<1>5. CASE ~(ta.resets >= MaxResets) /\ ta.answered < Len(ta.pending)
  <2>1. new = [ta EXCEPT !.at = "tools"]
    BY <1>5 DEF AfterResult
  <2> HIDE DEF new, ta
  <2>2. new.sigs = st.sigs
    BY <1>1, <1>2, <2>1
  <2>3. Tame(new)
    BY <1>3, <2>2 DEF Tame
  <2> QED
    BY <2>3 DEF new, ta
<1>6. CASE ~(ta.resets >= MaxResets) /\ ~(ta.answered < Len(ta.pending))
  <2> DEFINE p == Append(ta.prompt, Message("tool", CallsOf(ta)))
             s == Append(ta.sigs, sig)
             x == [ta EXCEPT !.sigs = s, !.steps = @ + 1, !.prompt = p]
  <2>1. new = NextStep(ta, sig)
    BY <1>6 DEF AfterResult
  <2>2. new = IF IsLooping(x.sigs) THEN [x EXCEPT !.at = "finish", !.reason = "loop_detected"]
              ELSE IF x.steps = MaxIterations
              THEN [x EXCEPT !.at = "finish", !.reason = "max_iterations"]
              ELSE [x EXCEPT !.at = "ask"]
    BY <2>1 DEF NextStep
  <2>3. s = Append(st.sigs, sig) /\ s \in Seq(Signatures)
    BY <1>1, <1>3
  <2>4. ~IsLooping(s) => Varied(s)
    BY <1>3, <2>3, VariedAppend
  <2> HIDE DEF p, s
  <2>5. x.sigs = s /\ DOMAIN x = DOMAIN st
    BY <1>1, <1>2
  <2> HIDE DEF x, new
  <2>6. ASSUME new = [x EXCEPT !.at = "ask"]
        PROVE  new.sigs = s
    BY <1>2, <2>5, <2>6
  <2>7. ASSUME NEW reason, new = [x EXCEPT !.at = "finish", !.reason = reason]
        PROVE  new.at = "finish" /\ new.sigs = s
    BY <1>2, <2>5, <2>7
  <2>8. CASE ~IsLooping(s)
    <3>1. new.sigs = s
      BY <2>2, <2>6, <2>7
    <3>2. Tame(new)
      BY <2>3, <2>4, <2>8, <3>1 DEF Tame
    <3> QED
      BY <3>2 DEF new, ta
  <2>9. CASE IsLooping(s)
    <3>1. new.sigs = s /\ new.at = "finish"
      BY <2>2, <2>5, <2>7, <2>9
    <3>2. new.at \notin Going
      BY <3>1 DEF Going, InTurn
    <3>3. Tame(new)
      BY <2>3, <3>1, <3>2 DEF Tame
    <3> QED
      BY <3>3 DEF new, ta
  <2> QED
    BY <2>8, <2>9
<1> QED
  BY <1>4, <1>5, <1>6 DEF ta

LEMMA RunsStayTame ==
  ASSUME AllTame, RunsGood, [Next]_vars
  PROVE  AllTame'
<1>1. ASSUME NEW r \in RunIds, run' = [run EXCEPT ![r] = run'[r]], Tame(run'[r])
      PROVE  AllTame'
  <2>1. \A q \in RunIds : q = r \/ run'[q] = run[q]
    BY <1>1 DEF RunsGood
  <2> QED
    BY <1>1, <2>1 DEF AllTame
<1>2. ASSUME NEW r \in RunIds, Begin(r)
      PROVE  AllTame'
  <2>1. run' = [run EXCEPT ![r] = run'[r]]
    BY <1>2, BeginEffect
  <2>2. \E s, prompt : run'[r] = Fresh(s, prompt)
    BY <1>2 DEF Begin, RunInMain, Continue, Create, RunsGood
  <2> QED
    BY <1>1, <2>1, <2>2, FreshIsTame
<1>3. ASSUME NEW r \in RunIds, RegisterInstance(r) \/ ResolveFails(r) \/ Return(r)
      PROVE  AllTame'
  <2>1. run' = [run EXCEPT ![r] = run'[r]]
    BY <1>3, RegisterEffect, ResolveFailsEffect, ReturnEffect DEF Alters
  <2> QED
    BY <1>1, <1>3, <2>1, MovesAreTame
<1>4. ASSUME NEW r \in RunIds, Leave(r)
      PROVE  AllTame'
  <2>1. run' = [run EXCEPT ![r] = run'[r]] /\ run'[r] = Ended(run[r], "over")
    BY <1>4 DEF Leave, RunsGood
  <2> QED
    BY <1>1, <2>1, FreshIsTame
<1>5. ASSUME NEW r \in RunIds, NEW failed \in BOOLEAN, Result(r, failed),
             At(r) \in {"tools", "approval"}
      PROVE  Tame(run'[r])
  <2> DEFINE old == run[r]
             t == old.pending[old.answered + 1].tool
  <2>1. PICK sig \in Signatures :
          run' = [run EXCEPT ![r] = AfterResult(Tally(@, t, failed), sig)]
    BY <1>5 DEF Result
  <2>2. run'[r] = AfterResult(Tally(old, t, failed), sig)
    BY <2>1 DEF RunsGood
  <2>3. Shaped(old) /\ HasNext(old) /\ Tame(old) /\ old.at \in {"tools", "approval"}
    BY <1>5 DEF RunsGood, Good, AllTame, At
  <2> HIDE DEF old
  <2>4. t \in Tools
    <3>1. old.answered < Len(old.pending) /\ old.answered \in Nat /\ old.pending \in Seq(Call)
      BY <2>3 DEF HasNext, Shaped
    <3>2. old.answered + 1 \in 1 .. Len(old.pending)
      BY <3>1
    <3>3. old.pending[old.answered + 1] \in Call
      BY <3>1, <3>2
    <3> QED
      BY <3>3 DEF Call
  <2>5. old.at \in Going
    BY <2>3 DEF Going, InTurn
  <2> HIDE DEF t
  <2> QED
    BY <2>2, <2>3, <2>4, <2>5, ResultIsTame
<1>6. ASSUME NEW r \in RunIds, TurnStep(r)
      PROVE  AllTame'
  <2>1. run' = [run EXCEPT ![r] = run'[r]]
    BY <1>6, TurnStepEffect DEF TurnEffect
  <2>2. ASSUME NEW failed \in BOOLEAN, ExecuteTool(r, failed) \/ AnswerApproval(r, failed)
        PROVE  Tame(run'[r])
    BY <1>5, <2>2 DEF ExecuteTool, AnswerApproval
  <2>3. ASSUME ApprovalCancelled(r) PROVE Tame(run'[r])
    BY <1>5, <2>3 DEF ApprovalCancelled
  <2>4. Tame(run'[r])
    BY <1>6, <2>2, <2>3, MovesAreTame DEF TurnStep
  <2> QED
    BY <1>1, <2>1, <2>4
<1>7. ASSUME Crash PROVE AllTame'
  <2>1. \A r \in RunIds : run'[r] = run[r] \/ run'[r] = Ended(run[r], "lost")
    BY <1>7 DEF Crash
  <2> QED
    BY <2>1, FreshIsTame DEF AllTame
<1>8. ASSUME UNCHANGED run PROVE AllTame'
  BY <1>8 DEF AllTame
<1>9. ASSUME NEW s \in Sessions, Cancel(s) PROVE AllTame'
  BY <1>8, <1>9 DEF Cancel
<1>10. ASSUME UNCHANGED vars PROVE AllTame'
  BY <1>8, <1>10 DEF vars
<1> QED
  BY <1>2, <1>3, <1>4, <1>6, <1>7, <1>9, <1>10, StepCases

(* A turn that goes on past its first window has spent at most LoopRepeats *)
(* of every LoopWindow steps on any one step: isLooping looks at the last  *)
(* window only, after every step (loop.go:101, runtime.go:374).            *)
THEOREM RepetitionIsBounded == Spec => []RepetitionBounded
<1> DEFINE Inv == AllTame /\ RunsGood
<1>1. Init => Inv
  <2> SUFFICES ASSUME Init PROVE Inv
    OBVIOUS
  <2>1. \A r \in RunIds : run[r] = Ended([session |-> Main], "idle")
    BY DEF Init
  <2> QED
    BY <2>1, InitIsGood, FreshIsTame DEF AllTame
<1>2. Inv /\ [Next]_vars => Inv'
  BY RunsStayTame, RunsStayGood
<1>3. Inv => RepetitionBounded
  <2> SUFFICES ASSUME AllTame, NEW r \in RunIds, At(r) \in InTurn,
                      Len(run[r].sigs) >= LoopWindow, NEW sig \in Signatures
               PROVE  Count(run[r].sigs, sig) <=
                        LoopRepeats * ((Len(run[r].sigs) + LoopWindow - 1) \div LoopWindow)
    BY DEF RepetitionBounded
  <2> DEFINE l == run[r].sigs
  <2>1. l \in Seq(Signatures) /\ Varied(l) /\ Len(l) >= LoopWindow
    BY DEF AllTame, Tame, At, Going
  <2> HIDE DEF l
  <2>2. Count(l, sig) <= LoopRepeats * ((Len(l) + LoopWindow - 1) \div LoopWindow)
    BY <2>1, Spread
  <2> QED
    BY <2>2 DEF l
<1> QED
  BY <1>1, <1>2, <1>3, PTL DEF Spec
=============================================================================
