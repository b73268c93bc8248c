-------------------------- MODULE SessionStoreProofs --------------------------
(***************************************************************************)
(* Theorems about SessionStore, for any number of sessions, goroutines,    *)
(* calls and crashes.                                                      *)
(***************************************************************************)
EXTENDS SessionStore, TLAPS

-----------------------------------------------------------------------------
(* Typing.                                                                 *)

(* One goroutine moves, the others stay where they are. *)
Moves(t, r) ==
  /\ thread'[t] = r
  /\ \A u \in Threads \ {t} : thread'[u] = thread[u]

LEMMA OneMoves ==
  ASSUME TypeOK, NEW t \in Threads, NEW r \in Thread, thread' = [thread EXCEPT ![t] = r]
  PROVE  thread' \in [Threads -> Thread] /\ Moves(t, r)
BY DEF TypeOK, Moves

LEMMA RestTyped == Rest \in Thread
BY SessionAssumption DEF Rest, Thread, Phases, AllCalls, Closed

LEMMA NewMetaTyped ==
  ASSUME NEW kind \in {"", "main", "project"}, NEW parent \in Sids \cup {None}
  PROVE  NewMeta(kind, parent) \in Meta /\ NewMeta(kind, parent) # Torn
<1>1. NewMeta(kind, parent) \in Meta
  BY DEF NewMeta, Meta
<1> QED
  BY <1>1, TornAssumption

LEMMA UpdatedTyped ==
  ASSUME NEW r \in Thread, NEW m \in Meta, r.call = "child" => r.peer # None,
         r.call \in {"append", "child", "status", "cleanup", "patterns"}
  PROVE  Updated(r, m) \in Meta /\ Updated(r, m) # Torn
<1>1. Updated(r, m) \in Meta
  <2>1. CASE r.call = "append"
    <3>1. m.count \in Nat
      BY DEF Meta
    <3> DEFINE n == m.count + 1
    <3>2. n \in Nat
      BY <3>1
    <3>3. Updated(r, m) = [m EXCEPT !.count = n, !.fresh = TRUE]
      BY <2>1 DEF Updated
    <3> HIDE DEF n
    <3>4. [m EXCEPT !.count = n, !.fresh = TRUE] \in Meta
      BY <3>2 DEF Meta
    <3> QED
      BY <3>3, <3>4
  <2>2. CASE r.call = "child"
    <3>1. r.peer \in Sids
      BY <2>2 DEF Thread
    <3>2. [m EXCEPT !.children = m.children \cup {r.peer}, !.fresh = TRUE] \in Meta
      BY <3>1 DEF Meta
    <3> QED
      BY <2>2, <3>2 DEF Updated
  <2>3. CASE r.call = "status"
    <3>1. [m EXCEPT !.status = r.to, !.fresh = TRUE] \in Meta
      BY DEF Meta, Thread
    <3> QED
      BY <2>3, <3>1 DEF Updated
  <2>4. CASE r.call = "cleanup"
    <3>1. [m EXCEPT !.status = "completed", !.fresh = TRUE] \in Meta
      BY DEF Meta, Closed
    <3> QED
      BY <2>4, <3>1 DEF Updated
  <2>5. CASE r.call = "patterns"
    <3>1. [m EXCEPT !.patterns = r.grant] \in Meta
      BY DEF Meta, Thread
    <3> QED
      BY <2>5, <3>1 DEF Updated
  <2> QED
    BY <2>1, <2>2, <2>3, <2>4, <2>5
<1> QED
  BY <1>1, TornAssumption

-----------------------------------------------------------------------------
(* The inductive invariant.  What a goroutine does is said of its record.  *)

Updates == {"append", "child", "status", "patterns", "cleanup"}
Sole    == {"status", "patterns", "cleanup", "create", "project"}

Working(r) == r.at \notin {"idle", "sweep"}
Sees(r, s) == Working(r) /\ s \in {r.s, r.peer}
Writing(r) == r.at \in {"read", "truncate", "write"}

(* Each phase belongs to some of the calls. *)
Shape(r) ==
  /\ r.at = "line" => r.call = "append"
  /\ r.at = "lock" => r.call = "child"
  /\ r.at = "read" => r.call \in Updates
  /\ r.at \in {"truncate", "write"} => r.call \in Updates \cup {"create", "project"}
  /\ r.at = "archive" => r.call = "cleanup"
  /\ r.at = "sweep" => r.call \in {"reap", "cleanup"}
  /\ r.call \in {"reap", "cleanup"} => r.peer = None
  /\ r.call = "child" => r.peer # None

(* A call without a lock is alone with its session, unless calls crossed   *)
(* there ...                                                               *)
SoleIsAlone ==
  \A t, u \in Threads :
    /\ t # u /\ Working(thread[t])
    /\ thread[t].call \in Sole /\ thread[t].s \notin crossed
    => ~Sees(thread[u], thread[t].s)

(* ... and one with a lock holds it while it reads and writes. *)
Holds(t) ==
  Writing(thread[t]) /\ thread[t].call \in {"append", "child"} => lock[thread[t].s] = t

(* An append that has added its line is one ahead of the count. *)
Adds(r, s) == r.s = s /\ r.call = "append" /\ r.at \in {"read", "truncate"}
Due(s) == IF \E t \in Threads : Adds(thread[t], s) THEN 1 ELSE 0
Fits(n, s) == n <= lines[s] /\ lines[s] <= n + crashes

Counted(s) == s \notin crossed /\ Readable(s) => Fits(meta[s].count + Due(s), s)

(* What a goroutine is about to write is what the file said, updated.      *)
Prepared(r) ==
  /\ r.at \in {"truncate", "write"} => r.held # Torn
  /\ r.at = "truncate" /\ r.s \notin crossed =>
       IF r.call \in {"create", "project"}
       THEN r.held.count = 0 /\ dir[r.s] = "absent"
       ELSE /\ meta[r.s] # Torn
            /\ r.held.count = IF r.call = "append" THEN meta[r.s].count + 1 ELSE meta[r.s].count
  /\ r.at = "write" /\ r.s \notin crossed =>
       meta[r.s] = Torn /\ Fits(r.held.count, r.s)

Unborn(s) == dir[s] = "absent" => lines[s] = 0

IInv ==
  /\ TypeOK /\ SoleIsAlone /\ TornHasWriter
  /\ \A t \in Threads : Shape(thread[t]) /\ Holds(t) /\ Prepared(thread[t])
  /\ \A s \in Sids : Counted(s) /\ Unborn(s)

-----------------------------------------------------------------------------
(* Who is alone with a session stays alone, if a goroutine stays on the    *)
(* session it had or rests, and if it comes to one where nobody else is.   *)
LEMMA StaysOn ==
  ASSUME SoleIsAlone, NEW t \in Threads, NEW r, Moves(t, r), crossed \subseteq crossed',
         Working(r) => /\ Working(thread[t])
                       /\ {r.s, r.peer} \subseteq {thread[t].s, thread[t].peer}
                       /\ r.call \in Sole => thread[t].call \in Sole /\ r.s = thread[t].s
  PROVE  SoleIsAlone'
BY DEF SoleIsAlone, Moves, Sees

LEMMA ComesOn ==
  ASSUME SoleIsAlone, NEW t \in Threads, NEW r, Moves(t, r), crossed \subseteq crossed',
         \A u \in Threads \ {t} :
           /\ r.call \in Sole /\ r.s \notin crossed' => ~Sees(thread[u], r.s)
           /\ Working(thread[u]) /\ thread[u].call \in Sole /\ thread[u].s \notin crossed' =>
                thread[u].s \notin {r.s, r.peer}
  PROVE  SoleIsAlone'
BY DEF SoleIsAlone, Moves, Sees

(* So no two goroutines read or write one metadata file at once.           *)
LEMMA OneWriter ==
  ASSUME IInv, NEW t \in Threads, NEW u \in Threads, t # u, Writing(thread[t]),
         Working(thread[u]), thread[u].s = thread[t].s, thread[t].s \notin crossed
  PROVE  ~Writing(thread[u]) /\ ~(thread[u].at = "line" /\ lock[thread[t].s] = None)
<1>1. thread[u].call \notin Sole \/ ~Writing(thread[u])
  BY DEF IInv, SoleIsAlone, Sees, Working, Writing
<1>2. thread[t].call \notin Sole
  BY DEF IInv, SoleIsAlone, Sees, Working, Writing
<1>3. thread[t].call \in {"append", "child"}
  BY <1>2 DEF IInv, Shape, Writing, Updates, Sole
<1>4. lock[thread[t].s] = t /\ t # None
  BY <1>3, SessionAssumption DEF IInv, Holds
<1>5. ASSUME Writing(thread[u]) PROVE FALSE
  <2>1. thread[u].call \in {"append", "child"}
    BY <1>1, <1>5 DEF IInv, Shape, Writing, Updates, Sole
  <2> QED
    BY <1>4, <1>5, <2>1 DEF IInv, Holds
<1> QED
  BY <1>4, <1>5

-----------------------------------------------------------------------------
(* Calls begin.                                                            *)

Begun(t, r) ==
  /\ r \in Thread /\ thread[t].at = "idle" /\ Shape(r)
  /\ r.at \in {"line", "truncate", "read", "sweep"}
  /\ r.at = "read" => r.call \in Sole
  /\ r.at = "truncate" => /\ r.call \in {"create", "project"} /\ dir[r.s] = "absent"
                          /\ r.held # Torn /\ r.held.count = 0

LEMMA BeginKeeps ==
  ASSUME IInv, NEW t \in Threads, NEW r, Begun(t, r), SoleIsAlone', calls' \in Nat,
         keys' \subseteq Keys, crossed \subseteq crossed', crossed' \subseteq Sids,
         thread' = [thread EXCEPT ![t] = r],
         UNCHANGED <<dir, meta, lines, lock, saved, crashes>>
  PROVE  IInv'
<1>1. TypeOK /\ r \in Thread
  BY DEF IInv, Begun
<1>2. thread' \in [Threads -> Thread] /\ Moves(t, r)
  BY <1>1, OneMoves
<1>3. TypeOK'
  BY <1>1, <1>2 DEF TypeOK
<1>4. TornHasWriter'
  BY <1>2 DEF IInv, TornHasWriter, Moves, Begun, At
<1>5. ASSUME NEW u \in Threads
      PROVE  Shape(thread[u])' /\ Holds(u)' /\ Prepared(thread[u])'
  <2>1. CASE u = t
    BY <1>2, <2>1 DEF Moves, Begun, Holds, Prepared, Writing, Shape, Sole
  <2>2. CASE u # t
    BY <1>2, <2>2 DEF IInv, Moves, Shape, Holds, Prepared, Fits
  <2> QED
    BY <2>1, <2>2
<1>6. ASSUME NEW s \in Sids PROVE Counted(s)' /\ Unborn(s)'
  <2>1. \A u \in Threads : Adds(thread[u], s)' <=> Adds(thread[u], s)
    BY <1>2 DEF Moves, Begun, Adds, Sole
  <2>2. Due(s)' = Due(s)
    BY <2>1 DEF Due
  <2> QED
    BY <2>2 DEF IInv, Counted, Unborn, Readable, Fits
<1> QED
  BY <1>3, <1>4, <1>5, <1>6 DEF IInv

LEMMA CrossedGrows ==
  ASSUME TypeOK, NEW s \in Sids, NEW call, ComesTo(call, s)
  PROVE  crossed \subseteq crossed' /\ crossed' \subseteq Sids
BY DEF ComesTo, TypeOK

(* Where a call comes and crosses none, nobody has to be alone ...         *)
LEMMA KnownIsShared ==
  ASSUME NEW s, Known(s), NEW call, ComesTo(call, s), s \notin crossed',
         NEW u \in Threads, Working(thread[u]), thread[u].call \in Sole
  PROVE  thread[u].s # s
<1> SUFFICES ASSUME thread[u].s = s PROVE FALSE
  OBVIOUS
<1>1. u \in Users(s)
  BY DEF Users, Working, At
<1>2. thread[u].call \notin {"create", "project"}
  BY <1>1 DEF Known
<1>3. thread[u].call \notin Unlocked
  BY <1>1 DEF ComesTo, Crosses
<1> QED
  BY <1>2, <1>3 DEF Sole, Unlocked

(* ... and one without a lock is alone.                                    *)
LEMMA ComesAlone ==
  ASSUME TypeOK, NEW s, NEW call \in Unlocked, ComesTo(call, s), s \notin crossed'
  PROVE  \A u \in Threads : ~Sees(thread[u], s)
BY DEF ComesTo, Crosses, Users, Sees, Working, At

LEMMA CallsKeep ==
  ASSUME IInv, NEW t \in Threads, Call(t)
  PROVE  IInv'
<1> USE SessionAssumption
<1>0. TypeOK /\ SoleIsAlone
  BY DEF IInv
<1>1. ASSUME NEW r, Begin(t, r)
      PROVE  /\ thread[t].at = "idle" /\ thread' = [thread EXCEPT ![t] = r] /\ calls' \in Nat
             /\ UNCHANGED <<dir, meta, lines, lock, saved, crashes>>
             /\ r \in Thread => Moves(t, r)
  <2>1. /\ thread[t].at = "idle" /\ thread' = [thread EXCEPT ![t] = r]
        /\ UNCHANGED <<dir, meta, lines, lock, saved, crashes>> /\ calls' = calls + 1
    BY <1>1 DEF Begin, At
  <2>2. calls' \in Nat
    BY <1>0, <2>1 DEF TypeOK
  <2> QED
    BY <1>0, <2>1, <2>2, OneMoves
<1>2. ASSUME NEW s \in Sids, AppendEvent(t, s) PROVE IInv'
  <2> DEFINE r == [Rest EXCEPT !.at = "line", !.call = "append", !.s = s]
  <2>0. r.at = "line" /\ r.call = "append" /\ r.s = s /\ r.peer = None
    BY DEF Rest
  <2>1. Begin(t, r) /\ Known(s) /\ ComesTo("append", s) /\ keys' = keys
    BY <1>2 DEF AppendEvent
  <2>c. crossed \subseteq crossed' /\ crossed' \subseteq Sids
    BY <1>0, <2>1, CrossedGrows
  <2>2. r \in Thread
    BY RestTyped DEF Thread, Phases, AllCalls
  <2>3. Begun(t, r)
    BY <2>0, <1>1, <2>1, <2>2 DEF Begun, Shape
  <2>4. SoleIsAlone'
    <3>1. ASSUME NEW u \in Threads \ {t}, Working(thread[u]), thread[u].call \in Sole,
                 thread[u].s \notin crossed'
          PROVE  thread[u].s \notin {s, None}
      <4>1. thread[u].s \in Sids
        BY <1>0 DEF TypeOK, Thread
      <4> QED
        BY <2>1, <3>1, <4>1, KnownIsShared
    <3>2. r.call \notin Sole
      BY <2>0 DEF Sole
    <3> HIDE DEF r
    <3> QED
      BY <1>0, <1>1, <2>0, <2>1, <2>2, <2>c, <3>1, <3>2, ComesOn
  <2> HIDE DEF r
  <2> QED
    BY <1>0, <1>1, <2>1, <2>c, <2>3, <2>4, BeginKeeps DEF TypeOK
<1>3. ASSUME NEW s \in Sids, NEW parent \in Sids \cup {None}, Create(t, s, parent) PROVE IInv'
  <2> DEFINE r == [Rest EXCEPT !.at = "truncate", !.call = "create", !.s = s, !.peer = parent,
                            !.held = NewMeta("", parent)]
  <2>0. /\ r.at = "truncate" /\ r.call = "create" /\ r.s = s /\ r.peer = parent
        /\ r.held = NewMeta("", parent)
    BY DEF Rest
  <2>1. /\ Begin(t, r) /\ IsNew(s) /\ keys' = keys
        /\ IF parent = None THEN UNCHANGED crossed
           ELSE Known(parent) /\ ComesTo("create", parent)
    BY <1>3 DEF Create
  <2>c. crossed \subseteq crossed' /\ crossed' \subseteq Sids
    BY <1>0, <2>1, CrossedGrows DEF TypeOK
  <2>2. NewMeta("", parent) \in Meta /\ NewMeta("", parent) # Torn /\ NewMeta("", parent).count = 0
    BY NewMetaTyped DEF NewMeta
  <2>3. r \in Thread
    BY <2>2, RestTyped DEF Thread, Phases, AllCalls
  <2>4. Begun(t, r)
    BY <2>0, <1>1, <2>1, <2>2, <2>3 DEF Begun, Shape, IsNew, Updates
  <2>5. SoleIsAlone'
    <3>1. ASSUME NEW u \in Threads \ {t}
          PROVE  /\ ~Sees(thread[u], s)
                 /\ Working(thread[u]) /\ thread[u].call \in Sole /\ thread[u].s \notin crossed' =>
                      thread[u].s \notin {s, parent}
      <4>1. ~Sees(thread[u], s)
        BY <2>1 DEF IsNew, Users, Sees, Working, At
      <4>2. thread[u].s \in Sids
        BY <1>0 DEF TypeOK, Thread
      <4>3. ASSUME Working(thread[u]), thread[u].call \in Sole, thread[u].s \notin crossed'
            PROVE  thread[u].s # parent
        <5>1. CASE parent = None
          BY <4>2, <5>1
        <5>2. CASE parent # None
          BY <2>1, <4>3, <5>2, KnownIsShared
        <5> QED
          BY <5>1, <5>2
      <4> QED
        BY <4>1, <4>3 DEF Sees
    <3> HIDE DEF r
    <3> QED
      BY <1>0, <1>1, <2>1, <2>c, <2>0, <2>3, <3>1, ComesOn
  <2> HIDE DEF r
  <2> QED
    BY <1>0, <1>1, <2>1, <2>c, <2>4, <2>5, BeginKeeps DEF TypeOK
<1>4. ASSUME NEW s \in Sids, CreateProject(t, s) PROVE IInv'
  <2> DEFINE r == [Rest EXCEPT !.at = "truncate", !.call = "project", !.s = s,
                            !.held = NewMeta("project", None)]
  <2>0. /\ r.at = "truncate" /\ r.call = "project" /\ r.s = s /\ r.peer = None
        /\ r.held = NewMeta("project", None)
    BY DEF Rest
  <2>1. Begin(t, r) /\ IsNew(s) /\ keys' = keys
    BY <1>4 DEF CreateProject
  <2>c. crossed \subseteq crossed' /\ crossed' \subseteq Sids
    BY <1>0, <1>4 DEF CreateProject, TypeOK
  <2>2. /\ NewMeta("project", None) \in Meta /\ NewMeta("project", None) # Torn
        /\ NewMeta("project", None).count = 0
    BY NewMetaTyped DEF NewMeta
  <2>3. r \in Thread
    BY <2>2, RestTyped DEF Thread, Phases, AllCalls
  <2>4. Begun(t, r)
    BY <2>0, <1>1, <2>1, <2>2, <2>3 DEF Begun, Shape, IsNew, Updates
  <2>5. \A u \in Threads \ {t} : ~Sees(thread[u], s) /\ thread[u].s # None
    BY <1>0, <2>1 DEF IsNew, Users, Sees, Working, At, TypeOK, Thread
  <2>6. SoleIsAlone'
    BY <1>0, <1>1, <2>1, <2>c, <2>3, <2>5, <2>0, ComesOn DEF Sees
  <2> HIDE DEF r
  <2> QED
    BY <1>0, <1>1, <2>1, <2>c, <2>4, <2>6, BeginKeeps DEF TypeOK
<1>5. ASSUME NEW s \in Sids, NEW st \in Closed, UpdateStatus(t, s, st) PROVE IInv'
  <2> DEFINE r == [Rest EXCEPT !.at = "read", !.call = "status", !.s = s, !.to = st]
  <2>0. r.at = "read" /\ r.call = "status" /\ r.s = s /\ r.peer = None
    BY DEF Rest
  <2>1. Begin(t, r) /\ ComesTo("status", s) /\ keys' = keys
    BY <1>5 DEF UpdateStatus
  <2>c. crossed \subseteq crossed' /\ crossed' \subseteq Sids
    BY <1>0, <2>1, CrossedGrows
  <2>2. r \in Thread
    BY RestTyped DEF Thread, Phases, AllCalls
  <2>3. Begun(t, r)
    BY <2>0, <1>1, <2>1, <2>2 DEF Begun, Shape, Updates, Sole
  <2>4. /\ s \notin crossed' => \A u \in Threads : ~Sees(thread[u], s)
        /\ \A u \in Threads : thread[u].s # None
    BY <1>0, <2>1, ComesAlone DEF Unlocked, TypeOK, Thread
  <2>5. SoleIsAlone'
    BY <1>0, <1>1, <2>1, <2>c, <2>2, <2>4, <2>0, ComesOn DEF Sees
  <2> HIDE DEF r
  <2> QED
    BY <1>0, <1>1, <2>1, <2>c, <2>3, <2>5, BeginKeeps DEF TypeOK
<1>6. ASSUME NEW s \in Sids, NEW k \in Keys, SavePatterns(t, s, k) PROVE IInv'
  <2> DEFINE r == [Rest EXCEPT !.at = "read", !.call = "patterns", !.s = s, !.grant = keys']
  <2>0. r.at = "read" /\ r.call = "patterns" /\ r.s = s /\ r.peer = None
    BY DEF Rest
  <2>1. Begin(t, r) /\ ComesTo("patterns", s) /\ keys' = keys \cup {k}
    BY <1>6 DEF SavePatterns
  <2>c. crossed \subseteq crossed' /\ crossed' \subseteq Sids
    BY <1>0, <2>1, CrossedGrows
  <2>2. keys' \subseteq Keys
    BY <1>0, <2>1 DEF TypeOK
  <2>3. r \in Thread
    BY <2>2, RestTyped DEF Thread, Phases, AllCalls
  <2>4. Begun(t, r)
    BY <2>0, <1>1, <2>1, <2>3 DEF Begun, Shape, Updates, Sole
  <2>5. /\ s \notin crossed' => \A u \in Threads : ~Sees(thread[u], s)
        /\ \A u \in Threads : thread[u].s # None
    BY <1>0, <2>1, ComesAlone DEF Unlocked, TypeOK, Thread
  <2>6. SoleIsAlone'
    <3>1. Moves(t, r) /\ \A u \in Threads : thread[u].s \notin {None}
      BY <1>0, <1>1, <2>1, <2>3, <2>5
    <3>2. ASSUME NEW u \in Threads \ {t}
          PROVE  /\ s \notin crossed' => ~Sees(thread[u], s)
                 /\ thread[u].s \notin crossed' /\ Working(thread[u]) => thread[u].s # s
      BY <2>5 DEF Sees
    <3> HIDE DEF r
    <3> QED
      BY <1>0, <2>0, <2>c, <3>1, <3>2, ComesOn
  <2> HIDE DEF r
  <2> QED
    BY <1>1, <2>1, <2>c, <2>2, <2>4, <2>6, BeginKeeps
<1>7. ASSUME NEW call \in {"reap", "cleanup"}, NEW todo \in SUBSET Sids, UNCHANGED <<keys, crossed>>,
             Begin(t, [Rest EXCEPT !.at = "sweep", !.call = call, !.todo = todo])
      PROVE  IInv'
  <2> DEFINE r == [Rest EXCEPT !.at = "sweep", !.call = call, !.todo = todo]
  <2>0. r.at = "sweep" /\ r.call = call /\ r.peer = None
    BY DEF Rest
  <2>1. Begin(t, r)
    BY <1>7
  <2>2. r \in Thread
    BY RestTyped DEF Thread, Phases, AllCalls
  <2>3. Begun(t, r)
    BY <2>0, <1>1, <2>1, <2>2 DEF Begun, Shape
  <2>4. ~Working(r)
    BY <2>0 DEF Working
  <2> HIDE DEF r
  <2>5. SoleIsAlone'
    BY <1>0, <1>1, <1>7, <2>1, <2>2, <2>4, StaysOn
  <2> QED
    BY <1>0, <1>1, <1>7, <2>1, <2>3, <2>5, BeginKeeps DEF TypeOK
<1>8. CASE ReapCompleted(t)
  <2> DEFINE todo == {s \in Sids : Readable(s) /\ Reapable(meta[s])}
  <2>1. todo \in SUBSET Sids
    OBVIOUS
  <2>2. Begin(t, [Rest EXCEPT !.at = "sweep", !.call = "reap", !.todo = todo])
        /\ UNCHANGED <<keys, crossed>>
    BY <1>8 DEF ReapCompleted
  <2> HIDE DEF todo
  <2> QED
    BY <1>7, <2>1, <2>2
<1>9. CASE CleanupStale(t)
  <2> DEFINE todo == {s \in Sids : Readable(s) /\ Stale(meta[s])}
  <2>1. todo \in SUBSET Sids
    OBVIOUS
  <2>2. Begin(t, [Rest EXCEPT !.at = "sweep", !.call = "cleanup", !.todo = todo])
        /\ UNCHANGED <<keys, crossed>>
    BY <1>9 DEF CleanupStale
  <2> HIDE DEF todo
  <2> QED
    BY <1>7, <2>1, <2>2
<1> QED
  BY <1>2, <1>3, <1>4, <1>5, <1>6, <1>8, <1>9 DEF Call

-----------------------------------------------------------------------------
(* Calls proceed.                                                          *)

(* A step that changes no metadata and no log, but may archive a session.  *)
LEMMA QuietKeeps ==
  ASSUME IInv, NEW t \in Threads, NEW r \in Thread, thread' = [thread EXCEPT ![t] = r],
         SoleIsAlone', Shape(r), Prepared(r)', thread[t].at # "write", Holds(t)',
         lock' \in [Sids -> Threads \cup {None}],
         \A s \in Sids, u \in Threads \ {t} : lock[s] = u => lock'[s] = u,
         dir' \in [Sids -> {"absent", "live", "archived"}],
         \A s \in Sids : dir'[s] = dir[s] \/ (dir[s] = "live" /\ dir'[s] = "archived"),
         \A s \in Sids : Readable(s) => (Adds(r, s) <=> Adds(thread[t], s)),
         crossed \subseteq crossed', crossed' \subseteq Sids,
         UNCHANGED <<meta, lines, keys, saved, calls, crashes>>
  PROVE  IInv'
<1>0. TypeOK
  BY DEF IInv
<1>1. thread' \in [Threads -> Thread] /\ Moves(t, r)
  BY <1>0, OneMoves
<1>2. TypeOK'
  BY <1>0, <1>1 DEF TypeOK
<1>3. TornHasWriter'
  BY <1>1 DEF IInv, TornHasWriter, Moves, At
<1>4. ASSUME NEW u \in Threads PROVE Shape(thread[u])' /\ Holds(u)' /\ Prepared(thread[u])'
  <2>1. CASE u = t
    BY <1>1, <2>1 DEF Moves, Shape, Prepared, Fits
  <2>2. CASE u # t
    <3>1. thread'[u] = thread[u] /\ thread[u].s \in Sids /\ thread'[u].s \in Sids
      BY <1>0, <1>1, <2>2 DEF Moves, TypeOK, Thread
    <3>2. Shape(thread[u])' /\ Holds(u)'
      BY <2>2, <3>1 DEF IInv, Shape, Holds, Writing
    <3>3. Prepared(thread[u])'
      BY <3>1 DEF IInv, Prepared, Fits
    <3> QED
      BY <3>2, <3>3
  <2> QED
    BY <2>1, <2>2
<1>5. ASSUME NEW s \in Sids PROVE Counted(s)' /\ Unborn(s)'
  <2>1. Unborn(s)'
    BY DEF IInv, Unborn
  <2>2. ASSUME (s \notin crossed /\ Readable(s))' PROVE Fits(meta[s].count + Due(s), s)'
    <3>1. s \notin crossed /\ Readable(s)
      BY <2>2 DEF Readable
    <3>2. \A u \in Threads : Adds(thread[u], s)' <=> Adds(thread[u], s)
      BY <1>1, <3>1 DEF Moves, Adds
    <3>3. Due(s)' = Due(s)
      BY <3>2 DEF Due
    <3> QED
      BY <3>1, <3>3 DEF IInv, Counted, Fits
  <2> QED
    BY <2>1, <2>2 DEF Counted
<1> QED
  BY <1>2, <1>3, <1>4, <1>5 DEF IInv

(* A goroutine that gives its session up leaves a mutex it had. *)
LEMMA AbandonKeeps ==
  ASSUME IInv, NEW t \in Threads, Abandon(t), thread[t].at # "write",
         Readable(thread[t].s) => ~Adds(thread[t], thread[t].s),
         UNCHANGED <<dir, meta, lines, keys, saved, crossed, calls, crashes>>
  PROVE  IInv'
<1> USE SessionAssumption
<1> PICK r : r = IF thread[t].call = "cleanup" THEN [thread[t] EXCEPT !.at = "sweep", !.s = Main]
                 ELSE Rest
  OBVIOUS
<1>0. TypeOK /\ SoleIsAlone /\ thread[t] \in Thread /\ Shape(thread[t])
  BY DEF IInv, TypeOK
<1>1. thread' = [thread EXCEPT ![t] = r] /\ Unlock(t)
  BY <1>0 DEF Abandon, TypeOK
<1>2. r \in Thread
  <2>1. [thread[t] EXCEPT !.at = "sweep", !.s = Main] \in Thread
    BY <1>0 DEF Thread, Phases
  <2> QED
    BY <2>1, RestTyped
<1>3. Shape(r) /\ r.at \in {"idle", "sweep"}
  <2>1. CASE thread[t].call = "cleanup"
    <3>1. r.at = "sweep" /\ r.call = "cleanup" /\ r.peer = None
      BY <1>0, <2>1 DEF Thread, Shape
    <3> QED
      BY <3>1 DEF Shape
  <2>2. CASE thread[t].call # "cleanup"
    <3>1. r.at = "idle" /\ r.call = "none"
      BY <2>2 DEF Rest
    <3> QED
      BY <3>1 DEF Shape
  <2> QED
    BY <2>1, <2>2
<1>4. Moves(t, r)
  BY <1>0, <1>1, <1>2, OneMoves
<1>5. SoleIsAlone'
  BY <1>0, <1>3, <1>4, StaysOn DEF Working
<1>6. /\ lock' \in [Sids -> Threads \cup {None}]
      /\ \A s \in Sids, u \in Threads \ {t} : lock[s] = u => lock'[s] = u
  BY <1>0, <1>1 DEF Unlock, TypeOK
<1>7. Prepared(r)' /\ Holds(t)'
  BY <1>3, <1>4 DEF Prepared, Holds, Moves, Writing
<1>8. \A s \in Sids : Readable(s) => (Adds(r, s) <=> Adds(thread[t], s))
  BY <1>3 DEF Adds
<1> QED
  BY <1>0, <1>1, <1>2, <1>3, <1>5, <1>6, <1>7, <1>8, QuietKeeps DEF TypeOK

LEMMA UpdatedCount ==
  ASSUME NEW r, NEW m \in Meta, r.call \in Updates
  PROVE  Updated(r, m).count = IF r.call = "append" THEN m.count + 1 ELSE m.count
BY DEF Updated, Updates, Meta

LEMMA QuietSteps ==
  ASSUME IInv, NEW t \in Threads,
         \/ Lock(t) \/ GetMeta(t) \/ ArchiveStale(t) \/ SweepEnds(t)
         \/ \E s \in Sids : ReapNext(t, s) \/ CleanNext(t, s)
  PROVE  IInv'
<1> USE SessionAssumption
<1>0. TypeOK /\ SoleIsAlone /\ thread[t] \in Thread /\ Shape(thread[t])
  BY DEF IInv, TypeOK
<1>1. CASE Lock(t)
  <2> PICK r : r = [thread[t] EXCEPT !.at = "read"]
    OBVIOUS
  <2>1. /\ thread' = [thread EXCEPT ![t] = r] /\ thread[t].at = "lock"
        /\ lock[thread[t].s] = None /\ lock' = [lock EXCEPT ![thread[t].s] = t]
        /\ UNCHANGED <<dir, meta, lines, keys, saved, crossed, calls, crashes>>
    BY <1>0, <1>1 DEF Lock, Goto, At, TypeOK
  <2>2. r \in Thread
    BY <1>0 DEF Thread, Phases
  <2>3. /\ r.at = "read" /\ r.call = "child" /\ thread[t].call = "child"
        /\ r.s = thread[t].s /\ r.peer = thread[t].peer
    BY <1>0, <2>1 DEF Thread, Shape
  <2>4. Shape(r) /\ Moves(t, r)
    BY <1>0, <2>1, <2>2, <2>3, OneMoves DEF Shape, Updates
  <2>5. SoleIsAlone'
    BY <1>0, <2>1, <2>3, <2>4, StaysOn DEF Working
  <2>6. thread[t].s \in Sids
    BY <1>0 DEF Thread
  <2>7. /\ lock' \in [Sids -> Threads \cup {None}] /\ Holds(t)'
        /\ \A s \in Sids, u \in Threads \ {t} : lock[s] = u => lock'[s] = u
    BY <1>0, <2>1, <2>3, <2>4, <2>6 DEF TypeOK, Holds, Moves
  <2>8. Prepared(r)' /\ \A s \in Sids : ~Adds(r, s) /\ ~Adds(thread[t], s)
    BY <2>3 DEF Prepared, Adds
  <2> QED
    BY <1>0, <2>1, <2>2, <2>4, <2>5, <2>7, <2>8, QuietKeeps DEF TypeOK
<1>2. CASE GetMeta(t) /\ Readable(thread[t].s)
  <2> PICK r : r = [thread[t] EXCEPT !.at = "truncate",
                                     !.held = Updated(thread[t], meta[thread[t].s])]
    OBVIOUS
  <2>1. /\ thread' = [thread EXCEPT ![t] = r] /\ thread[t].at = "read"
        /\ UNCHANGED <<dir, meta, lines, lock, keys, saved, crossed, calls, crashes>>
    BY <1>0, <1>2 DEF GetMeta, At, TypeOK
  <2>2. meta[thread[t].s] \in Meta /\ meta[thread[t].s] # Torn /\ thread[t].call \in Updates
    BY <1>0, <1>2, <2>1 DEF Readable, TypeOK, Thread, Shape
  <2>3. /\ Updated(thread[t], meta[thread[t].s]) \in Meta
        /\ Updated(thread[t], meta[thread[t].s]) # Torn
    BY <1>0, <2>2, UpdatedTyped DEF Updates, Shape
  <2>4. r \in Thread
    BY <1>0, <2>3 DEF Thread, Phases
  <2>5. /\ r.at = "truncate" /\ r.call = thread[t].call /\ r.s = thread[t].s
        /\ r.peer = thread[t].peer /\ r.held = Updated(thread[t], meta[thread[t].s])
    BY <1>0 DEF Thread
  <2>6. Shape(r) /\ Moves(t, r)
    BY <1>0, <2>1, <2>2, <2>4, <2>5, OneMoves DEF Shape
  <2>7. SoleIsAlone'
    BY <1>0, <2>1, <2>5, <2>6, StaysOn DEF Working
  <2>8. Holds(t)'
    BY <2>1, <2>5, <2>6 DEF IInv, Holds, Moves, Writing
  <2>9. Prepared(r)'
    BY <2>1, <2>2, <2>3, <2>5, UpdatedCount DEF Prepared, Updates
  <2>10. \A s \in Sids : Adds(r, s) <=> Adds(thread[t], s)
    BY <2>1, <2>5 DEF Adds
  <2> QED
    BY <1>0, <2>1, <2>4, <2>6, <2>7, <2>8, <2>9, <2>10, QuietKeeps DEF TypeOK
<1>3. CASE GetMeta(t) /\ ~Readable(thread[t].s)
  BY <1>3, AbandonKeeps DEF GetMeta, At
<1>4. ASSUME NEW s \in Sids, CleanNext(t, s) PROVE IInv'
  <2> PICK r : r = [thread[t] EXCEPT !.at = "read", !.s = s, !.todo = thread[t].todo \ {s}]
    OBVIOUS
  <2>1. /\ thread' = [thread EXCEPT ![t] = r] /\ thread[t].at = "sweep" /\ ComesTo("cleanup", s)
        /\ thread[t].call = "cleanup"
        /\ UNCHANGED <<dir, meta, lines, lock, keys, saved, calls, crashes>>
    BY <1>0, <1>4 DEF CleanNext, At, TypeOK
  <2>2. r \in Thread
    BY <1>0 DEF Thread, Phases
  <2>3. r.at = "read" /\ r.call = "cleanup" /\ r.s = s /\ r.peer = None
    BY <1>0, <2>1 DEF Thread, Shape
  <2>4. Shape(r) /\ Moves(t, r)
    BY <1>0, <2>1, <2>2, <2>3, OneMoves DEF Shape, Updates
  <2>c. crossed \subseteq crossed' /\ crossed' \subseteq Sids
    BY <1>0, <2>1, CrossedGrows
  <2>5. /\ s \notin crossed' => \A u \in Threads : ~Sees(thread[u], s)
        /\ \A u \in Threads : thread[u].s # None
    BY <1>0, <2>1, ComesAlone DEF Unlocked, TypeOK, Thread
  <2>6. SoleIsAlone'
    BY <1>0, <2>c, <2>3, <2>4, <2>5, ComesOn DEF Sees
  <2>7. Holds(t)' /\ Prepared(r)' /\ \A x \in Sids : ~Adds(r, x) /\ ~Adds(thread[t], x)
    BY <2>1, <2>3, <2>4 DEF Holds, Moves, Prepared, Adds
  <2> QED
    BY <1>0, <2>1, <2>c, <2>2, <2>4, <2>6, <2>7, QuietKeeps DEF TypeOK
<1>5. ASSUME NEW r \in Thread, thread' = [thread EXCEPT ![t] = r], r.at \in {"idle", "sweep"},
             thread[t].at \in {"sweep", "archive"}, Shape(r),
             dir' \in [Sids -> {"absent", "live", "archived"}],
             \A s \in Sids : dir'[s] = dir[s] \/ (dir[s] = "live" /\ dir'[s] = "archived"),
             UNCHANGED <<meta, lines, lock, keys, saved, crossed, calls, crashes>>
      PROVE  IInv'
  <2>1. Moves(t, r)
    BY <1>0, <1>5, OneMoves
  <2>2. SoleIsAlone'
    BY <1>0, <1>5, <2>1, StaysOn DEF Working
  <2>3. Holds(t)' /\ Prepared(r)' /\ \A x \in Sids : ~Adds(r, x) /\ ~Adds(thread[t], x)
    BY <1>5, <2>1 DEF Holds, Moves, Prepared, Adds, Writing
  <2> QED
    BY <1>0, <1>5, <2>2, <2>3, QuietKeeps DEF TypeOK
<1>6. ASSUME NEW s \in Sids, Archive(s)
      PROVE  /\ dir' \in [Sids -> {"absent", "live", "archived"}]
             /\ \A x \in Sids : dir'[x] = dir[x] \/ (dir[x] = "live" /\ dir'[x] = "archived")
  BY <1>0, <1>6 DEF Archive, TypeOK
<1>7. ASSUME NEW s \in Sids, ReapNext(t, s) PROVE IInv'
  <2> PICK r : r = [thread[t] EXCEPT !.todo = thread[t].todo \ {s}]
    OBVIOUS
  <2>1. /\ thread' = [thread EXCEPT ![t] = r] /\ thread[t].at = "sweep" /\ Archive(s)
        /\ thread[t].call = "reap"
        /\ UNCHANGED <<meta, lines, lock, keys, saved, crossed, calls, crashes>>
    BY <1>0, <1>7 DEF ReapNext, At, TypeOK
  <2>2. r \in Thread
    BY <1>0 DEF Thread
  <2>3. r.at = "sweep" /\ r.call = "reap" /\ r.peer = None
    BY <1>0, <2>1 DEF Thread, Shape
  <2>4. Shape(r)
    BY <2>3 DEF Shape
  <2> QED
    BY <1>5, <1>6, <2>1, <2>2, <2>3, <2>4
<1>8. CASE ArchiveStale(t)
  <2> PICK r : r = [thread[t] EXCEPT !.at = "sweep", !.s = Main]
    OBVIOUS
  <2>1. /\ thread' = [thread EXCEPT ![t] = r] /\ thread[t].at = "archive"
        /\ thread[t].s \in Sids /\ Archive(thread[t].s)
        /\ UNCHANGED <<meta, lines, lock, keys, saved, crossed, calls, crashes>>
    BY <1>0, <1>8 DEF ArchiveStale, At, TypeOK, Thread
  <2>2. r \in Thread
    BY <1>0 DEF Thread, Phases
  <2>3. r.at = "sweep" /\ r.call = "cleanup" /\ r.peer = None
    BY <1>0, <2>1 DEF Thread, Shape
  <2>4. Shape(r)
    BY <2>3 DEF Shape
  <2> QED
    BY <1>5, <1>6, <2>1, <2>2, <2>3, <2>4
<1>9. CASE SweepEnds(t)
  <2>1. Rest.at = "idle" /\ Shape(Rest)
    BY DEF Rest, Shape
  <2> QED
    BY <1>0, <1>5, <1>9, <2>1, RestTyped DEF SweepEnds, At, TypeOK
<1> QED
  BY <1>1, <1>2, <1>3, <1>4, <1>7, <1>8, <1>9

(* A step that changes one session, on which nobody else reads or writes.  *)
LEMMA WriterKeeps ==
  ASSUME IInv, NEW t \in Threads, NEW r \in Thread, NEW s \in Sids, s = thread[t].s,
         thread' = [thread EXCEPT ![t] = r],
         SoleIsAlone', Shape(r), Prepared(r)', Holds(t)', TornHasWriter',
         s \notin crossed => \A u \in Threads \ {t} : thread[u].s = s => ~Writing(thread[u]),
         lock' \in [Sids -> Threads \cup {None}],
         \A x \in Sids, u \in Threads \ {t} : lock[x] = u => lock'[x] = u,
         dir' \in [Sids -> {"absent", "live", "archived"}],
         meta' \in [Sids -> Meta \cup {Torn}], lines' \in [Sids -> Nat],
         saved' \in [Sids -> SUBSET Keys],
         \A x \in Sids \ {s} : dir'[x] = dir[x] /\ meta'[x] = meta[x] /\ lines'[x] = lines[x],
         \A x \in Sids \ {s} : ~Adds(r, x), Counted(s)', Unborn(s)',
         UNCHANGED <<keys, crossed, calls, crashes>>
  PROVE  IInv'
<1>0. TypeOK
  BY DEF IInv
<1>1. thread' \in [Threads -> Thread] /\ Moves(t, r)
  BY <1>0, OneMoves
<1>2. TypeOK'
  BY <1>0, <1>1 DEF TypeOK
<1>3. ASSUME NEW u \in Threads PROVE Shape(thread[u])' /\ Holds(u)' /\ Prepared(thread[u])'
  <2>1. CASE u = t
    BY <1>1, <2>1 DEF Moves, Shape, Prepared, Fits
  <2>2. CASE u # t
    <3>1. thread'[u] = thread[u] /\ thread[u].s \in Sids /\ thread'[u].s \in Sids
      BY <1>0, <1>1, <2>2 DEF Moves, TypeOK, Thread
    <3>2. Shape(thread[u])' /\ Holds(u)'
      BY <2>2, <3>1 DEF IInv, Shape, Holds, Writing
    <3>3. CASE thread[u].s = s
      <4>1. s \notin crossed => ~Writing(thread'[u])
        BY <2>2, <3>1, <3>3
      <4>2. Prepared(thread[u])
        BY DEF IInv
      <4> QED
        BY <3>1, <3>2, <3>3, <4>1, <4>2 DEF Prepared, Writing
    <3>4. CASE thread[u].s # s
      <4>1. Prepared(thread[u])
        BY DEF IInv
      <4>2. Prepared(thread[u])'
        BY <3>1, <3>4, <4>1 DEF Prepared, Fits
      <4> QED
        BY <3>2, <4>2
    <3> QED
      BY <3>3, <3>4
  <2> QED
    BY <2>1, <2>2
<1>4. ASSUME NEW x \in Sids \ {s} PROVE Counted(x)' /\ Unborn(x)'
  <2>1. \A u \in Threads : Adds(thread[u], x)' <=> Adds(thread[u], x)
    BY <1>1 DEF Moves, Adds
  <2>2. Due(x)' = Due(x)
    BY <2>1 DEF Due
  <2>3. Counted(x) /\ Unborn(x)
    BY DEF IInv
  <2> QED
    BY <2>2, <2>3 DEF Counted, Unborn, Readable, Fits
<1> QED
  BY <1>2, <1>3, <1>4 DEF IInv

LEMMA WriteLineKeeps ==
  ASSUME IInv, NEW t \in Threads, WriteLine(t)
  PROVE  IInv'
<1> USE SessionAssumption
<1>0. TypeOK /\ SoleIsAlone /\ thread[t] \in Thread /\ Shape(thread[t])
  BY DEF IInv, TypeOK
<1> PICK s \in Sids : s = thread[t].s
  BY <1>0 DEF Thread
<1>1. thread[t].at = "line" /\ lock[s] = None /\ thread[t].call = "append"
  BY <1>0 DEF WriteLine, At, Shape
<1>2. CASE dir[s] # "live"
  <2>1. Abandon(t) /\ UNCHANGED <<dir, meta, lines, keys, saved, crossed, calls, crashes>>
    BY <1>2 DEF WriteLine
  <2> QED
    BY <1>1, <2>1, AbandonKeeps DEF Adds
<1>3. CASE dir[s] = "live"
  <2> PICK r : r = [thread[t] EXCEPT !.at = "read"]
    OBVIOUS
  <2>1. /\ thread' = [thread EXCEPT ![t] = r]
        /\ lines' = [lines EXCEPT ![s] = lines[s] + 1] /\ lock' = [lock EXCEPT ![s] = t]
        /\ UNCHANGED <<dir, meta, keys, saved, crossed, calls, crashes>>
    BY <1>0, <1>3 DEF WriteLine, Goto, TypeOK
  <2>2. r \in Thread
    BY <1>0 DEF Thread, Phases
  <2>3. r.at = "read" /\ r.call = "append" /\ r.s = s /\ r.peer = thread[t].peer
    BY <1>0, <1>1 DEF Thread
  <2>4. Shape(r) /\ Moves(t, r)
    BY <1>0, <2>1, <2>2, <2>3, OneMoves DEF Shape, Updates
  <2>c. crossed \subseteq crossed'
    BY <2>1
  <2>5. SoleIsAlone'
    BY <1>0, <1>1, <2>c, <2>3, <2>4, StaysOn DEF Working, Sole
  <2>6. /\ lock' \in [Sids -> Threads \cup {None}] /\ Holds(t)'
        /\ \A x \in Sids, u \in Threads \ {t} : lock[x] = u => lock'[x] = u
    BY <1>0, <1>1, <2>1, <2>3, <2>4 DEF TypeOK, Holds, Moves
  <2>7. s \notin crossed => \A u \in Threads \ {t} : thread[u].s = s => ~Writing(thread[u])
    BY <1>1, OneWriter DEF Working, Writing
  <2>8. /\ lines' \in [Sids -> Nat] /\ lines'[s] = lines[s] + 1
        /\ \A x \in Sids \ {s} : lines'[x] = lines[x]
    <3>1. lines[s] \in Nat /\ lines \in [Sids -> Nat]
      BY <1>0 DEF TypeOK
    <3>2. lines[s] + 1 \in Nat
      BY <3>1
    <3> QED
      BY <2>1, <3>1, <3>2
  <2>9. Counted(s)' /\ Unborn(s)'
    <3>1. s \notin crossed => \A u \in Threads : ~Adds(thread[u], s)
      BY <1>1, <2>7 DEF Adds, Writing
    <3>2. s \notin crossed => Due(s) = 0
      BY <3>1 DEF Due
    <3>3. Due(s)' = 1
      BY <2>3, <2>4 DEF Due, Moves, Adds
    <3>4. Unborn(s)'
      BY <1>3, <2>1 DEF Unborn
    <3>5. ASSUME (s \notin crossed /\ Readable(s))' PROVE Fits(meta[s].count + Due(s), s)'
      <4>1. s \notin crossed /\ Readable(s) /\ Counted(s)
        BY <2>1, <3>5 DEF IInv, Readable
      <4>2. Fits(meta[s].count, s)
        <5>1. meta[s].count \in Nat
          BY <1>0, <4>1 DEF TypeOK, Readable, Meta
        <5> QED
          BY <3>2, <4>1, <5>1 DEF Counted
      <4>3. meta[s].count \in Nat /\ lines[s] \in Nat /\ crashes \in Nat
        BY <1>0, <4>1 DEF TypeOK, Readable, Meta
      <4> QED
        BY <2>1, <2>8, <3>3, <4>2, <4>3 DEF Fits
    <3> QED
      BY <3>4, <3>5 DEF Counted
  <2>10. TornHasWriter'
    BY <1>1, <2>1, <2>4 DEF IInv, TornHasWriter, Moves, At
  <2>11. Prepared(r)' /\ \A x \in Sids \ {s} : ~Adds(r, x)
    BY <2>3 DEF Prepared, Adds
  <2> QED
    BY <1>0, <2>1, <2>2, <2>4, <2>5, <2>6, <2>7, <2>8, <2>9, <2>10, <2>11, WriterKeeps DEF TypeOK
<1> QED
  BY <1>2, <1>3

LEMMA TruncateKeeps ==
  ASSUME IInv, NEW t \in Threads, Truncate(t)
  PROVE  IInv'
<1> USE SessionAssumption
<1>0. TypeOK /\ SoleIsAlone /\ thread[t] \in Thread /\ Shape(thread[t]) /\ Prepared(thread[t])
  BY DEF IInv, TypeOK
<1> PICK s \in Sids : s = thread[t].s
  BY <1>0 DEF Thread
<1>1. thread[t].at = "truncate"
  BY DEF Truncate, At
<1>2. CASE ~(dir[s] = "live" \/ thread[t].call \in {"create", "project"})
  <2>1. Abandon(t) /\ UNCHANGED <<dir, meta, lines, keys, saved, crossed, calls, crashes>>
    BY <1>2 DEF Truncate
  <2>2. ~Readable(s)
    BY <1>2 DEF Readable
  <2> QED
    BY <1>1, <2>1, <2>2, AbandonKeeps
<1>3. CASE dir[s] = "live" \/ thread[t].call \in {"create", "project"}
  <2> PICK r : r = [thread[t] EXCEPT !.at = "write"]
    OBVIOUS
  <2>1. /\ thread' = [thread EXCEPT ![t] = r]
        /\ dir' = [dir EXCEPT ![s] = "live"] /\ meta' = [meta EXCEPT ![s] = Torn]
        /\ UNCHANGED <<lines, lock, keys, saved, crossed, calls, crashes>>
    BY <1>0, <1>3 DEF Truncate, Goto, TypeOK
  <2>2. r \in Thread
    BY <1>0 DEF Thread, Phases
  <2>3. /\ r.at = "write" /\ r.call = thread[t].call /\ r.s = s
        /\ r.peer = thread[t].peer /\ r.held = thread[t].held
    BY <1>0 DEF Thread
  <2>4. Shape(r) /\ Moves(t, r)
    BY <1>0, <1>1, <2>1, <2>2, <2>3, OneMoves DEF Shape
  <2>c. crossed \subseteq crossed'
    BY <2>1
  <2>5. SoleIsAlone'
    BY <1>0, <1>1, <2>c, <2>3, <2>4, StaysOn DEF Working
  <2>6. Holds(t)'
    BY <1>1, <2>1, <2>3, <2>4 DEF IInv, Holds, Moves, Writing
  <2>7. s \notin crossed => \A u \in Threads \ {t} : thread[u].s = s => ~Writing(thread[u])
    BY <1>1, OneWriter DEF Working, Writing
  <2>8. /\ dir' \in [Sids -> {"absent", "live", "archived"}]
        /\ meta' \in [Sids -> Meta \cup {Torn}]
        /\ dir'[s] = "live" /\ meta'[s] = Torn
        /\ \A x \in Sids \ {s} : dir'[x] = dir[x] /\ meta'[x] = meta[x]
    BY <1>0, <2>1 DEF TypeOK
  <2>9. s \notin crossed => Fits(thread[t].held.count, s)
    <3> HAVE s \notin crossed
    <3>1. CASE thread[t].call \in {"create", "project"}
      <4>1. thread[t].held.count = 0 /\ lines[s] = 0
        BY <1>0, <1>1, <3>1 DEF Prepared, IInv, Unborn
      <4>2. crashes \in Nat
        BY <1>0 DEF TypeOK
      <4> QED
        BY <4>1, <4>2 DEF Fits
    <3>2. CASE thread[t].call \notin {"create", "project"}
      <4>1. /\ Readable(s)
            /\ thread[t].held.count = IF thread[t].call = "append" THEN meta[s].count + 1
                                                                  ELSE meta[s].count
        BY <1>0, <1>1, <1>3, <3>2 DEF Prepared, Readable
      <4>2. meta[s].count \in Nat /\ lines[s] \in Nat /\ crashes \in Nat
        BY <1>0, <4>1 DEF TypeOK, Readable, Meta
      <4>3. Fits(meta[s].count + Due(s), s)
        BY <4>1 DEF IInv, Counted
      <4>4. Due(s) = IF thread[t].call = "append" THEN 1 ELSE 0
        BY <1>1, <2>7 DEF Due, Adds, Writing
      <4> QED
        BY <4>1, <4>2, <4>3, <4>4
    <3> QED
      BY <3>1, <3>2
  <2>10. Prepared(r)'
    BY <1>0, <1>1, <2>1, <2>3, <2>8, <2>9 DEF Prepared, Fits
  <2>11. TornHasWriter'
    <3>1. ASSUME NEW x \in Sids \ crossed, crashes = 0, dir'[x] = "live", meta'[x] = Torn
          PROVE  \E u \in Threads : thread'[u].at = "write" /\ thread'[u].s = x
      <4>1. CASE x = s
        BY <2>3, <2>4, <4>1 DEF Moves
      <4>2. CASE x # s
        <5>1. PICK u \in Threads : thread[u].at = "write" /\ thread[u].s = x
          BY <2>8, <3>1, <4>2 DEF IInv, TornHasWriter, At
        <5> QED
          BY <1>1, <2>4, <5>1 DEF Moves
      <4> QED
        BY <4>1, <4>2
    <3> QED
      BY <2>1, <3>1 DEF TornHasWriter, At
  <2>12. Counted(s)' /\ Unborn(s)'
    BY <2>8 DEF Counted, Unborn, Readable
  <2>13. \A x \in Sids \ {s} : ~Adds(r, x)
    BY <2>3 DEF Adds
  <2> QED
    BY <1>0, <2>1, <2>2, <2>4, <2>5, <2>6, <2>7, <2>8, <2>10, <2>11, <2>12, <2>13, WriterKeeps
       DEF TypeOK
<1> QED
  BY <1>2, <1>3

(* What a call goes on with once it has written. *)
LEMMA NextCallTyped ==
  ASSUME NEW q \in Thread, Shape(q), q.at = "write", NEW r, r = NextCall(q)
  PROVE  /\ r \in Thread /\ Shape(r) /\ r.at \in {"lock", "archive", "idle"}
         /\ r.at \in {"lock", "archive"} =>
              /\ {r.s, r.peer} \subseteq {q.s, q.peer}
              /\ r.call \in Sole => q.call \in Sole /\ r.s = q.s
<1> USE SessionAssumption
<1>1. CASE q.call = "create" /\ q.peer # None
  <2>1. r = [Rest EXCEPT !.at = "lock", !.call = "child", !.s = q.peer, !.peer = q.s]
    BY <1>1 DEF NextCall
  <2>2. q.peer \in Sids /\ q.s \in Sids
    BY <1>1 DEF Thread
  <2>3. r \in Thread
    BY <2>1, <2>2, RestTyped DEF Thread, Phases
  <2>4. r.at = "lock" /\ r.call = "child" /\ r.s = q.peer /\ r.peer = q.s
    BY <2>1 DEF Rest
  <2> QED
    BY <2>2, <2>3, <2>4 DEF Shape, Sole
<1>2. CASE q.call = "cleanup"
  <2>1. r = [q EXCEPT !.at = "archive"]
    BY <1>2 DEF NextCall
  <2>2. r \in Thread
    BY <2>1 DEF Thread, Phases
  <2>3. r.at = "archive" /\ r.call = "cleanup" /\ r.s = q.s /\ r.peer = q.peer
    BY <1>2, <2>1 DEF Thread
  <2>4. q.peer = None
    BY <1>2 DEF Shape
  <2> QED
    BY <1>2, <2>2, <2>3, <2>4 DEF Shape
<1>3. CASE ~(q.call = "create" /\ q.peer # None) /\ q.call # "cleanup"
  <2>1. r = Rest
    BY <1>3 DEF NextCall
  <2>2. Rest.at = "idle" /\ Shape(Rest)
    BY DEF Rest, Shape
  <2> QED
    BY <2>1, <2>2, RestTyped
<1> QED
  BY <1>1, <1>2, <1>3

LEMMA WriteKeeps ==
  ASSUME IInv, NEW t \in Threads, Write(t)
  PROVE  IInv'
<1> USE SessionAssumption
<1>0. TypeOK /\ SoleIsAlone /\ thread[t] \in Thread /\ Shape(thread[t]) /\ Prepared(thread[t])
  BY DEF IInv, TypeOK
<1> PICK s \in Sids : s = thread[t].s
  BY <1>0 DEF Thread
<1> PICK r : r = NextCall(thread[t])
  OBVIOUS
<1>1. thread[t].at = "write"
  BY DEF Write, At
<1>2. /\ thread[t].held # Torn
      /\ s \notin crossed => meta[s] = Torn /\ Fits(thread[t].held.count, s)
  BY <1>0, <1>1 DEF Prepared
<1>m. PICK m : /\ meta' = [meta EXCEPT ![s] = m]
               /\ m \in {thread[t].held, Torn} /\ (s \notin crossed => m = thread[t].held)
  BY <1>2 DEF Write
<1>3. /\ thread' = [thread EXCEPT ![t] = r] /\ Unlock(t)
      /\ saved' = IF thread[t].call = "patterns"
                  THEN [saved EXCEPT ![s] = thread[t].grant] ELSE saved
      /\ UNCHANGED <<dir, lines, keys, crossed, calls, crashes>>
  BY <1>0, <1>2 DEF Write, TypeOK
<1>4. /\ r \in Thread /\ Shape(r) /\ r.at \in {"lock", "archive", "idle"}
      /\ r.at \in {"lock", "archive"} =>
           /\ {r.s, r.peer} \subseteq {thread[t].s, thread[t].peer}
           /\ r.call \in Sole => thread[t].call \in Sole /\ r.s = thread[t].s
  BY <1>0, <1>1, NextCallTyped
<1>5. Moves(t, r)
  BY <1>0, <1>3, <1>4, OneMoves
<1>c. crossed \subseteq crossed'
  BY <1>3
<1>6. SoleIsAlone'
  BY <1>0, <1>1, <1>4, <1>5, <1>c, StaysOn DEF Working
<1>7. Holds(t)' /\ Prepared(r)' /\ \A x \in Sids : ~Adds(r, x)
  BY <1>4, <1>5 DEF Holds, Moves, Writing, Prepared, Adds
<1>8. /\ lock' \in [Sids -> Threads \cup {None}]
      /\ \A x \in Sids, u \in Threads \ {t} : lock[x] = u => lock'[x] = u
  BY <1>0, <1>3 DEF Unlock, TypeOK
<1>9. s \notin crossed => \A u \in Threads \ {t} : thread[u].s = s => ~Writing(thread[u])
  BY <1>1, OneWriter DEF Working, Writing
<1>10. thread[t].held \in Meta /\ thread[t].grant \in SUBSET Keys
  BY <1>0, <1>2 DEF Thread
<1>11. /\ meta' \in [Sids -> Meta \cup {Torn}] /\ meta'[s] = m
       /\ \A x \in Sids \ {s} : meta'[x] = meta[x]
       /\ saved' \in [Sids -> SUBSET Keys]
  BY <1>0, <1>3, <1>m, <1>10 DEF TypeOK
<1>12. Counted(s)' /\ Unborn(s)'
  <2>1. s \notin crossed => \A u \in Threads : ~Adds(thread'[u], s)
    BY <1>5, <1>7, <1>9 DEF Moves, Adds, Writing
  <2>2. s \notin crossed => Due(s)' = 0
    BY <2>1 DEF Due, Adds
  <2>3. thread[t].held.count \in Nat
    BY <1>10 DEF Meta
  <2>4. Unborn(s)
    BY DEF IInv
  <2> QED
    BY <1>2, <1>3, <1>m, <1>11, <2>2, <2>3, <2>4 DEF Counted, Unborn, Fits
<1>13. TornHasWriter'
  <2>1. ASSUME NEW x \in Sids \ crossed, crashes = 0, dir[x] = "live", meta'[x] = Torn
        PROVE  \E u \in Threads : thread'[u].at = "write" /\ thread'[u].s = x
    <3>1. x # s /\ meta[x] = Torn
      BY <1>2, <1>m, <1>11, <2>1
    <3>2. PICK u \in Threads : thread[u].at = "write" /\ thread[u].s = x
      BY <2>1, <3>1 DEF IInv, TornHasWriter, At
    <3> QED
      BY <1>5, <3>1, <3>2 DEF Moves
  <2> QED
    BY <1>3, <2>1 DEF TornHasWriter, At
<1> QED
  BY <1>0, <1>3, <1>4, <1>6, <1>7, <1>8, <1>9, <1>11, <1>12, <1>13, WriterKeeps DEF TypeOK

-----------------------------------------------------------------------------
(* Time, approvals, crashes.                                               *)

LEMMA AgeKeeps == ASSUME IInv, Age PROVE IInv'
<1>0. TypeOK
  BY DEF IInv
<1>1. UNCHANGED <<dir, lines, lock, thread, keys, saved, crossed, calls, crashes>>
  BY DEF Age
<1>2. \A t \in Threads : thread[t].at = "idle"
  BY DEF Age, At
<1>3. ASSUME NEW s \in Sids
      PROVE  /\ meta'[s] = Torn <=> meta[s] = Torn
             /\ meta[s] # Torn => meta'[s].count = meta[s].count
             /\ meta'[s] \in Meta \cup {Torn}
  <2>1. CASE meta[s] = Torn
    BY <2>1 DEF Age
  <2>2. CASE meta[s] # Torn
    <3>1. meta'[s] = [meta[s] EXCEPT !.fresh = FALSE] /\ meta[s] \in Meta
      BY <1>0, <2>2 DEF Age, TypeOK
    <3>2. meta'[s] \in Meta /\ meta'[s].count = meta[s].count
      BY <3>1 DEF Meta
    <3> QED
      BY <2>2, <3>2, TornAssumption
  <2> QED
    BY <2>1, <2>2
<1>4. TypeOK'
  <2>1. meta' \in [Sids -> Meta \cup {Torn}]
    BY <1>3 DEF Age
  <2> QED
    BY <1>0, <1>1, <2>1 DEF TypeOK
<1>5. \A t \in Threads : Shape(thread[t])' /\ Holds(t)' /\ Prepared(thread[t])'
  BY <1>1, <1>2 DEF IInv, Shape, Holds, Prepared, Writing
<1>6. ASSUME NEW s \in Sids PROVE Counted(s)' /\ Unborn(s)'
  <2>1. Due(s)' = Due(s)
    BY <1>1 DEF Due, Adds
  <2>2. Counted(s) /\ Unborn(s)
    BY DEF IInv
  <2> QED
    BY <1>1, <1>3, <2>1, <2>2 DEF Counted, Unborn, Readable, Fits
<1>7. SoleIsAlone' /\ TornHasWriter'
  BY <1>1, <1>3 DEF IInv, SoleIsAlone, Sees, Working, TornHasWriter, At
<1> QED
  BY <1>4, <1>5, <1>6, <1>7 DEF IInv

LEMMA RestartKeeps == ASSUME IInv, Restart PROVE IInv'
<1> USE SessionAssumption
<1>0. TypeOK
  BY DEF IInv
<1> PICK stale : stale = {s \in Sids : Readable(s) /\ Stale(meta[s])}
  OBVIOUS
<1>1. /\ thread' = [t \in Threads |-> Rest] /\ lock' = [s \in Sids |-> None] /\ keys' = {}
      /\ dir' = [s \in Sids |-> IF s \in stale THEN "archived" ELSE dir[s]]
      /\ meta' = [s \in Sids |->
           IF s \in stale
           THEN [meta[s] EXCEPT !.status = "completed", !.fresh = TRUE]
           ELSE IF s = Main /\ ~Readable(Main) THEN NewMeta("main", None)
           ELSE meta[s]]
      /\ lines' = [lines EXCEPT ![Main] = IF Readable(Main) THEN lines[Main] ELSE 0]
      /\ crashes' = crashes + 1 /\ UNCHANGED <<saved, crossed, calls>>
  BY DEF Restart
<1>2. Rest.at = "idle" /\ Rest.call = "none"
  BY DEF Rest
<1>3. /\ NewMeta("main", None) \in Meta /\ NewMeta("main", None) # Torn
      /\ NewMeta("main", None).count = 0
  BY NewMetaTyped DEF NewMeta
<1>4. \A s \in Sids : meta'[s] \in Meta \cup {Torn}
  <2> TAKE s \in Sids
  <2>1. CASE s \in stale
    <3>1. meta[s] \in Meta
      BY <1>0, <2>1 DEF Readable, TypeOK
    <3>2. [meta[s] EXCEPT !.status = "completed", !.fresh = TRUE] \in Meta
      BY <3>1 DEF Meta, Closed
    <3> QED
      BY <1>1, <2>1, <3>2
  <2>2. CASE s \notin stale
    BY <1>0, <1>1, <1>3, <2>2 DEF TypeOK
  <2> QED
    BY <2>1, <2>2
<1>5. lines' \in [Sids -> Nat] /\ crashes' \in Nat /\ crashes' # 0
  <2>1. lines \in [Sids -> Nat] /\ crashes \in Nat /\ crashes' = crashes + 1
    BY <1>0, <1>1 DEF TypeOK
  <2>2. (IF Readable(Main) THEN lines[Main] ELSE 0) \in Nat
    BY <2>1
  <2>3. lines' \in [Sids -> Nat]
    BY <1>1, <2>1, <2>2
  <2> QED
    BY <2>1, <2>3
<1>6. TypeOK'
  <2>1. thread' \in [Threads -> Thread]
    BY <1>1, RestTyped
  <2>2. meta' \in [Sids -> Meta \cup {Torn}]
    BY <1>1, <1>4
  <2>3. dir' \in [Sids -> {"absent", "live", "archived"}]
    BY <1>0, <1>1 DEF TypeOK
  <2> QED
    BY <1>0, <1>1, <1>5, <2>1, <2>2, <2>3 DEF TypeOK
<1>7. SoleIsAlone' /\ \A t \in Threads : Shape(thread[t])' /\ Holds(t)' /\ Prepared(thread[t])'
  BY <1>1, <1>2 DEF SoleIsAlone, Working, Shape, Holds, Writing, Prepared
<1>8. TornHasWriter'
  BY <1>5 DEF TornHasWriter
<1>9. ASSUME NEW s \in Sids PROVE Counted(s)' /\ Unborn(s)'
  <2>1. Due(s)' = 0
    BY <1>1, <1>2 DEF Due, Adds
  <2>2. lines[s] \in Nat /\ crashes \in Nat
    BY <1>0 DEF TypeOK
  <2>3. Unborn(s)'
    BY <1>0, <1>1 DEF IInv, Unborn, TypeOK
  <2>4. ASSUME (s \notin crossed /\ Readable(s))' PROVE Fits(meta[s].count + Due(s), s)'
    <3>c. s \notin crossed
      BY <1>1, <2>4
    <3>1. s \notin stale /\ dir[s] = "live" /\ meta'[s] # Torn
      BY <1>1, <2>4 DEF Readable
    <3>2. CASE s = Main /\ ~Readable(Main)
      <4>1. meta'[s].count = 0 /\ lines'[s] = 0
        BY <1>0, <1>1, <1>3, <3>1, <3>2 DEF TypeOK
      <4>2. crashes' \in Nat /\ meta'[s].count + Due(s)' = 0
        BY <1>5, <2>1, <4>1
      <4> QED
        BY <4>1, <4>2 DEF Fits
    <3>3. CASE ~(s = Main /\ ~Readable(Main))
      <4>1. meta'[s] = meta[s] /\ lines'[s] = lines[s]
        BY <1>0, <1>1, <3>1, <3>3 DEF TypeOK
      <4>2. Readable(s) /\ Counted(s)
        BY <3>1, <4>1 DEF IInv, Readable
      <4>3. Fits(meta[s].count + Due(s), s) /\ meta[s].count \in Nat /\ Due(s) \in {0, 1}
        BY <1>0, <3>c, <4>2 DEF Counted, TypeOK, Readable, Meta, Due
      <4>4. crashes' = crashes + 1
        BY <1>1
      <4> QED
        BY <2>1, <2>2, <4>1, <4>3, <4>4 DEF Fits
    <3> QED
      BY <3>2, <3>3
  <2> QED
    BY <2>3, <2>4 DEF Counted
<1> QED
  BY <1>6, <1>7, <1>8, <1>9 DEF IInv

LEMMA StutterKeeps ==
  ASSUME IInv, UNCHANGED <<dir, meta, lines, lock, thread, saved, crossed, calls, crashes>>,
         keys' \subseteq Keys
  PROVE  IInv'
<1>1. \A s \in Sids : Due(s)' = Due(s)
  BY DEF Due, Adds
<1> QED
  BY <1>1 DEF IInv, TypeOK, SoleIsAlone, TornHasWriter, Shape, Holds, Prepared, Counted, Unborn,
              Sees, Working, Writing, Fits, Readable, At

LEMMA IInvKept == IInv /\ [StNext]_stVars => IInv'
<1> SUFFICES ASSUME IInv, [StNext]_stVars PROVE IInv'
  OBVIOUS
<1>0. TypeOK
  BY DEF IInv
<1>1. ASSUME NEW t \in Threads, Call(t) PROVE IInv'
  BY <1>1, CallsKeep
<1>2. ASSUME NEW t \in Threads, Step(t) PROVE IInv'
  BY <1>2, QuietSteps, WriteLineKeeps, TruncateKeeps, WriteKeeps DEF Step
<1>3. ASSUME NEW s \in Sids, LoadApprovals(s) PROVE IInv'
  <2>1. meta[s] \in Meta /\ keys' = keys \cup meta[s].patterns
    BY <1>0, <1>3 DEF LoadApprovals, Readable, TypeOK
  <2>2. keys' \subseteq Keys
    BY <1>0, <2>1 DEF TypeOK, Meta
  <2> QED
    BY <1>3, <2>2, StutterKeeps DEF LoadApprovals
<1>4. CASE UNCHANGED stVars
  BY <1>0, <1>4, StutterKeeps DEF stVars, TypeOK
<1> QED
  BY <1>1, <1>2, <1>3, <1>4, AgeKeeps, RestartKeeps DEF StNext

LEMMA IInvStarts == StInit => IInv
<1> SUFFICES ASSUME StInit PROVE IInv
  OBVIOUS
<1> USE SessionAssumption
<1>1. /\ NewMeta("main", None) \in Meta /\ NewMeta("main", None) # Torn
      /\ NewMeta("main", None).count = 0
  BY NewMetaTyped DEF NewMeta
<1>2. Rest.at = "idle" /\ Rest.call = "none"
  BY DEF Rest
<1>3. TypeOK
  BY <1>1, RestTyped DEF StInit, TypeOK
<1>4. SoleIsAlone /\ \A t \in Threads : Shape(thread[t]) /\ Holds(t) /\ Prepared(thread[t])
  BY <1>2 DEF StInit, SoleIsAlone, Working, Shape, Holds, Writing, Prepared
<1>5. TornHasWriter
  BY <1>1 DEF StInit, TornHasWriter
<1>6. ASSUME NEW s \in Sids PROVE Counted(s) /\ Unborn(s)
  <2>1. Due(s) = 0
    BY <1>2 DEF StInit, Due, Adds
  <2> QED
    BY <1>1, <2>1 DEF StInit, Counted, Unborn, Readable, Fits
<1> QED
  BY <1>3, <1>4, <1>5, <1>6 DEF IInv

(* Whatever calls interleave or cross and wherever the daemon dies, the    *)
(* state of the store stays well typed (session.go).                       *)
THEOREM TypeCorrect == Spec => []TypeOK
<1>1. IInv => TypeOK
  BY DEF IInv
<1> QED
  BY <1>1, IInvStarts, IInvKept, PTL DEF Spec

-----------------------------------------------------------------------------
(* No line is counted before it is written.  An append that has added its  *)
(* line has not counted it yet, and no other is at work in the session.    *)

Added(r, s) == r.s = s /\ r.call = "append" /\ r.at = "read"
Below(n, s) ==
  n <= lines[s] /\ ((\E t \in Threads : Added(thread[t], s)) => n + 1 <= lines[s])
Holding(r) == r.at \in {"truncate", "write"}

CInv ==
  /\ \A s \in Sids : meta[s] # Torn => Below(meta[s].count, s)
  /\ \A t \in Threads : Holding(thread[t]) => Below(thread[t].held.count, thread[t].s)

LEMMA BelowStays ==
  ASSUME IInv, NEW t \in Threads, NEW r, Moves(t, r), NEW s \in Sids, NEW n \in Nat, Below(n, s),
         lines'[s] = lines[s] \/ lines'[s] = lines[s] + 1,
         Added(r, s) => Added(thread[t], s) \/ lines'[s] = lines[s] + 1
  PROVE  Below(n, s)'
<1>1. lines[s] \in Nat
  BY DEF IInv, TypeOK
<1>2. (\E u \in Threads : Added(thread'[u], s)) =>
        (\E u \in Threads : Added(thread[u], s)) \/ lines'[s] = lines[s] + 1
  BY DEF Moves
<1>3. n <= lines[s] /\ ((\E u \in Threads : Added(thread[u], s)) => n + 1 <= lines[s])
  BY DEF Below
<1>4. n <= lines'[s]
  BY <1>1, <1>3
<1>5. (\E u \in Threads : Added(thread'[u], s)) => n + 1 <= lines'[s]
  BY <1>1, <1>2, <1>3
<1> QED
  BY <1>4, <1>5 DEF Below, Added

(* A step keeps the counts low if what it writes or is about to write was  *)
(* low enough, or is so now.                                               *)
LEMMA StepCounts ==
  ASSUME IInv, IInv', CInv, NEW t \in Threads, NEW r \in Thread, Moves(t, r),
         \A s \in Sids : lines'[s] = lines[s] \/ lines'[s] = lines[s] + 1,
         \A s \in Sids : Added(r, s) => Added(thread[t], s) \/ lines'[s] = lines[s] + 1,
         \A s \in Sids : meta'[s] # Torn =>
           \E n \in Nat : meta'[s].count = n /\ Below(n, s),
         Holding(r) => \E n \in Nat : r.held.count = n /\ (Below(n, r.s) \/ Below(n, r.s)')
  PROVE  CInv'
<1>1. ASSUME NEW s \in Sids, meta'[s] # Torn PROVE Below(meta[s].count, s)'
  <2>1. PICK n \in Nat : meta'[s].count = n /\ Below(n, s)
    BY <1>1
  <2>2. Below(n, s)'
    BY <2>1, BelowStays
  <2> QED
    BY <2>1, <2>2 DEF Below
<1>2. ASSUME NEW u \in Threads, Holding(thread'[u])
      PROVE  Below(thread[u].held.count, thread[u].s)'
  <2>1. CASE u = t
    <3>1. PICK n \in Nat : r.held.count = n /\ (Below(n, r.s) \/ Below(n, r.s)')
      BY <1>2, <2>1 DEF Moves
    <3> PICK s \in Sids : s = r.s
      BY DEF Thread
    <3>3. Below(n, s)'
      BY <3>1, BelowStays
    <3> QED
      BY <2>1, <3>1, <3>3 DEF Moves, Below
  <2>2. CASE u # t
    <3>1. thread'[u] = thread[u]
      BY <2>2 DEF Moves
    <3>2. thread[u].s \in Sids /\ thread[u].held \in Meta
      BY <1>2, <3>1 DEF IInv, TypeOK, Thread, Prepared, Holding
    <3>3. thread[u].held.count \in Nat /\ Below(thread[u].held.count, thread[u].s)
      BY <1>2, <3>1, <3>2 DEF CInv, Meta
    <3> PICK n \in Nat, s \in Sids : n = thread[u].held.count /\ s = thread[u].s
      BY <3>2, <3>3
    <3>5. Below(n, s)'
      BY <3>3, BelowStays
    <3> QED
      BY <3>1, <3>5 DEF Below
  <2> QED
    BY <2>1, <2>2
<1> QED
  BY <1>1, <1>2 DEF CInv, Holding

(* Before a step, what the files say and what goroutines hold is low.      *)
LEMMA LowBefore ==
  ASSUME IInv, CInv
  PROVE  /\ \A s \in Sids : meta[s] # Torn =>
              \E n \in Nat : meta[s].count = n /\ Below(n, s)
         /\ \A t \in Threads : Holding(thread[t]) =>
              \E n \in Nat : thread[t].held.count = n /\ Below(n, thread[t].s)
<1>1. ASSUME NEW s \in Sids, meta[s] # Torn PROVE meta[s].count \in Nat /\ Below(meta[s].count, s)
  BY <1>1 DEF IInv, TypeOK, Meta, CInv
<1>2. ASSUME NEW t \in Threads, Holding(thread[t])
      PROVE  thread[t].held.count \in Nat /\ Below(thread[t].held.count, thread[t].s)
  <2>1. thread[t].held \in Meta
    BY <1>2 DEF IInv, TypeOK, Thread, Prepared, Holding
  <2> QED
    BY <1>2, <2>1 DEF CInv, Meta
<1> QED
  BY <1>1, <1>2

(* The record a goroutine gets, when it is what the step says. *)
LEMMA StepMoves ==
  ASSUME IInv, IInv', NEW t \in Threads, NEW r, thread' = [thread EXCEPT ![t] = r]
  PROVE  r \in Thread /\ Moves(t, r) /\ thread'[t] = r
<1>1. thread'[t] = r
  BY DEF IInv, TypeOK
<1>2. r \in Thread
  BY <1>1 DEF IInv, TypeOK
<1> QED
  BY <1>1, <1>2, OneMoves DEF IInv

LEMMA NewCount == ASSUME NEW kind, NEW parent PROVE NewMeta(kind, parent).count = 0
BY DEF NewMeta

LEMMA CallsCount ==
  ASSUME IInv, IInv', CInv, NEW t \in Threads, Call(t)
  PROVE  CInv'
<1>1. ASSUME NEW r, Begin(t, r), r.at = "read" => r.call # "append", r.at # "write",
             r.at = "truncate" => r.held.count = 0 /\ IsNew(r.s)
      PROVE  CInv'
  <2>1. thread' = [thread EXCEPT ![t] = r] /\ UNCHANGED <<meta, lines>>
    BY <1>1 DEF Begin
  <2>2. r \in Thread /\ Moves(t, r)
    BY <2>1, StepMoves
  <2>3. ASSUME Holding(r) PROVE Below(0, r.s)
    <3>1. r.s \in Sids /\ IsNew(r.s)
      BY <1>1, <2>2, <2>3 DEF Holding, Thread
    <3>2. \A u \in Threads : ~Added(thread[u], r.s)
      BY <3>1 DEF IsNew, Users, Added, At
    <3>3. lines[r.s] \in Nat
      BY <3>1 DEF IInv, TypeOK
    <3> QED
      BY <3>2, <3>3 DEF Below
  <2>4. Holding(r) => \E n \in Nat : r.held.count = n /\ (Below(n, r.s) \/ Below(n, r.s)')
    BY <1>1, <2>3 DEF Holding
  <2>5. \A s \in Sids : meta'[s] # Torn => \E n \in Nat : meta'[s].count = n /\ Below(n, s)
    BY <2>1, LowBefore
  <2>6. \A s \in Sids : ~Added(r, s)
    BY <1>1 DEF Added
  <2> QED
    BY <2>1, <2>2, <2>4, <2>5, <2>6, StepCounts
<1>2. ASSUME NEW s \in Sids, AppendEvent(t, s) PROVE CInv'
  BY <1>1, <1>2 DEF AppendEvent, Rest
<1>3. ASSUME NEW s \in Sids, NEW parent \in Sids \cup {None}, Create(t, s, parent) PROVE CInv'
  <2> PICK r : r = [Rest EXCEPT !.at = "truncate", !.call = "create", !.s = s, !.peer = parent,
                             !.held = NewMeta("", parent)]
    OBVIOUS
  <2>1. r.at = "truncate" /\ r.s = s /\ r.held = NewMeta("", parent)
    BY DEF Rest
  <2>2. Begin(t, r) /\ IsNew(s)
    BY <1>3 DEF Create
  <2>3. r.held.count = 0
    BY <2>1, NewCount
  <2> QED
    BY <1>1, <2>1, <2>2, <2>3
<1>4. ASSUME NEW s \in Sids, CreateProject(t, s) PROVE CInv'
  <2> PICK r : r = [Rest EXCEPT !.at = "truncate", !.call = "project", !.s = s,
                             !.held = NewMeta("project", None)]
    OBVIOUS
  <2>1. r.at = "truncate" /\ r.s = s /\ r.held = NewMeta("project", None)
    BY DEF Rest
  <2>2. Begin(t, r) /\ IsNew(s)
    BY <1>4 DEF CreateProject
  <2>3. r.held.count = 0
    BY <2>1, NewCount
  <2> QED
    BY <1>1, <2>1, <2>2, <2>3
<1>5. ASSUME NEW s \in Sids, NEW st \in Closed, UpdateStatus(t, s, st) PROVE CInv'
  BY <1>1, <1>5 DEF UpdateStatus, Rest
<1>6. ASSUME NEW s \in Sids, NEW k \in Keys, SavePatterns(t, s, k) PROVE CInv'
  BY <1>1, <1>6 DEF SavePatterns, Rest
<1>7. CASE ReapCompleted(t)
  BY <1>1, <1>7 DEF ReapCompleted, Rest
<1>8. CASE CleanupStale(t)
  BY <1>1, <1>8 DEF CleanupStale, Rest
<1> QED
  BY <1>2, <1>3, <1>4, <1>5, <1>6, <1>7, <1>8 DEF Call

LEMMA StepsCount ==
  ASSUME IInv, IInv', CInv, NEW t \in Threads, Step(t)
  PROVE  CInv'
<1>0. /\ thread[t] \in Thread /\ thread[t].s \in Sids /\ Shape(thread[t]) /\ Holds(t)
      /\ thread \in [Threads -> Thread] /\ lines \in [Sids -> Nat]
      /\ meta \in [Sids -> Meta \cup {Torn}]
  BY DEF IInv, TypeOK, Thread
<1>l. /\ \A s \in Sids : meta[s] # Torn => \E n \in Nat : meta[s].count = n /\ Below(n, s)
      /\ \A u \in Threads : Holding(thread[u]) =>
           \E n \in Nat : thread[u].held.count = n /\ Below(n, thread[u].s)
  BY LowBefore
(* Most steps neither write nor prepare to. *)
<1>1. ASSUME NEW r, thread' = [thread EXCEPT ![t] = r], UNCHANGED <<meta, lines>>, ~Holding(r),
             r.at # "read" \/ r.call # "append"
      PROVE  CInv'
  <2>1. r \in Thread /\ Moves(t, r)
    BY <1>1, StepMoves
  <2>2. \A s \in Sids : ~Added(r, s)
    BY <1>1 DEF Added
  <2> QED
    BY <1>1, <1>l, <2>1, <2>2, StepCounts
<1>2. ASSUME Abandon(t), UNCHANGED <<meta, lines>> PROVE CInv'
  <2> PICK r : r = IF thread[t].call = "cleanup" THEN [thread[t] EXCEPT !.at = "sweep", !.s = Main]
                   ELSE Rest
    OBVIOUS
  <2>1. thread' = [thread EXCEPT ![t] = r]
    BY <1>0, <1>2 DEF Abandon
  <2>2. r.at \in {"sweep", "idle"}
    BY <1>0 DEF Rest, Thread
  <2> QED
    BY <1>1, <1>2, <2>1, <2>2 DEF Holding
<1>3. CASE WriteLine(t)
  <2> PICK s \in Sids : s = thread[t].s
    BY <1>0
  <2>1. CASE dir[s] # "live"
    BY <1>2, <1>3, <2>1 DEF WriteLine
  <2>2. CASE dir[s] = "live"
    <3> PICK r : r = [thread[t] EXCEPT !.at = "read"]
      OBVIOUS
    <3>1. /\ thread' = [thread EXCEPT ![t] = r] /\ lines' = [lines EXCEPT ![s] = lines[s] + 1]
          /\ meta' = meta
      BY <1>0, <1>3, <2>2 DEF WriteLine, Goto
    <3>2. r \in Thread /\ Moves(t, r) /\ r.s = s /\ ~Holding(r)
      BY <1>0, <3>1, StepMoves DEF Thread, Holding
    <3>3. /\ \A x \in Sids : lines'[x] = lines[x] \/ lines'[x] = lines[x] + 1
          /\ lines'[s] = lines[s] + 1
      BY <1>0, <3>1
    <3>4. \A x \in Sids : Added(r, x) => lines'[x] = lines[x] + 1
      BY <3>2, <3>3 DEF Added
    <3> QED
      BY <1>l, <3>1, <3>2, <3>3, <3>4, StepCounts
  <2> QED
    BY <2>1, <2>2
<1>4. CASE Lock(t)
  <2> PICK r : r = [thread[t] EXCEPT !.at = "read"]
    OBVIOUS
  <2>1. /\ thread' = [thread EXCEPT ![t] = r] /\ UNCHANGED <<meta, lines>>
        /\ r.at = "read" /\ r.call = "child"
    BY <1>0, <1>4 DEF Lock, Goto, At, Shape, Thread
  <2> QED
    BY <1>1, <2>1 DEF Holding
<1>5. CASE GetMeta(t)
  <2> PICK s \in Sids : s = thread[t].s
    BY <1>0
  <2>1. CASE ~Readable(s)
    BY <1>2, <1>5, <2>1 DEF GetMeta
  <2>2. CASE Readable(s)
    <3> PICK r : r = [thread[t] EXCEPT !.at = "truncate", !.held = Updated(thread[t], meta[s])]
      OBVIOUS
    <3>1. thread' = [thread EXCEPT ![t] = r] /\ UNCHANGED <<meta, lines>> /\ thread[t].at = "read"
      BY <1>0, <1>5, <2>2 DEF GetMeta, At
    <3>2. r \in Thread /\ Moves(t, r) /\ thread'[t] = r
      BY <3>1, StepMoves
    <3>3. r.s = s /\ r.held = Updated(thread[t], meta[s]) /\ r.at = "truncate"
      BY <1>0 DEF Thread
    <3>4. meta[s] \in Meta /\ meta[s] # Torn /\ thread[t].call \in Updates
      BY <1>0, <2>2, <3>1 DEF Readable, Shape
    <3>5. r.held.count = IF thread[t].call = "append" THEN meta[s].count + 1 ELSE meta[s].count
      BY <3>3, <3>4, UpdatedCount
    <3>6. PICK n \in Nat : meta[s].count = n /\ Below(n, s)
      BY <1>l, <3>4
    <3>7. CASE thread[t].call # "append"
      BY <1>l, <3>1, <3>2, <3>3, <3>5, <3>6, <3>7, StepCounts DEF Added
    <3>8. CASE thread[t].call = "append"
      <4>1. Added(thread[t], s)
        BY <3>1, <3>8 DEF Added
      <4>2. n + 1 <= lines[s] /\ n + 1 \in Nat
        BY <3>6, <4>1 DEF Below
      <4>3. \A u \in Threads \ {t} : ~Added(thread[u], s)
        <5>1. lock[s] = t
          BY <1>0, <3>1, <3>8 DEF Holds, Writing
        <5>2. \A u \in Threads : Holds(u)
          BY DEF IInv
        <5> QED
          BY <5>1, <5>2 DEF Holds, Writing, Added
      <4>4. \A u \in Threads : ~Added(thread'[u], s)
        BY <3>2, <3>3, <4>3 DEF Moves, Added
      <4>5. Below(n + 1, s)'
        BY <3>1, <4>2, <4>4 DEF Below, Added
      <4>6. \A x \in Sids : ~Added(r, x)
        BY <3>3 DEF Added
      <4>7. \E k \in Nat : r.held.count = k /\ (Below(k, r.s) \/ Below(k, r.s)')
        <5> PICK k \in Nat : k = n + 1
          BY <4>2
        <5>1. Below(k, s)'
          BY <4>5 DEF Below
        <5> QED
          BY <3>3, <3>5, <3>6, <3>8, <5>1 DEF Below
      <4> QED
        BY <1>l, <3>1, <3>2, <4>6, <4>7, StepCounts
    <3> QED
      BY <3>7, <3>8
  <2> QED
    BY <2>1, <2>2
<1>6. CASE Truncate(t)
  <2> PICK s \in Sids : s = thread[t].s
    BY <1>0
  <2>1. CASE ~(dir[s] = "live" \/ thread[t].call \in {"create", "project"})
    BY <1>2, <1>6, <2>1 DEF Truncate
  <2>2. CASE dir[s] = "live" \/ thread[t].call \in {"create", "project"}
    <3> PICK r : r = [thread[t] EXCEPT !.at = "write"]
      OBVIOUS
    <3>1. /\ thread' = [thread EXCEPT ![t] = r] /\ thread[t].at = "truncate"
          /\ meta' = [meta EXCEPT ![s] = Torn] /\ lines' = lines
      BY <1>0, <1>6, <2>2 DEF Truncate, Goto, At
    <3>2. /\ r \in Thread /\ Moves(t, r)
          /\ r.s = thread[t].s /\ r.held = thread[t].held /\ r.at = "write"
      BY <1>0, <3>1, StepMoves DEF Thread
    <3>3. \A x \in Sids : meta'[x] = meta[x] \/ meta'[x] = Torn
      BY <1>0, <3>1
    <3>4. \E n \in Nat : r.held.count = n /\ Below(n, r.s)
      BY <1>l, <3>1, <3>2 DEF Holding
    <3>5. \A x \in Sids : ~Added(r, x)
      BY <3>2 DEF Added
    <3> QED
      BY <1>l, <3>1, <3>2, <3>3, <3>4, <3>5, StepCounts
  <2> QED
    BY <2>1, <2>2
<1>7. CASE Write(t)
  <2> PICK s \in Sids : s = thread[t].s
    BY <1>0
  <2> PICK r : r = NextCall(thread[t])
    OBVIOUS
  <2>1. /\ thread' = [thread EXCEPT ![t] = r] /\ thread[t].at = "write" /\ lines' = lines
    BY <1>0, <1>7 DEF Write, At
  <2>m. PICK m : meta' = [meta EXCEPT ![s] = m] /\ m \in {thread[t].held, Torn}
    BY <1>7 DEF Write
  <2>2. r \in Thread /\ Moves(t, r)
    BY <2>1, StepMoves
  <2>3. r.at \in {"lock", "archive", "idle"}
    BY <1>0, <2>1, NextCallTyped
  <2>4. PICK n \in Nat : thread[t].held.count = n /\ Below(n, s)
    BY <1>l, <2>1 DEF Holding
  <2>5. \A x \in Sids : meta'[x] # Torn => \E k \in Nat : meta'[x].count = k /\ Below(k, x)
    BY <1>0, <1>l, <2>m, <2>4
  <2> QED
    BY <2>1, <2>2, <2>3, <2>5, StepCounts DEF Holding, Added
<1>8. ASSUME NEW s \in Sids, ReapNext(t, s) PROVE CInv'
  <2> PICK r : r = [thread[t] EXCEPT !.todo = thread[t].todo \ {s}]
    OBVIOUS
  <2>1. thread' = [thread EXCEPT ![t] = r] /\ UNCHANGED <<meta, lines>> /\ r.at = "sweep"
    BY <1>0, <1>8 DEF ReapNext, At, Thread
  <2> QED
    BY <1>1, <2>1 DEF Holding
<1>9. ASSUME NEW s \in Sids, CleanNext(t, s) PROVE CInv'
  <2> PICK r : r = [thread[t] EXCEPT !.at = "read", !.s = s, !.todo = thread[t].todo \ {s}]
    OBVIOUS
  <2>1. /\ thread' = [thread EXCEPT ![t] = r] /\ UNCHANGED <<meta, lines>>
        /\ r.at = "read" /\ r.call = "cleanup"
    BY <1>0, <1>9 DEF CleanNext, At, Thread
  <2> QED
    BY <1>1, <2>1 DEF Holding
<1>10. CASE ArchiveStale(t)
  <2> PICK r : r = [thread[t] EXCEPT !.at = "sweep", !.s = Main]
    OBVIOUS
  <2>1. thread' = [thread EXCEPT ![t] = r] /\ UNCHANGED <<meta, lines>> /\ r.at = "sweep"
    BY <1>0, <1>10 DEF ArchiveStale, At, Thread
  <2> QED
    BY <1>1, <2>1 DEF Holding
<1>11. CASE SweepEnds(t)
  BY <1>1, <1>11 DEF SweepEnds, Rest, Holding
<1> QED
  BY <1>3, <1>4, <1>5, <1>6, <1>7, <1>8, <1>9, <1>10, <1>11 DEF Step

LEMMA CInvKept == IInv /\ IInv' /\ CInv /\ [StNext]_stVars => CInv'
<1> SUFFICES ASSUME IInv, IInv', CInv, [StNext]_stVars PROVE CInv'
  OBVIOUS
<1>1. ASSUME UNCHANGED <<meta, lines, thread>> PROVE CInv'
  BY <1>1 DEF CInv, Below, Added, Holding
<1>2. CASE Age
  <2>1. UNCHANGED <<lines, thread>> /\ \A t \in Threads : thread[t].at = "idle"
    BY <1>2 DEF Age, At
  <2>2. ASSUME NEW s \in Sids, meta'[s] # Torn PROVE meta[s] # Torn /\ meta'[s].count = meta[s].count
    <3>1. meta[s] # Torn
      BY <1>2, <2>2 DEF Age
    <3>2. meta'[s] = [meta[s] EXCEPT !.fresh = FALSE] /\ meta[s] \in Meta
      BY <1>2, <3>1 DEF Age, IInv, TypeOK
    <3> QED
      BY <3>1, <3>2 DEF Meta
  <2> QED
    BY <2>1, <2>2 DEF CInv, Below, Added, Holding
<1>3. CASE Restart
  <2>1. \A t \in Threads : thread'[t].at = "idle"
    BY <1>3 DEF Restart, Rest
  <2>2. ASSUME NEW s \in Sids, meta'[s] # Torn PROVE meta'[s].count <= lines'[s]
    <3>1. CASE s = Main /\ ~Readable(Main)
      <4>1. meta'[s].count = 0
        BY <1>3, <3>1 DEF Restart, NewMeta
      <4>2. lines'[s] = 0
        BY <1>3, <3>1, SessionAssumption DEF Restart, IInv, TypeOK
      <4> QED
        BY <4>1, <4>2
    <3>2. CASE ~(s = Main /\ ~Readable(Main))
      <4>1. lines'[s] = lines[s]
        BY <1>3, <3>2 DEF Restart, IInv, TypeOK
      <4>2. /\ meta[s] # Torn
            /\ meta'[s] = meta[s] \/ meta'[s] = [meta[s] EXCEPT !.status = "completed", !.fresh = TRUE]
        BY <1>3, <2>2, <3>2 DEF Restart, Readable
      <4>3. meta[s] \in Meta /\ meta[s].count <= lines[s]
        BY <4>2 DEF CInv, Below, IInv, TypeOK
      <4>4. meta'[s].count = meta[s].count
        BY <4>2, <4>3 DEF Meta
      <4> QED
        BY <4>1, <4>3, <4>4
    <3> QED
      BY <3>1, <3>2
  <2> QED
    BY <2>1, <2>2 DEF CInv, Below, Added, Holding
<1>4. ASSUME NEW s \in Sids, LoadApprovals(s) PROVE CInv'
  BY <1>1, <1>4 DEF LoadApprovals
<1>5. CASE UNCHANGED stVars
  BY <1>1, <1>5 DEF stVars
<1> QED
  BY <1>2, <1>3, <1>4, <1>5, CallsCount, StepsCount DEF StNext

LEMMA CInvStarts == StInit => CInv
<1> SUFFICES ASSUME StInit PROVE CInv
  OBVIOUS
<1>1. \A t \in Threads : thread[t].at = "idle"
  BY DEF StInit, Rest
<1>2. ASSUME NEW s \in Sids, meta[s] # Torn PROVE meta[s].count = 0 /\ lines[s] = 0
  BY <1>2 DEF StInit, NewMeta
<1> QED
  BY <1>1, <1>2 DEF CInv, Below, Added, Holding

(* For any number of goroutines and wherever the daemon dies: whatever     *)
(* interleaves, the metadata of a session never counts a line that its log *)
(* does not have; and until a call without a lock crosses another one      *)
(* there it counts all of them, but one per crash, and is not left         *)
(* unreadable (session.go:317, :352, :469).                                *)
THEOREM LinesStayTrue == Spec => []LinesTrue
<1>1. IInv /\ CInv => LinesTrue
  <2> SUFFICES ASSUME IInv, CInv PROVE LinesTrue
    OBVIOUS
  <2> USE SessionAssumption
  <2>1. ASSUME NEW s \in Sids \ crossed, Readable(s), lock[s] = None
        PROVE  lines[s] <= meta[s].count + crashes
    <3>1. \A t \in Threads : ~Adds(thread[t], s)
      BY <2>1 DEF IInv, Adds, Holds, Writing
    <3>2. Due(s) = 0
      BY <3>1 DEF Due
    <3>3. Fits(meta[s].count + Due(s), s) /\ meta[s].count \in Nat
      BY <2>1 DEF IInv, Counted, Readable, TypeOK, Meta
    <3> QED
      BY <3>2, <3>3 DEF Fits
  <2>2. NoLineInvented
    BY DEF NoLineInvented, CInv, Below, Readable
  <2> QED
    BY <2>1, <2>2 DEF LinesTrue, LinesCounted, IInv
<1> QED
  BY <1>1, IInvStarts, IInvKept, CInvStarts, CInvKept, PTL DEF Spec

-----------------------------------------------------------------------------
(* The kind of a session.  Whoever writes its metadata back, from however  *)
(* old a reading, writes the kind it had; so all that is said of a session *)
(* by its file and by goroutines that are to write it agrees.              *)

Stated(s, k) ==
  \/ meta[s] # Torn /\ meta[s].kind = k
  \/ \E t \in Threads : thread[t].at = "write" /\ thread[t].s = s /\ thread[t].held.kind = k
Said(s, k) ==
  \/ Stated(s, k)
  \/ \E t \in Threads : thread[t].at = "truncate" /\ thread[t].s = s /\ thread[t].held.kind = k

(* What is swept is neither the main session nor that of a project. *)
Ephemeric(s) == dir[s] # "absent" /\ s # Main /\ \A k : Said(s, k) => k = ""
Sweeps(r) ==
  /\ \A s \in r.todo : Ephemeric(s)
  /\ r.call = "cleanup" /\ Working(r) => Ephemeric(r.s)

Agrees(s) ==
  /\ dir[s] = "absent" => \A k : ~Stated(s, k)
  /\ \A j, k : Said(s, j) /\ Said(s, k) => j = k
  /\ \A k : Stated(s, k) /\ k # "" => dir[s] = "live"

KInv ==
  /\ dir[Main] = "live" /\ \A k : Said(Main, k) => k = "main"
  /\ \A t \in Threads : Sweeps(thread[t])
  /\ \A s \in Sids : Agrees(s)

(* A step after which nothing new is said, that archives only what may be  *)
(* swept.                                                                  *)
LEMMA KindsStay ==
  ASSUME KInv, NEW t \in Threads, NEW r \in Thread, Moves(t, r), SessionAssumption,
         \A s \in Sids : \A k : Said(s, k)' => Said(s, k),
         \A s \in Sids : \A k : Stated(s, k)' => Stated(s, k) \/ dir'[s] = "live",
         \A s \in Sids : dir'[s] # dir[s] => dir'[s] = "live" \/ (dir'[s] = "archived" /\ Ephemeric(s)),
         \A s \in r.todo : Ephemeric(s),
         r.call = "cleanup" /\ Working(r) => Ephemeric(r.s),
         \A u \in Threads : thread[u] \in Thread
  PROVE  KInv'
<1> USE DEF SessionAssumption
<1>1. ASSUME NEW s \in Sids, Ephemeric(s) PROVE Ephemeric(s)'
  <2>1. dir'[s] # "absent"
    BY <1>1 DEF Ephemeric
  <2> QED
    BY <1>1, <2>1 DEF Ephemeric
<1>2. ASSUME NEW u \in Threads PROVE Sweeps(thread[u])'
  <2>1. CASE u = t
    <3>1. thread'[u] = r /\ r.todo \subseteq Sids /\ r.s \in Sids
      BY <2>1 DEF Moves, Thread
    <3> QED
      BY <1>1, <3>1 DEF Sweeps
  <2>2. CASE u # t
    <3>1. thread'[u] = thread[u] /\ thread[u].todo \subseteq Sids /\ thread[u].s \in Sids
      BY <2>2 DEF Moves, Thread
    <3>2. Sweeps(thread[u])
      BY DEF KInv
    <3> QED
      BY <1>1, <3>1, <3>2 DEF Sweeps
  <2> QED
    BY <2>1, <2>2
<1>3. ASSUME NEW s \in Sids PROVE Agrees(s)'
  <2>1. Agrees(s)
    BY DEF KInv
  <2>2. ASSUME NEW k, Stated(s, k)', k # "" PROVE dir'[s] = "live"
    <3> SUFFICES ASSUME Stated(s, k) PROVE dir'[s] = "live"
      BY <2>2
    <3>1. dir[s] = "live" /\ ~Ephemeric(s)
      BY <2>1, <2>2 DEF Agrees, Ephemeric, Said
    <3> QED
      BY <3>1
  <2>3. ASSUME NEW j, NEW k, Said(s, j)', Said(s, k)' PROVE j = k
    BY <2>1, <2>3 DEF Agrees
  <2>4. ASSUME dir'[s] = "absent", NEW k, Stated(s, k)' PROVE FALSE
    <3>1. dir[s] = "absent" /\ Stated(s, k)
      BY <2>4
    <3> QED
      BY <2>1, <3>1 DEF Agrees
  <2> QED
    BY <2>2, <2>3, <2>4 DEF Agrees
<1>4. dir'[Main] = "live" /\ \A k : Said(Main, k)' => k = "main"
  BY DEF KInv, Ephemeric
<1> QED
  BY <1>2, <1>3, <1>4 DEF KInv

(* A goroutine that keeps what it holds, or lets go of it. *)
LEMMA SayingLess ==
  ASSUME NEW t \in Threads, NEW r, Moves(t, r), meta' = meta,
         r.at \notin {"truncate", "write"}, NEW s, NEW k
  PROVE  (Said(s, k)' => Said(s, k)) /\ (Stated(s, k)' => Stated(s, k))
BY DEF Said, Stated, Moves

LEMMA CallsKeepKinds ==
  ASSUME IInv, IInv', KInv, NEW t \in Threads, Call(t)
  PROVE  KInv'
<1> USE SessionAssumption
<1>0. /\ \A u \in Threads : thread[u] \in Thread
      /\ \A s \in Sids : Agrees(s)
      /\ \A k : Said(Main, k) => k = "main"
  BY DEF IInv, TypeOK, KInv
<1>1. ASSUME NEW r, Begin(t, r), r.at \notin {"truncate", "write"},
             \A s \in r.todo : Ephemeric(s), r.call # "cleanup" \/ ~Working(r)
      PROVE  KInv'
  <2>1. thread' = [thread EXCEPT ![t] = r] /\ UNCHANGED <<dir, meta>>
    BY <1>1 DEF Begin
  <2>2. r \in Thread /\ Moves(t, r)
    BY <2>1, StepMoves
  <2>3. ASSUME NEW s \in Sids, NEW k
        PROVE  (Said(s, k)' => Said(s, k)) /\ (Stated(s, k)' => Stated(s, k))
    <3>1. meta' = meta
      BY <2>1
    <3> QED
      BY <1>1, <2>2, <3>1, SayingLess
  <2> QED
    BY <1>0, <1>1, <2>1, <2>2, <2>3, KindsStay
(* A new session: nothing is said of it before, and nobody sweeps it. *)
<1>2. ASSUME NEW s \in Sids, NEW r, Begin(t, r), IsNew(s), r.at = "truncate", r.s = s,
             r.todo = {}, r.call # "cleanup"
      PROVE  KInv'
  <2>1. thread' = [thread EXCEPT ![t] = r] /\ UNCHANGED <<dir, meta>> /\ thread[t].at = "idle"
    BY <1>2 DEF Begin, At
  <2>2. r \in Thread /\ Moves(t, r)
    BY <2>1, StepMoves
  <2>3. dir[s] = "absent" /\ s # Main /\ \A k : ~Stated(s, k)
    BY <1>0, <1>2 DEF IsNew, Agrees
  <2>4. \A u \in Threads : thread[u].at \in {"truncate", "write"} => thread[u].s # s
    BY <1>2 DEF IsNew, Users, At
  <2>5. ASSUME NEW x \in Sids, NEW k
        PROVE  /\ Stated(x, k)' => Stated(x, k)
               /\ Said(x, k)' => Said(x, k) \/ (x = s /\ k = r.held.kind)
    <3>1. meta' = meta /\ thread'[t] = r /\ \A u \in Threads \ {t} : thread'[u] = thread[u]
      BY <2>1, <2>2 DEF Moves
    <3>2. Stated(x, k)' => Stated(x, k)
      BY <1>2, <3>1 DEF Stated
    <3>3. (\E u \in Threads : thread'[u].at = "truncate" /\ thread'[u].s = x /\ thread'[u].held.kind = k)
          => Said(x, k) \/ (x = s /\ k = r.held.kind)
      BY <1>2, <3>1 DEF Said
    <3> QED
      BY <3>2, <3>3 DEF Said
  <2>6. \A k : ~Said(s, k)
    BY <2>3, <2>4 DEF Said
  <2>7. \A x \in Sids : Ephemeric(x) => Ephemeric(x)'
    BY <2>1, <2>3, <2>5 DEF Ephemeric
  <2>8. ASSUME NEW x \in Sids PROVE Agrees(x)'
    <3>1. ASSUME NEW j, NEW k, Said(x, j)', Said(x, k)' PROVE j = k
      <4>1. CASE x = s
        BY <2>5, <2>6, <3>1, <4>1
      <4>2. CASE x # s
        BY <1>0, <2>5, <3>1, <4>2 DEF Agrees
      <4> QED
        BY <4>1, <4>2
    <3> QED
      BY <1>0, <2>1, <2>5, <3>1 DEF Agrees
  <2>9. ASSUME NEW u \in Threads PROVE Sweeps(thread[u])'
    <3>1. CASE u = t
      BY <1>2, <2>2, <3>1 DEF Moves, Sweeps
    <3>2. CASE u # t
      <4>1. thread'[u] = thread[u] /\ thread[u].todo \subseteq Sids /\ thread[u].s \in Sids
        BY <1>0, <2>2, <3>2 DEF Moves, Thread
      <4>2. Sweeps(thread[u])
        BY DEF KInv
      <4> QED
        BY <2>7, <4>1, <4>2 DEF Sweeps
    <3> QED
      BY <3>1, <3>2
  <2>10. \A k : Said(Main, k)' => k = "main"
    BY <1>0, <2>3, <2>5
  <2> QED
    BY <2>1, <2>8, <2>9, <2>10 DEF KInv
(* What is listed is of no kind. *)
<1>3. ASSUME NEW s \in Sids, Readable(s), meta[s].kind = "" PROVE Ephemeric(s)
  <2>1. Said(s, meta[s].kind)
    BY <1>3 DEF Said, Stated, Readable
  <2>2. \A k : Said(s, k) => k = meta[s].kind
    BY <1>0, <2>1 DEF Agrees
  <2>3. s # Main
    BY <1>0, <1>3, <2>1
  <2> QED
    BY <1>3, <2>2, <2>3 DEF Ephemeric, Readable
<1>4. ASSUME NEW s \in Sids, AppendEvent(t, s) PROVE KInv'
  BY <1>1, <1>4 DEF AppendEvent, Rest
<1>5. ASSUME NEW s \in Sids, NEW parent \in Sids \cup {None}, Create(t, s, parent) PROVE KInv'
  <2> PICK r : r = [Rest EXCEPT !.at = "truncate", !.call = "create", !.s = s, !.peer = parent,
                             !.held = NewMeta("", parent)]
    OBVIOUS
  <2>1. r.at = "truncate" /\ r.s = s /\ r.todo = {} /\ r.call # "cleanup"
    BY DEF Rest
  <2>2. Begin(t, r) /\ IsNew(s)
    BY <1>5 DEF Create
  <2> QED
    BY <1>2, <2>1, <2>2
<1>6. ASSUME NEW s \in Sids, CreateProject(t, s) PROVE KInv'
  <2> PICK r : r = [Rest EXCEPT !.at = "truncate", !.call = "project", !.s = s,
                             !.held = NewMeta("project", None)]
    OBVIOUS
  <2>1. r.at = "truncate" /\ r.s = s /\ r.todo = {} /\ r.call # "cleanup"
    BY DEF Rest
  <2>2. Begin(t, r) /\ IsNew(s)
    BY <1>6 DEF CreateProject
  <2> QED
    BY <1>2, <2>1, <2>2
<1>7. ASSUME NEW s \in Sids, NEW st \in Closed, UpdateStatus(t, s, st) PROVE KInv'
  BY <1>1, <1>7 DEF UpdateStatus, Rest
<1>8. ASSUME NEW s \in Sids, NEW k \in Keys, SavePatterns(t, s, k) PROVE KInv'
  BY <1>1, <1>8 DEF SavePatterns, Rest
<1>9. ASSUME NEW call \in {"reap", "cleanup"}, NEW todo \in SUBSET Sids,
             \A s \in todo : Readable(s) /\ meta[s].kind = "",
             Begin(t, [Rest EXCEPT !.at = "sweep", !.call = call, !.todo = todo])
      PROVE  KInv'
  <2> PICK r : r = [Rest EXCEPT !.at = "sweep", !.call = call, !.todo = todo]
    OBVIOUS
  <2>1. r.at = "sweep" /\ r.todo = todo /\ ~Working(r)
    BY DEF Rest, Working
  <2>2. \A s \in todo : Ephemeric(s)
    BY <1>3, <1>9
  <2> QED
    BY <1>1, <1>9, <2>1, <2>2
<1>10. CASE ReapCompleted(t)
  <2> PICK todo : todo = {s \in Sids : Readable(s) /\ Reapable(meta[s])}
    OBVIOUS
  <2>1. /\ todo \in SUBSET Sids /\ \A s \in todo : Readable(s) /\ meta[s].kind = ""
        /\ Begin(t, [Rest EXCEPT !.at = "sweep", !.call = "reap", !.todo = todo])
    BY <1>10 DEF ReapCompleted, Reapable
  <2> QED
    BY <1>9, <2>1
<1>11. CASE CleanupStale(t)
  <2> PICK todo : todo = {s \in Sids : Readable(s) /\ Stale(meta[s])}
    OBVIOUS
  <2>1. /\ todo \in SUBSET Sids /\ \A s \in todo : Readable(s) /\ meta[s].kind = ""
        /\ Begin(t, [Rest EXCEPT !.at = "sweep", !.call = "cleanup", !.todo = todo])
    BY <1>11 DEF CleanupStale, Stale
  <2> QED
    BY <1>9, <2>1
<1> QED
  BY <1>4, <1>5, <1>6, <1>7, <1>8, <1>10, <1>11 DEF Call

LEMMA UpdatedKind ==
  ASSUME NEW r, NEW m \in Meta, r.call \in Updates
  PROVE  Updated(r, m).kind = m.kind
BY DEF Updated, Updates, Meta

LEMMA StepsKeepKinds ==
  ASSUME IInv, IInv', KInv, NEW t \in Threads, Step(t)
  PROVE  KInv'
<1> USE SessionAssumption
<1>0. /\ thread[t] \in Thread /\ thread[t].s \in Sids /\ Shape(thread[t])
      /\ thread \in [Threads -> Thread] /\ dir \in [Sids -> {"absent", "live", "archived"}]
      /\ meta \in [Sids -> Meta \cup {Torn}]
      /\ \A u \in Threads : thread[u] \in Thread
      /\ \A s \in Sids : Agrees(s)
      /\ Sweeps(thread[t]) /\ dir[Main] = "live"
  BY DEF IInv, TypeOK, Thread, KInv
(* Most steps leave the metadata alone and prepare nothing. *)
<1>1. ASSUME NEW r, thread' = [thread EXCEPT ![t] = r], meta' = meta,
             r.at \notin {"truncate", "write"},
             \A s \in r.todo : Ephemeric(s), r.call = "cleanup" /\ Working(r) => Ephemeric(r.s),
             \A s \in Sids : dir'[s] # dir[s] => dir'[s] = "archived" /\ Ephemeric(s)
      PROVE  KInv'
  <2>1. r \in Thread /\ Moves(t, r)
    BY <1>1, StepMoves
  <2>2. ASSUME NEW s \in Sids, NEW k
        PROVE  (Said(s, k)' => Said(s, k)) /\ (Stated(s, k)' => Stated(s, k))
    BY <1>1, <2>1, SayingLess
  <2> QED
    BY <1>0, <1>1, <2>1, <2>2, KindsStay
<1>2. ASSUME Abandon(t), UNCHANGED <<dir, meta>> PROVE KInv'
  <2> PICK r : r = IF thread[t].call = "cleanup" THEN [thread[t] EXCEPT !.at = "sweep", !.s = Main]
                   ELSE Rest
    OBVIOUS
  <2>1. thread' = [thread EXCEPT ![t] = r]
    BY <1>0, <1>2 DEF Abandon
  <2>2. r.at \in {"sweep", "idle"} /\ (r.todo = thread[t].todo \/ r.todo = {})
    BY <1>0 DEF Rest, Thread
  <2> QED
    BY <1>0, <1>1, <1>2, <2>1, <2>2 DEF Sweeps, Working
<1>3. CASE WriteLine(t) \/ Lock(t)
  <2>1. CASE Abandon(t) /\ UNCHANGED <<dir, meta>>
    BY <1>2, <2>1
  <2>2. CASE ~(Abandon(t) /\ UNCHANGED <<dir, meta>>)
    <3> PICK r : r = [thread[t] EXCEPT !.at = "read"]
      OBVIOUS
    <3>1. thread' = [thread EXCEPT ![t] = r] /\ UNCHANGED <<dir, meta>>
      BY <1>0, <1>3, <2>2 DEF WriteLine, Lock, Goto
    <3>2. thread[t].call \in {"append", "child"}
      BY <1>0, <1>3 DEF WriteLine, Lock, At, Shape
    <3>3. r.at = "read" /\ r.call = thread[t].call /\ r.todo = thread[t].todo
      BY <1>0 DEF Thread
    <3> QED
      BY <1>0, <1>1, <3>1, <3>2, <3>3 DEF Sweeps
  <2> QED
    BY <2>1, <2>2
<1>4. CASE GetMeta(t)
  <2> PICK s \in Sids : s = thread[t].s
    BY <1>0
  <2>1. CASE ~Readable(s)
    BY <1>2, <1>4, <2>1 DEF GetMeta
  <2>2. CASE Readable(s)
    <3> PICK r : r = [thread[t] EXCEPT !.at = "truncate", !.held = Updated(thread[t], meta[s])]
      OBVIOUS
    <3>1. thread' = [thread EXCEPT ![t] = r] /\ UNCHANGED <<dir, meta>> /\ thread[t].at = "read"
      BY <1>0, <1>4, <2>2 DEF GetMeta, At
    <3>2. r \in Thread /\ Moves(t, r)
      BY <3>1, StepMoves
    <3>3. /\ r.s = s /\ r.held = Updated(thread[t], meta[s]) /\ r.at = "truncate"
          /\ r.call = thread[t].call /\ r.todo = thread[t].todo
      BY <1>0 DEF Thread
    <3>4. meta[s] \in Meta /\ meta[s] # Torn /\ thread[t].call \in Updates
      BY <1>0, <2>2, <3>1 DEF Readable, Shape
    <3>5. r.held.kind = meta[s].kind
      BY <3>3, <3>4, UpdatedKind
    <3>6. ASSUME NEW x \in Sids, NEW k
          PROVE  (Said(x, k)' => Said(x, k)) /\ (Stated(x, k)' => Stated(x, k))
      <4>1. meta' = meta /\ thread'[t] = r /\ \A u \in Threads \ {t} : thread'[u] = thread[u]
        BY <3>1, <3>2 DEF Moves
      <4>2. Stated(x, k)' => Stated(x, k)
        BY <3>3, <4>1 DEF Stated
      <4>3. (\E u \in Threads : thread'[u].at = "truncate" /\ thread'[u].s = x /\ thread'[u].held.kind = k)
            => Said(x, k)
        <5>1. Said(s, meta[s].kind)
          BY <3>4 DEF Said, Stated
        <5>2. ASSUME NEW u \in Threads, thread'[u].at = "truncate", thread'[u].s = x,
                     thread'[u].held.kind = k
              PROVE  Said(x, k)
          <6>1. CASE u = t
            BY <3>3, <3>5, <4>1, <5>1, <5>2, <6>1
          <6>2. CASE u # t
            BY <4>1, <5>2, <6>2 DEF Said
          <6> QED
            BY <6>1, <6>2
        <5> QED
          BY <5>2
      <4> QED
        BY <4>2, <4>3 DEF Said
    <3>8. r.call = "cleanup" /\ Working(r) => Ephemeric(r.s)
      BY <1>0, <3>1, <3>3 DEF Sweeps, Working
    <3> QED
      BY <1>0, <3>1, <3>2, <3>3, <3>6, <3>8, KindsStay DEF Sweeps
  <2> QED
    BY <2>1, <2>2
<1>5. CASE Truncate(t)
  <2> PICK s \in Sids : s = thread[t].s
    BY <1>0
  <2>1. CASE ~(dir[s] = "live" \/ thread[t].call \in {"create", "project"})
    BY <1>2, <1>5, <2>1 DEF Truncate
  <2>2. CASE dir[s] = "live" \/ thread[t].call \in {"create", "project"}
    <3> PICK r : r = [thread[t] EXCEPT !.at = "write"]
      OBVIOUS
    <3>1. /\ thread' = [thread EXCEPT ![t] = r] /\ thread[t].at = "truncate"
          /\ meta' = [meta EXCEPT ![s] = Torn] /\ dir' = [dir EXCEPT ![s] = "live"]
      BY <1>0, <1>5, <2>2 DEF Truncate, Goto, At
    <3>2. /\ r \in Thread /\ Moves(t, r)
          /\ r.s = s /\ r.held = thread[t].held /\ r.at = "write"
          /\ r.call = thread[t].call /\ r.todo = thread[t].todo
      BY <1>0, <3>1, StepMoves DEF Thread
    <3>3. /\ \A x \in Sids : meta'[x] = meta[x] \/ meta'[x] = Torn
          /\ dir'[s] = "live" /\ meta'[s] = Torn
          /\ \A x \in Sids \ {s} : dir'[x] = dir[x] /\ meta'[x] = meta[x]
      BY <1>0, <3>1
    <3>4. thread'[t] = r /\ \A u \in Threads \ {t} : thread'[u] = thread[u]
      BY <3>2 DEF Moves
    <3>5. ASSUME NEW x \in Sids, NEW k
          PROVE  (Said(x, k)' => Said(x, k)) /\ (Stated(x, k)' => Stated(x, k) \/ dir'[x] = "live")
      <4>1. Stated(x, k)' => Stated(x, k) \/ (x = s /\ thread[t].held.kind = k)
        <5>1. meta'[x] # Torn => meta'[x] = meta[x]
          BY <3>3
        <5>2. (\E u \in Threads : thread'[u].at = "write" /\ thread'[u].s = x /\ thread'[u].held.kind = k)
              => \/ \E u \in Threads : thread[u].at = "write" /\ thread[u].s = x /\ thread[u].held.kind = k
                 \/ x = s /\ thread[t].held.kind = k
          BY <3>2, <3>4
        <5> QED
          BY <5>1, <5>2 DEF Stated
      <4>2. thread[t].held.kind = k => Said(s, k)
        BY <3>1 DEF Said
      <4>3. (\E u \in Threads : thread'[u].at = "truncate" /\ thread'[u].s = x /\ thread'[u].held.kind = k)
            => Said(x, k)
        BY <3>2, <3>4 DEF Said
      <4>4. Stated(x, k) => Said(x, k)
        BY DEF Said
      <4> QED
        BY <3>3, <4>1, <4>2, <4>3, <4>4 DEF Said
    <3>7. r.call = "cleanup" /\ Working(r) => Ephemeric(r.s)
      BY <1>0, <3>1, <3>2 DEF Sweeps, Working
    <3>8. \A x \in Sids : dir'[x] # dir[x] => dir'[x] = "live"
      BY <3>3
    <3> QED
      BY <1>0, <3>2, <3>5, <3>7, <3>8, KindsStay DEF Sweeps
  <2> QED
    BY <2>1, <2>2
<1>6. CASE Write(t)
  <2> PICK s \in Sids : s = thread[t].s
    BY <1>0
  <2> PICK r : r = NextCall(thread[t])
    OBVIOUS
  <2>1. /\ thread' = [thread EXCEPT ![t] = r] /\ thread[t].at = "write" /\ dir' = dir
    BY <1>0, <1>6 DEF Write, At
  <2>m. PICK m : meta' = [meta EXCEPT ![s] = m] /\ m \in {thread[t].held, Torn}
    BY <1>6 DEF Write
  <2>2. /\ r \in Thread /\ Moves(t, r)
        /\ thread'[t] = r /\ \A u \in Threads \ {t} : thread'[u] = thread[u]
    BY <2>1, StepMoves DEF Moves
  <2>3. r.at \in {"lock", "archive", "idle"}
    BY <1>0, <2>1, NextCallTyped
  <2>4. ASSUME NEW x \in Sids, NEW k
        PROVE  (Said(x, k)' => Said(x, k)) /\ (Stated(x, k)' => Stated(x, k))
    <3>1. meta'[x] = IF x = s THEN m ELSE meta[x]
      BY <1>0, <2>m
    <3>2. Stated(x, k)' => Stated(x, k)
      BY <2>1, <2>2, <2>3, <2>m, <3>1 DEF Stated
    <3>3. (\E u \in Threads : thread'[u].at = "truncate" /\ thread'[u].s = x /\ thread'[u].held.kind = k)
          => Said(x, k)
      BY <2>2, <2>3 DEF Said
    <3> QED
      BY <3>2, <3>3 DEF Said
  <2>6. r.todo = {} \/ (r.todo = thread[t].todo /\ r.s = thread[t].s /\ thread[t].call = "cleanup")
    BY <1>0 DEF NextCall, Rest, Thread
  <2>7. r.call = "cleanup" => r.todo = thread[t].todo /\ r.s = thread[t].s /\ thread[t].call = "cleanup"
    BY <1>0 DEF NextCall, Rest, Thread
  <2>8. /\ \A x \in r.todo : Ephemeric(x)
        /\ r.call = "cleanup" /\ Working(r) => Ephemeric(r.s)
    BY <1>0, <2>1, <2>6, <2>7 DEF Sweeps, Working
  <2> QED
    BY <1>0, <2>1, <2>2, <2>4, <2>8, KindsStay
<1>7. ASSUME NEW s \in Sids, Ephemeric(s), Archive(s)
      PROVE  \A x \in Sids : dir'[x] # dir[x] => dir'[x] = "archived" /\ Ephemeric(x)
  BY <1>0, <1>7 DEF Archive
<1>8. ASSUME NEW s \in Sids, ReapNext(t, s) PROVE KInv'
  <2> PICK r : r = [thread[t] EXCEPT !.todo = thread[t].todo \ {s}]
    OBVIOUS
  <2>1. /\ thread' = [thread EXCEPT ![t] = r] /\ meta' = meta /\ s \in thread[t].todo
        /\ r.at = "sweep" /\ r.todo \subseteq thread[t].todo /\ Archive(s)
    BY <1>0, <1>8 DEF ReapNext, At, Thread
  <2>2. Ephemeric(s)
    BY <1>0, <2>1 DEF Sweeps
  <2>3. \A x \in Sids : dir'[x] # dir[x] => dir'[x] = "archived" /\ Ephemeric(x)
    BY <1>7, <2>1, <2>2
  <2> QED
    BY <1>0, <1>1, <2>1, <2>3 DEF Sweeps, Working
<1>9. ASSUME NEW s \in Sids, CleanNext(t, s) PROVE KInv'
  <2> PICK r : r = [thread[t] EXCEPT !.at = "read", !.s = s, !.todo = thread[t].todo \ {s}]
    OBVIOUS
  <2>1. /\ thread' = [thread EXCEPT ![t] = r] /\ UNCHANGED <<dir, meta>> /\ s \in thread[t].todo
        /\ r.at = "read" /\ r.s = s /\ r.todo \subseteq thread[t].todo
    BY <1>0, <1>9 DEF CleanNext, At, Thread
  <2> QED
    BY <1>0, <1>1, <2>1 DEF Sweeps
<1>10. CASE ArchiveStale(t)
  <2> PICK r : r = [thread[t] EXCEPT !.at = "sweep", !.s = Main]
    OBVIOUS
  <2>1. /\ thread' = [thread EXCEPT ![t] = r] /\ meta' = meta /\ thread[t].at = "archive"
        /\ r.at = "sweep" /\ r.todo = thread[t].todo /\ Archive(thread[t].s)
    BY <1>0, <1>10 DEF ArchiveStale, At, Thread
  <2>2. Ephemeric(thread[t].s)
    BY <1>0, <2>1 DEF Sweeps, Working, Shape
  <2>3. \A x \in Sids : dir'[x] # dir[x] => dir'[x] = "archived" /\ Ephemeric(x)
    BY <1>0, <1>7, <2>1, <2>2
  <2> QED
    BY <1>0, <1>1, <2>1, <2>3 DEF Sweeps, Working
<1>11. CASE SweepEnds(t)
  <2>1. thread' = [thread EXCEPT ![t] = Rest] /\ UNCHANGED <<dir, meta>>
    BY <1>11 DEF SweepEnds
  <2>2. Rest.at = "idle" /\ Rest.todo = {}
    BY DEF Rest
  <2> QED
    BY <1>1, <2>1, <2>2 DEF Working
<1> QED
  BY <1>3, <1>4, <1>5, <1>6, <1>8, <1>9, <1>10, <1>11 DEF Step

LEMMA KInvKept == IInv /\ IInv' /\ KInv /\ [StNext]_stVars => KInv'
<1> SUFFICES ASSUME IInv, IInv', KInv, [StNext]_stVars PROVE KInv'
  OBVIOUS
<1> USE SessionAssumption
<1>0. /\ \A u \in Threads : thread[u] \in Thread
      /\ \A s \in Sids : Agrees(s)
      /\ dir[Main] = "live" /\ \A k : Said(Main, k) => k = "main"
  BY DEF IInv, TypeOK, KInv
<1>1. ASSUME dir' = dir, thread' = thread,
             \A s \in Sids : (meta'[s] # Torn <=> meta[s] # Torn),
             \A s \in Sids : (meta[s] # Torn => meta'[s].kind = meta[s].kind)
      PROVE  KInv'
  <2>3. ASSUME NEW s \in Sids, NEW k
        PROVE  (Said(s, k)' <=> Said(s, k)) /\ (Stated(s, k)' <=> Stated(s, k))
    <3>1. (meta'[s] # Torn <=> meta[s] # Torn)
          /\ (meta[s] # Torn => meta'[s].kind = meta[s].kind)
      BY <1>1
    <3>2. Stated(s, k)' <=> Stated(s, k)
      BY <1>1, <3>1 DEF Stated
    <3> QED
      BY <1>1, <3>2 DEF Said
  <2>4. \A s \in Sids : Ephemeric(s) => Ephemeric(s)'
    BY <1>1, <2>3 DEF Ephemeric
  <2>5. ASSUME NEW t \in Threads PROVE Sweeps(thread[t])'
    <3>1. thread'[t] = thread[t] /\ thread[t].todo \subseteq Sids /\ thread[t].s \in Sids
      BY <1>0, <1>1 DEF Thread
    <3> QED
      BY <2>4, <3>1 DEF KInv, Sweeps
  <2>6. ASSUME NEW s \in Sids PROVE Agrees(s)'
    BY <1>0, <1>1, <2>3 DEF Agrees
  <2>7. \A k : Said(Main, k)' => k = "main"
    BY <1>0, <2>3
  <2> QED
    BY <1>0, <1>1, <2>5, <2>6, <2>7 DEF KInv
<1>2. CASE Age
  <2>1. UNCHANGED <<dir, thread>> /\ \A t \in Threads : thread[t].at = "idle"
    BY <1>2 DEF Age, At
  <2>2. ASSUME NEW s \in Sids
        PROVE  /\ (meta'[s] # Torn <=> meta[s] # Torn)
               /\ (meta[s] # Torn => meta'[s].kind = meta[s].kind)
    <3>1. CASE meta[s] = Torn
      BY <1>2, <3>1 DEF Age
    <3>2. CASE meta[s] # Torn
      <4>1. meta'[s] = [meta[s] EXCEPT !.fresh = FALSE] /\ meta[s] \in Meta
        BY <1>2, <3>2 DEF Age, IInv, TypeOK
      <4>2. meta'[s] \in Meta /\ meta'[s].kind = meta[s].kind
        BY <4>1 DEF Meta
      <4> QED
        BY <3>2, <4>2, TornAssumption
    <3> QED
      BY <3>1, <3>2
  <2> QED
    BY <1>1, <2>1, <2>2
<1>3. CASE Restart
  <2> PICK stale : stale = {s \in Sids : Readable(s) /\ Stale(meta[s])}
    OBVIOUS
  <2>1. /\ thread' = [t \in Threads |-> Rest]
        /\ dir' = [s \in Sids |-> IF s \in stale THEN "archived" ELSE dir[s]]
        /\ meta' = [s \in Sids |->
             IF s \in stale
             THEN [meta[s] EXCEPT !.status = "completed", !.fresh = TRUE]
             ELSE IF s = Main /\ ~Readable(Main) THEN NewMeta("main", None)
             ELSE meta[s]]
    BY <1>3 DEF Restart
  <2>2. \A t \in Threads : thread'[t] = Rest
    BY <2>1
  <2>3. Rest.at = "idle" /\ Rest.todo = {}
    BY DEF Rest
  <2>4. ASSUME NEW s \in Sids, NEW k
        PROVE  /\ Said(s, k)' <=> meta'[s] # Torn /\ meta'[s].kind = k
               /\ Stated(s, k)' <=> meta'[s] # Torn /\ meta'[s].kind = k
    BY <2>2, <2>3 DEF Said, Stated
  <2>5. ASSUME NEW s \in stale
        PROVE  s # Main /\ meta'[s].kind = "" /\ dir'[s] = "archived"
    <3>1. meta[s] \in Meta /\ meta[s] # Torn /\ meta[s].kind = "" /\ s \in Sids
      BY DEF IInv, TypeOK, Readable, Stale
    <3>2. meta'[s].kind = ""
      BY <2>1, <3>1 DEF Meta
    <3>3. Said(s, meta[s].kind)
      BY <3>1 DEF Said, Stated
    <3> QED
      BY <1>0, <2>1, <3>1, <3>2, <3>3
  <2>6. ASSUME NEW s \in Sids \ stale, meta'[s] # Torn
        PROVE  /\ dir'[s] = dir[s] /\ dir[s] # "absent"
               /\ meta'[s].kind # "" => dir[s] = "live"
               /\ s = Main => meta'[s].kind = "main"
    <3>1. dir'[s] = dir[s]
      BY <2>1
    <3>2. CASE s = Main /\ ~Readable(Main)
      BY <1>0, <2>1, <3>1, <3>2 DEF NewMeta
    <3>3. CASE ~(s = Main /\ ~Readable(Main))
      <4>1. meta'[s] = meta[s]
        BY <2>1, <3>3
      <4>2. Stated(s, meta[s].kind) /\ Said(s, meta[s].kind)
        BY <2>6, <4>1 DEF Stated, Said
      <4> QED
        BY <1>0, <3>1, <4>1, <4>2 DEF Agrees
    <3> QED
      BY <3>2, <3>3
  <2>7. ASSUME NEW s \in Sids PROVE Agrees(s)'
    <3>1. ASSUME NEW k, Stated(s, k)' PROVE dir'[s] # "absent" /\ (k # "" => dir'[s] = "live")
      <4>1. meta'[s] # Torn /\ meta'[s].kind = k
        BY <2>4, <3>1
      <4> QED
        BY <2>5, <2>6, <4>1
    <3>2. ASSUME NEW j, NEW k, Said(s, j)', Said(s, k)' PROVE j = k
      BY <2>4, <3>2
    <3> QED
      BY <3>1, <3>2 DEF Agrees
  <2>8. dir'[Main] = "live" /\ \A k : Said(Main, k)' => k = "main"
    <3>1. Main \notin stale
      BY <2>5
    <3>2. dir'[Main] = "live"
      BY <1>0, <2>1, <3>1
    <3> QED
      BY <2>4, <2>6, <3>1, <3>2
  <2>9. \A t \in Threads : Sweeps(thread[t])'
    BY <2>2, <2>3 DEF Sweeps, Working
  <2> QED
    BY <2>7, <2>8, <2>9 DEF KInv
<1>4. ASSUME NEW s \in Sids, LoadApprovals(s) PROVE KInv'
  BY <1>1, <1>4 DEF LoadApprovals
<1>5. CASE UNCHANGED stVars
  BY <1>1, <1>5 DEF stVars
<1> QED
  BY <1>2, <1>3, <1>4, <1>5, CallsKeepKinds, StepsKeepKinds DEF StNext

LEMMA KInvStarts == StInit => KInv
<1> SUFFICES ASSUME StInit PROVE KInv
  OBVIOUS
<1> USE SessionAssumption
<1>1. \A t \in Threads : thread[t].at = "idle" /\ thread[t].todo = {}
  BY DEF StInit, Rest
<1>2. ASSUME NEW s \in Sids, NEW k
      PROVE  Said(s, k) \/ Stated(s, k) => s = Main /\ k = "main"
  BY <1>1 DEF StInit, Said, Stated, NewMeta
<1>3. dir[Main] = "live" /\ \A s \in Sids : dir[s] = "absent" => s # Main
  BY DEF StInit
<1>4. ASSUME NEW s \in Sids PROVE Agrees(s)
  <2>1. \A j, k : Said(s, j) /\ Said(s, k) => j = k
    BY <1>2
  <2>2. \A k : Stated(s, k) => dir[s] = "live"
    BY <1>2, <1>3
  <2> QED
    BY <2>1, <2>2 DEF Agrees
<1>5. \A t \in Threads : Sweeps(thread[t])
  BY <1>1 DEF Sweeps, Working
<1>6. \A k : Said(Main, k) => k = "main"
  BY <1>2
<1> QED
  BY <1>3, <1>4, <1>5, <1>6 DEF KInv

(* For any number of sessions, goroutines and calls, whatever calls cross  *)
(* and wherever the daemon dies: neither the reaper nor the clean-up       *)
(* archives the main session or a project's, although they act on what     *)
(* they listed before and every writer writes back metadata it read some   *)
(* time ago (reaper.go:20, :38, :60, session.go:422).                      *)
THEOREM PersistentStaysLive == Spec => []PersistentNeverArchived
<1>1. KInv => PersistentNeverArchived
  BY DEF KInv, Agrees, Stated, PersistentNeverArchived
<1> QED
  BY <1>1, IInvStarts, IInvKept, KInvStarts, KInvKept, PTL DEF Spec

=============================================================================
