---------------------------- MODULE SessionStore ----------------------------
(***************************************************************************)
(* The session store: a directory per session with meta.json and an event  *)
(* log, the calls that change them, the reaper and the clean-up of stale   *)
(* sessions.  Calls of several goroutines (and of "ecl session cleanup",   *)
(* another process) interleave.  meta.json is read, changed in memory and  *)
(* written back; Append and addChild do that under the lock of the         *)
(* session, the other calls do not, and os.WriteFile truncates the file    *)
(* before it fills it.                                                     *)
(*                                                                         *)
(* UpdateTitle and Delete have no callers.  An event is one line; what it  *)
(* says, token counts and titles are left out.                             *)
(***************************************************************************)
EXTENDS Integers, FiniteSets

CONSTANTS
  Sids,        \* session ids
  Main,        \* the well-known id of the main session
  Threads,     \* goroutines that call the store
  Keys,        \* approvals a user can give for good
  Torn,        \* a meta.json that does not parse
  None,        \* absent value
  Calls,       \* the calls the environment makes
  MaxCalls,    \* bound: calls
  MaxCrashes   \* bound: crashes of the daemon

AllCalls == {"append", "create", "project", "status", "patterns", "reap", "cleanup"}

ASSUME SessionAssumption ==
  /\ Main \in Sids /\ None \notin Sids \cup Threads /\ Torn \notin Sids
  /\ Calls \subseteq AllCalls
  /\ {MaxCalls, MaxCrashes} \subseteq Nat

VARIABLES
  dir,     \* where the directory of a session is
  meta,    \* its meta.json
  lines,   \* how many lines its events.jsonl has
  lock,    \* who holds its mutex
  thread,  \* the call each goroutine is in
  keys,    \* PermissionChecker: the approvals of this daemon
  saved,   \* history: the approvals SavePatterns reported as saved
  crossed, \* history: sessions an unlocked call has shared with another call
  calls, crashes

stVars == <<dir, meta, lines, lock, thread, keys, saved, crossed, calls, crashes>>

Closed == {"completed", "error", "cancelled"}
Meta ==
  [kind : {"", "main", "project"}, parent : Sids \cup {None},
   status : {"active"} \cup Closed, count : Nat, children : SUBSET Sids,
   patterns : SUBSET Keys, fresh : BOOLEAN]
ASSUME TornAssumption == Torn \notin Meta

(* s is the session a call is about; peer, to and grant are what it is to  *)
(* write there, held is the metadata it has in memory, todo the sessions   *)
(* it has yet to sweep.                                                    *)
Phases == {"idle", "line", "lock", "read", "truncate", "write", "sweep", "archive"}
Thread ==
  [at : Phases, call : AllCalls \cup {"none", "child"}, s : Sids,
   peer : Sids \cup {None}, to : {"active"} \cup Closed, grant : SUBSET Keys,
   held : Meta \cup {Torn}, todo : SUBSET Sids]

TypeOK ==
  /\ dir \in [Sids -> {"absent", "live", "archived"}]
  /\ meta \in [Sids -> Meta \cup {Torn}]
  /\ lines \in [Sids -> Nat]
  /\ lock \in [Sids -> Threads \cup {None}]
  /\ thread \in [Threads -> Thread]
  /\ keys \subseteq Keys /\ saved \in [Sids -> SUBSET Keys] /\ crossed \subseteq Sids
  /\ calls \in Nat /\ crashes \in Nat

At(t)       == thread[t].at
Readable(s) == dir[s] = "live" /\ meta[s] # Torn
Ephemeral   == {s \in Sids : Readable(s) /\ meta[s].kind = ""}
Users(s)    ==
  {t \in Threads : At(t) \notin {"idle", "sweep"} /\ s \in {thread[t].s, thread[t].peer}}

Rest == [at |-> "idle", call |-> "none", s |-> Main, peer |-> None,
         to |-> "active", grant |-> {}, held |-> Torn, todo |-> {}]

NewMeta(kind, parent) ==
  [kind |-> kind, parent |-> parent, status |-> "active", count |-> 0,
   children |-> {}, patterns |-> {}, fresh |-> TRUE]
-----------------------------------------------------------------------------
(* Calls begin.                                                            *)

Begin(t, state) ==
  /\ At(t) = "idle" /\ state.call \in Calls
  /\ calls < MaxCalls /\ calls' = calls + 1
  /\ thread' = [thread EXCEPT ![t] = state]
  /\ UNCHANGED <<dir, meta, lines, lock, saved, crashes>>

(* Callers know a session once the call that creates it has returned.      *)
Known(s) ==
  /\ dir[s] = "live"
  /\ \A t \in Users(s) : thread[t].s = s => thread[t].call \notin {"create", "project"}

(* A call comes to s.  It crosses another one there if one of the two      *)
(* takes no lock.                                                          *)
Unlocked == {"status", "patterns", "cleanup"}

Crosses(call, s) ==
  \E t \in Users(s) : call \in Unlocked \/ thread[t].call \in Unlocked

ComesTo(call, s) == crossed' = IF Crosses(call, s) THEN crossed \cup {s} ELSE crossed

AppendEvent(t, s) ==
  /\ Known(s) /\ ComesTo("append", s)
  /\ Begin(t, [Rest EXCEPT !.at = "line", !.call = "append", !.s = s])
  /\ UNCHANGED keys

(* A new id is a fresh UUID.                                               *)
IsNew(s) == dir[s] = "absent" /\ Users(s) = {} /\ s # Main

Create(t, s, parent) ==
  /\ IsNew(s)
  /\ IF parent = None THEN UNCHANGED crossed
     ELSE Known(parent) /\ ComesTo("create", parent)
  /\ Begin(t, [Rest EXCEPT !.at = "truncate", !.call = "create", !.s = s,
                           !.peer = parent, !.held = NewMeta("", parent)])
  /\ UNCHANGED keys

(* FindByProject skips a session whose meta.json it cannot parse.          *)
FindByProject ==
  {s \in Sids : Readable(s) /\ meta[s].kind = "project" /\ meta[s].status = "active"}

CreateProject(t, s) ==
  /\ IsNew(s) /\ FindByProject = {}
  /\ Begin(t, [Rest EXCEPT !.at = "truncate", !.call = "project", !.s = s,
                           !.held = NewMeta("project", None)])
  /\ UNCHANGED <<keys, crossed>>

(* Runner.Run and the job executor: only for sessions that do not persist. *)
UpdateStatus(t, s, st) ==
  /\ Known(s) /\ s \in Ephemeral /\ ComesTo("status", s)
  /\ Begin(t, [Rest EXCEPT !.at = "read", !.call = "status", !.s = s, !.to = st])
  /\ UNCHANGED keys

(* An approval for good joins those of the daemon; all of them are saved.  *)
SavePatterns(t, s, k) ==
  /\ Known(s) /\ ComesTo("patterns", s)
  /\ keys' = keys \cup {k}
  /\ Begin(t, [Rest EXCEPT !.at = "read", !.call = "patterns", !.s = s, !.grant = keys'])

Reapable(m) == m.kind = "" /\ m.status \in {"completed", "error"} /\ ~m.fresh
Stale(m)    == m.kind = "" /\ m.status = "active" /\ ~m.fresh

ReapCompleted(t) ==
  /\ Begin(t, [Rest EXCEPT !.at = "sweep", !.call = "reap",
                           !.todo = {s \in Sids : Readable(s) /\ Reapable(meta[s])}])
  /\ UNCHANGED <<keys, crossed>>

CleanupStale(t) ==
  /\ Begin(t, [Rest EXCEPT !.at = "sweep", !.call = "cleanup",
                           !.todo = {s \in Sids : Readable(s) /\ Stale(meta[s])}])
  /\ UNCHANGED <<keys, crossed>>
-----------------------------------------------------------------------------
(* Calls proceed.                                                          *)

Goto(t, phase) == thread' = [thread EXCEPT ![t].at = phase]
Unlock(t) == lock' = [s \in Sids |-> IF lock[s] = t THEN None ELSE lock[s]]

(* An early return, with the deferred unlock; CleanupStale goes on with    *)
(* its next session.                                                       *)
Abandon(t) ==
  /\ thread' = [thread EXCEPT ![t] =
       IF @.call = "cleanup" THEN [@ EXCEPT !.at = "sweep", !.s = Main] ELSE Rest]
  /\ Unlock(t)

(* Mutant: nobody takes the lock.                                          *)
WriteLineUnlocked(t) ==
  LET s == thread[t].s
  IN  /\ At(t) = "line"
      /\ IF dir[s] = "live"
         THEN /\ lines' = [lines EXCEPT ![s] = @ + 1]
              /\ UNCHANGED lock /\ Goto(t, "read")
         ELSE UNCHANGED lines /\ Abandon(t)
      /\ UNCHANGED <<dir, meta, keys, saved, crossed, calls, crashes>>

(* Append takes the lock and adds its line before it looks at meta.json.   *)
WriteLine(t) ==
  LET s == thread[t].s
  IN  /\ At(t) = "line" /\ lock[s] = None
      /\ IF dir[s] = "live"
         THEN /\ lines' = [lines EXCEPT ![s] = @ + 1]
              /\ lock' = [lock EXCEPT ![s] = t]
              /\ Goto(t, "read")
         ELSE UNCHANGED lines /\ Abandon(t)
      /\ UNCHANGED <<dir, meta, keys, saved, crossed, calls, crashes>>

Lock(t) ==
  /\ At(t) = "lock" /\ lock[thread[t].s] = None
  /\ lock' = [lock EXCEPT ![thread[t].s] = t]
  /\ Goto(t, "read")
  /\ UNCHANGED <<dir, meta, lines, keys, saved, crossed, calls, crashes>>

(* What each call changes in the metadata it has read.                     *)
Updated(state, m) ==
  CASE state.call = "append"   -> [m EXCEPT !.count = @ + 1, !.fresh = TRUE]
    [] state.call = "child"    -> [m EXCEPT !.children = @ \cup {state.peer}, !.fresh = TRUE]
    [] state.call = "status"   -> [m EXCEPT !.status = state.to, !.fresh = TRUE]
    [] state.call = "cleanup"  -> [m EXCEPT !.status = "completed", !.fresh = TRUE]
    [] state.call = "patterns" -> [m EXCEPT !.patterns = state.grant]

GetMeta(t) ==
  LET s == thread[t].s
  IN  /\ At(t) = "read"
      /\ IF Readable(s)
         THEN /\ thread' = [thread EXCEPT ![t].at = "truncate",
                                          ![t].held = Updated(thread[t], meta[s])]
              /\ UNCHANGED lock
         ELSE Abandon(t)
      /\ UNCHANGED <<dir, meta, lines, keys, saved, crossed, calls, crashes>>

(* saveMeta opens the file, which empties it; a new session gets its       *)
(* directory first.                                                        *)
Truncate(t) ==
  LET s == thread[t].s
  IN  /\ At(t) = "truncate"
      /\ IF dir[s] = "live" \/ thread[t].call \in {"create", "project"}
         THEN /\ dir' = [dir EXCEPT ![s] = "live"]
              /\ meta' = [meta EXCEPT ![s] = Torn]
              /\ Goto(t, "write") /\ UNCHANGED lock
         ELSE UNCHANGED <<dir, meta>> /\ Abandon(t)
      /\ UNCHANGED <<lines, keys, saved, crossed, calls, crashes>>

(* Mutant: a new session is not linked to its parent.                      *)
NextCallUnlinked(state) ==
  IF state.call = "cleanup" THEN [state EXCEPT !.at = "archive"] ELSE Rest

(* Create then links the session to its parent, CleanupStale archives it.  *)
NextCall(state) ==
  CASE state.call = "create" /\ state.peer # None ->
         [Rest EXCEPT !.at = "lock", !.call = "child", !.s = state.peer, !.peer = state.s]
    [] state.call = "cleanup" -> [state EXCEPT !.at = "archive"]
    [] OTHER -> Rest

(* A write over what somebody else wrote since the file was emptied leaves *)
(* the tail of the longer of the two, or nothing of it.                    *)
Write(t) ==
  LET s == thread[t].s
  IN  /\ At(t) = "write"
      /\ \E m \in IF meta[s] = Torn THEN {thread[t].held} ELSE {thread[t].held, Torn} :
           meta' = [meta EXCEPT ![s] = m]
      /\ thread' = [thread EXCEPT ![t] = NextCall(@)]
      /\ Unlock(t)
      /\ saved' = IF thread[t].call = "patterns"
                  THEN [saved EXCEPT ![s] = thread[t].grant] ELSE saved
      /\ UNCHANGED <<dir, lines, keys, crossed, calls, crashes>>

Archive(s) ==
  dir' = IF dir[s] = "live" THEN [dir EXCEPT ![s] = "archived"] ELSE dir

(* The reaper archives what it listed, one after the other.                *)
ReapNext(t, s) ==
  /\ At(t) = "sweep" /\ thread[t].call = "reap" /\ s \in thread[t].todo
  /\ Archive(s)
  /\ thread' = [thread EXCEPT ![t].todo = @ \ {s}]
  /\ UNCHANGED <<meta, lines, lock, keys, saved, crossed, calls, crashes>>

CleanNext(t, s) ==
  /\ At(t) = "sweep" /\ thread[t].call = "cleanup" /\ s \in thread[t].todo
  /\ ComesTo("cleanup", s)
  /\ thread' = [thread EXCEPT ![t].at = "read", ![t].s = s, ![t].todo = @ \ {s}]
  /\ UNCHANGED <<dir, meta, lines, lock, keys, saved, calls, crashes>>

ArchiveStale(t) ==
  /\ At(t) = "archive"
  /\ Archive(thread[t].s)
  /\ thread' = [thread EXCEPT ![t].at = "sweep", ![t].s = Main]
  /\ UNCHANGED <<meta, lines, lock, keys, saved, crossed, calls, crashes>>

SweepEnds(t) ==
  /\ At(t) = "sweep" /\ thread[t].todo = {}
  /\ thread' = [thread EXCEPT ![t] = Rest]
  /\ UNCHANGED <<dir, meta, lines, lock, keys, saved, crossed, calls, crashes>>
-----------------------------------------------------------------------------
(* An hour or a day without updates.  No call takes that long.             *)
Age ==
  /\ \A t \in Threads : At(t) = "idle"
  /\ \E s \in Sids : Readable(s) /\ meta[s].fresh
  /\ meta' = [s \in Sids |->
                IF meta[s] = Torn THEN Torn ELSE [meta[s] EXCEPT !.fresh = FALSE]]
  /\ UNCHANGED <<dir, lines, lock, thread, keys, saved, crossed, calls, crashes>>

(* Run loads the approvals of the session it resumes.                      *)
LoadApprovals(s) ==
  /\ Readable(s) /\ ~(meta[s].patterns \subseteq keys)
  /\ keys' = keys \cup meta[s].patterns
  /\ UNCHANGED <<dir, meta, lines, lock, thread, saved, crossed, calls, crashes>>

(* A crash and the next start, which creates the main session anew, with   *)
(* an empty log, unless it can read its metadata, and then archives stale  *)
(* sessions before anything else runs.                                     *)
Restart ==
  /\ crashes < MaxCrashes /\ crashes' = crashes + 1
  /\ thread' = [t \in Threads |-> Rest]
  /\ lock' = [s \in Sids |-> None]
  /\ keys' = {}
  /\ LET stale == {s \in Sids : Readable(s) /\ Stale(meta[s])}
     IN  /\ dir' = [s \in Sids |-> IF s \in stale THEN "archived" ELSE dir[s]]
         /\ meta' = [s \in Sids |->
              IF s \in stale
              THEN [meta[s] EXCEPT !.status = "completed", !.fresh = TRUE]
              ELSE IF s = Main /\ ~Readable(Main) THEN NewMeta("main", None)
              ELSE meta[s]]
  /\ lines' = [lines EXCEPT ![Main] = IF Readable(Main) THEN @ ELSE 0]
  /\ UNCHANGED <<saved, crossed, calls>>
-----------------------------------------------------------------------------
(* The first start has created the main session.                           *)
StInit ==
  /\ dir = [s \in Sids |-> IF s = Main THEN "live" ELSE "absent"]
  /\ meta = [s \in Sids |-> IF s = Main THEN NewMeta("main", None) ELSE Torn]
  /\ lines = [s \in Sids |-> 0]
  /\ lock = [s \in Sids |-> None]
  /\ thread = [t \in Threads |-> Rest]
  /\ keys = {} /\ saved = [s \in Sids |-> {}] /\ crossed = {}
  /\ calls = 0 /\ crashes = 0

Call(t) ==
  \/ \E s \in Sids : AppendEvent(t, s) \/ CreateProject(t, s)
  \/ \E s \in Sids, parent \in Sids \cup {None} : Create(t, s, parent)
  \/ \E s \in Sids, st \in Closed : UpdateStatus(t, s, st)
  \/ \E s \in Sids, k \in Keys : SavePatterns(t, s, k)
  \/ ReapCompleted(t) \/ CleanupStale(t)

Step(t) ==
  \/ WriteLine(t) \/ Lock(t) \/ GetMeta(t) \/ Truncate(t) \/ Write(t)
  \/ \E s \in Sids : ReapNext(t, s) \/ CleanNext(t, s)
  \/ ArchiveStale(t) \/ SweepEnds(t)

StNext ==
  \/ \E t \in Threads : Call(t) \/ Step(t)
  \/ Age \/ Restart
  \/ \E s \in Sids : LoadApprovals(s)

Spec == StInit /\ [][StNext]_stVars
-----------------------------------------------------------------------------
(* Whatever interleaves, the metadata of a session never counts a line     *)
(* that is not in the log.  Append counts every line it writes, however    *)
(* many goroutines log to the session and link children to it, until a     *)
(* call that takes no lock crosses another there; a crash costs the count  *)
(* one line at most.                                                       *)
NoLineInvented == \A s \in Sids : Readable(s) => meta[s].count <= lines[s]

LinesCounted ==
  \A s \in Sids \ crossed :
    Readable(s) /\ lock[s] = None => lines[s] <= meta[s].count + crashes

(* The metadata of a session does not stay unreadable unless the daemon    *)
(* crashes or two calls cross: whoever emptied the file is about to fill   *)
(* it.                                                                     *)
TornHasWriter ==
  crashes = 0 =>
    \A s \in Sids \ crossed : dir[s] = "live" /\ meta[s] = Torn =>
      \E t \in Threads : At(t) = "write" /\ thread[t].s = s

(* All: what the lock is for (session.go:317, :352, :469).                 *)
LinesTrue == NoLineInvented /\ LinesCounted /\ TornHasWriter

(* Once Create has returned, the parent lists its child, whatever other    *)
(* call with a lock wrote to the parent meanwhile.                         *)
BeingLinked(c) ==
  \E t \in Threads : At(t) # "idle" /\ c \in {thread[t].s, thread[t].peer}

ChildrenLinked ==
  crashes = 0 =>
    \A c \in Sids, p \in Sids \ crossed :
      Readable(c) /\ Readable(p) /\ meta[c].parent = p /\ ~BeingLinked(c) =>
        c \in meta[p].children

(* The reaper and the clean-up, working from listings that grow old, never *)
(* archive the main session or the session of a project, whatever calls    *)
(* cross.                                                                  *)
PersistentNeverArchived ==
  \A s \in Sids : meta[s] # Torn /\ meta[s].kind # "" => dir[s] = "live"

(* PROJECT_TASKS: "Persistent sessions maintain approvals across           *)
(* resumptions".  What SavePatterns reported as saved is there to be       *)
(* loaded when nobody is writing, if no call crossed another: SavePatterns *)
(* and Append lose each other's changes otherwise.                         *)
SavedApprovalsKept ==
  crashes = 0 =>
    \A s \in Sids \ crossed :
      Readable(s) /\ Users(s) = {} => saved[s] \subseteq meta[s].patterns

(* What was put into the metadata stays there, although all its writers    *)
(* write all of it back, and the session where it is, although the reaper  *)
(* acts on what it listed before (session.go:180, :351, reaper.go:38).     *)
MetaKept == ChildrenLinked /\ SavedApprovalsKept /\ PersistentNeverArchived
=============================================================================
