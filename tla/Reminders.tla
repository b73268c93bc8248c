------------------------------ MODULE Reminders ------------------------------
(***************************************************************************)
(* The reminders (tool/reminder.go): one JSON file that the daemon's tick, *)
(* the reminder tool of every run and the command line all load, change    *)
(* and write back whole, with no lock between them and no temporary file.  *)
(*                                                                         *)
(* The names are prefixed (Rem...) because MCBackground composes this      *)
(* module with the others of the background work.  Abstracted: texts, the  *)
(* ids (drawn from a set), the wording of the replies.  Bounds: RemMaxTime *)
(* for the clock, RemMaxOps for the calls and deaths, RemIds for the reminders.       *)
(***************************************************************************)
EXTENDS Integers, TLC

CONSTANTS
    RemCallers,     \* the tool of a run, the command line
    RemIds,
    RemMaxTime,
    RemMaxOps,
    RemDay,         \* the clock's steps in a day
    RemRecurrences, \* "", "daily", "weekly"
    RemDues         \* the forms of a due time that are given to "add"

RemTick == "tick"
RemProcs == RemCallers \cup {RemTick}

VARIABLES
    now,
    form,       \* "missing", "whole" or "torn" (truncated, or written over one another)
    items,      \* id -> reminder: what the file held when it was last whole
    rem,        \* rem[p]: where p stands, the list it means to save, what it changed
    stale,      \* stale[p]: the file was touched by another since p loaded it
    used, ops,
    bus,        \* fired reminders on their way to the subscribers
    heard,      \* those the notification store was told of
    notes,      \* and those it keeps a notification of
    book,       \* ghost: every saved change applied to every other, in order
    clash       \* ghost: a change was saved over another one, or a file was torn

remVars == <<now, form, items, rem, stale, used, ops, bus, heard, notes, book, clash>>

RemNone == [x \in {} |-> x]
RemIdle == [at |-> "idle", list |-> RemNone, delta |-> RemNone]

----------------------------------------------------------------------------
(* A due time is a wait ("2h", "in 30 minutes"), an hour of a day to come *)
(* ("today", "tomorrow evening", a date), or an hour alone, which means   *)
(* tomorrow when it is past today.                                        *)
ParseDue(f, t) ==
    LET today == (t \div RemDay) * RemDay
    IN  CASE f.kind = "in"    -> t + f.n
          [] f.kind = "on"    -> today + f.days * RemDay + f.at
          [] f.kind = "clock" -> today + f.at + (IF today + f.at < t THEN RemDay ELSE 0)

AdvanceRecurrence(r) == [r EXCEPT !.due = @ + (IF r.recur = "weekly" THEN 7 ELSE 1) * RemDay]

(* Mutant: the loop works on a copy of a recurring reminder. *)
FiredUnmoved(r) == IF r.recur # "" THEN r ELSE [r EXCEPT !.done = TRUE]
(* A reminder after it fired: one period later, or completed. *)
Fired(r) == IF r.recur # "" THEN AdvanceRecurrence(r) ELSE [r EXCEPT !.done = TRUE]

Overdue(list) == {i \in DOMAIN list : ~list[i].done /\ list[i].due < now}

(* p holds in memory the list it is about to save. *)
Loaded(p, base, delta) ==
    /\ rem' = [rem EXCEPT ![p] = [at |-> "loaded", list |-> delta @@ base, delta |-> delta]]
    /\ stale' = [stale EXCEPT ![p] = form = "torn"]

----------------------------------------------------------------------------
Call(c) == rem[c].at = "idle" /\ ops < RemMaxOps /\ ops' = ops + 1

(* Mutant: a list that cannot be loaded, or is not there, is not looked for. *)
AddAlone(c) ==
    /\ Call(c)
    /\ \E i \in RemIds \ used, f \in RemDues, r \in RemRecurrences :
          /\ used' = used \cup {i}
          /\ Loaded(c, RemNone, i :> [due |-> ParseDue(f, now), recur |-> r, done |-> FALSE])
    /\ UNCHANGED <<now, form, items, bus, heard, notes, book, clash>>
(* "add" ignores the error of Load: from a torn file it starts a new list. *)
Add(c) ==
    /\ Call(c)
    /\ \E i \in RemIds \ used, f \in RemDues, r \in RemRecurrences :
          /\ used' = used \cup {i}
          /\ Loaded(c, IF form = "whole" THEN items ELSE RemNone,
                    i :> [due |-> ParseDue(f, now), recur |-> r, done |-> FALSE])
    /\ UNCHANGED <<now, form, items, bus, heard, notes, book, clash>>

(* "done" completes a reminder, and moves a recurring one on. *)
Done(c) ==
    /\ Call(c) /\ form = "whole"
    /\ \E i \in DOMAIN items : Loaded(c, items, i :> Fired(items[i]))
    /\ UNCHANGED <<now, form, items, used, bus, heard, notes, book, clash>>

(* "snooze" sets the due time alone: a completed reminder stays completed. *)
Snooze(c) ==
    /\ Call(c) /\ form = "whole"
    /\ \E i \in DOMAIN items : Loaded(c, items, i :> [items[i] EXCEPT !.due = now + 1])
    /\ UNCHANGED <<now, form, items, used, bus, heard, notes, book, clash>>

(* The tick of the job executor looks for overdue reminders. *)
FireOverdue ==
    /\ rem[RemTick].at = "idle" /\ form = "whole" /\ Overdue(items) # {}
    /\ Loaded(RemTick, items, [i \in Overdue(items) |-> Fired(items[i])])
    /\ UNCHANGED <<now, form, items, used, ops, bus, heard, notes, book, clash>>

(* os.WriteFile truncates the file and then fills it. *)
Others(p) == [q \in RemProcs |-> stale[q] \/ (q # p /\ rem[q].at # "idle")]
Truncate(p) ==
    /\ rem[p].at = "loaded"
    /\ rem' = [rem EXCEPT ![p].at = "writing"]
    /\ form' = "torn" /\ stale' = Others(p)
    /\ UNCHANGED <<now, items, used, ops, bus, heard, notes, book, clash>>

(* Where another wrote since, the shorter of the two texts has a tail of   *)
(* the longer one behind it.                                               *)
Fill(p) ==
    /\ rem[p].at = "writing"
    /\ rem' = [rem EXCEPT ![p] = IF p = RemTick THEN [@ EXCEPT !.at = "saved"] ELSE RemIdle]
    /\ form' \in (IF stale[p] THEN {"whole", "torn"} ELSE {"whole"})
    /\ items' = rem[p].list /\ stale' = Others(p)
    /\ book' = rem[p].delta @@ book /\ clash' = (clash \/ stale[p])
    /\ UNCHANGED <<now, used, ops, bus, heard, notes>>

(* fireReminders publishes what fired, with status "completed". *)
Publish ==
    /\ rem[RemTick].at = "saved"
    /\ bus' = bus \cup DOMAIN rem[RemTick].delta
    /\ rem' = [rem EXCEPT ![RemTick] = RemIdle]
    /\ UNCHANGED <<now, form, items, stale, used, ops, heard, notes, book, clash>>

(* The notification store keeps a note of results with status "error". *)
NoteFor(status, i) == IF status = "error" THEN {i} ELSE {}
Hear(i) ==
    /\ i \in bus /\ bus' = bus \ {i} /\ heard' = heard \cup {i}
    /\ notes' = notes \cup NoteFor("completed", i)
    /\ UNCHANGED <<now, form, items, rem, stale, used, ops, book, clash>>

(* The process that holds p's list dies; a write it was in stays torn. *)
Die(p) ==
    /\ rem[p].at # "idle" /\ ops < RemMaxOps /\ ops' = ops + 1
    /\ rem' = [rem EXCEPT ![p] = RemIdle]
    /\ clash' = (clash \/ rem[p].at = "writing")
    /\ UNCHANGED <<now, form, items, stale, used, bus, heard, notes, book>>

RemClock ==
    /\ now < RemMaxTime /\ now' = now + 1
    /\ UNCHANGED <<form, items, rem, stale, used, ops, bus, heard, notes, book, clash>>

----------------------------------------------------------------------------
RemInit ==
    /\ now = 0
    /\ \/ form = "missing" /\ items = RemNone
       \/ form = "whole" /\ \E r \in RemRecurrences :
             items = (CHOOSE i \in RemIds : TRUE) :> [due |-> 1, recur |-> r, done |-> FALSE]
    /\ rem = [p \in RemProcs |-> RemIdle] /\ stale = [p \in RemProcs |-> FALSE]
    /\ used = DOMAIN items /\ ops = 0 /\ bus = {} /\ heard = {} /\ notes = {}
    /\ book = items /\ clash = FALSE

RemNext ==
    \/ \E c \in RemCallers : Add(c) \/ Done(c) \/ Snooze(c)
    \/ FireOverdue \/ Publish \/ RemClock
    \/ \E p \in RemProcs : Truncate(p) \/ Fill(p) \/ Die(p)
    \/ \E i \in RemIds : Hear(i)
RemSpec == RemInit /\ [][RemNext]_remVars

RemProgress == FireOverdue \/ Publish \/ \E p \in RemProcs : Truncate(p) \/ Fill(p)

----------------------------------------------------------------------------
(* As long as no two of the load-change-save sequences overlapped and      *)
(* nobody died in a write, the file is the sum of every change that was    *)
(* saved (reminder.go:158, :217, :257 and :80 each rewrite the whole list, *)
(* so each has to carry everybody else's reminders over).                  *)
RemindersKept == form = "whole" /\ ~clash => items = book

(* An overdue reminder does not stay overdue: one tick completes it, or as *)
(* many ticks as it takes bring a recurring one back into the future       *)
(* (reminder.go:94 advances by one period a tick).  Only a file that was   *)
(* torn and that nobody is writing stops it (reminder.go:82).              *)
LeftTorn == form = "torn" /\ \A p \in RemProcs : rem[p].at # "writing"
OverdueEnds == \A i \in RemIds : (i \in Overdue(items)) ~> (i \notin Overdue(items) \/ LeftTorn)
=============================================================================
