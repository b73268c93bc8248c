------------------------------- MODULE Startup -------------------------------
(***************************************************************************)
(* What a daemon does once each time it starts: it makes sure of the three *)
(* dreaming jobs (agent/dreaming.go:99, before anything else runs) and it  *)
(* runs BOOT.md unless the mark file has today's date                      *)
(* (agent/heartbeat.go:178, in a goroutine of its own).  The dreaming is   *)
(* switched on and off phase by phase by the manage tool of any run.       *)
(*                                                                         *)
(* The jobs and the mark are on disk and outlive the daemon.  Bounds:      *)
(* UpMaxDay for the days, UpMaxOps for the starts, ends and calls.         *)
(***************************************************************************)
EXTENDS Integers, FiniteSets

CONSTANTS UpPhases, UpCallers, UpMaxDay, UpMaxOps

NoPhase == "none"
ASSUME StartupAssumption == UpMaxDay \in Nat \ {0} /\ NoPhase \notin UpPhases

VARIABLES
    up,         \* "down", "ensuring" or "up"
    fresh,      \* the phase whose job was added and not yet switched off
    dreams,     \* phase -> "absent", "on", "off"
    calls,      \* calls[c]: the phases a call has yet to switch, and to what
    day, mark,  \* today, and the day of the mark file (0: none)
    boot,       \* "none", or the day the running BOOT.md was begun
    booted,     \* ghost: for each day, how many of its boots ended
    wished,      \* ghost: what the last call asked for
    upset,      \* ghost: two calls overlapped, or one was cut by a crash
    upOps

upVars == <<up, fresh, dreams, calls, day, mark, boot, booted, wished, upset, upOps>>

UpOp == upOps < UpMaxOps /\ upOps' = upOps + 1
NoCall == [left |-> {}, to |-> "off"]
NoBoot == 0

----------------------------------------------------------------------------
Start ==
    /\ UpOp /\ up = "down" /\ up' = "ensuring"
    /\ UNCHANGED <<fresh, dreams, calls, day, mark, boot, booted, wished, upset>>

(* EnsureJobs: JobStore.Add enables the job it adds, an Update of its own  *)
(* disables it; a phase that has its job is left alone.                    *)
EnsureJob ==
    /\ up = "ensuring"
    /\ \/ /\ fresh = NoPhase
          /\ \E p \in UpPhases : dreams[p] = "absent" /\ fresh' = p /\ dreams' = [dreams EXCEPT ![p] = "on"]
       \/ /\ fresh # NoPhase
          /\ dreams' = [dreams EXCEPT ![fresh] = "off"] /\ fresh' = NoPhase
    /\ UNCHANGED <<up, calls, day, mark, boot, booted, wished, upset, upOps>>

BootRanToday == mark = day
(* The gateway starts; RunBootIfNeeded looks at the mark and runs BOOT.md, *)
(* or marks an empty one as run.                                           *)
Ready ==
    /\ up = "ensuring" /\ fresh = NoPhase /\ \A p \in UpPhases : dreams[p] # "absent"
    /\ up' = "up"
    /\ \/ BootRanToday /\ boot' = NoBoot /\ mark' = mark
       \/ ~BootRanToday /\ boot' = day /\ mark' = mark
       \/ ~BootRanToday /\ boot' = NoBoot /\ mark' = day
    /\ UNCHANGED <<fresh, dreams, calls, day, booted, wished, upset, upOps>>

(* Mutant: a boot that failed is not marked. *)
MarkAnswered(failed) == mark' = IF failed THEN mark ELSE day
(* MarkBootRan, whether the run failed or not: with the day by now.        *)
MarkBootRan(failed) == mark' = day
BootEnds ==
    /\ boot # NoBoot /\ boot' = NoBoot
    /\ booted' = [booted EXCEPT ![boot] = @ + 1]
    /\ \E failed \in BOOLEAN : MarkBootRan(failed)
    /\ UNCHANGED <<up, fresh, dreams, calls, day, upOps, wished, upset>>

----------------------------------------------------------------------------
(* Enable and Disable update the three jobs one after the other, in order  *)
(* of no consequence here.                                                 *)
Switch(c, to) ==
    /\ UpOp /\ up = "up" /\ calls[c] = NoCall
    /\ calls' = [calls EXCEPT ![c] = [left |-> UpPhases, to |-> to]]
    /\ wished' = to
    /\ upset' = (upset \/ \E d \in UpCallers \ {c} : calls[d] # NoCall)
    /\ UNCHANGED <<up, fresh, dreams, day, mark, boot, booted>>

SwitchOne(c) ==
    /\ calls[c].left # {}
    /\ \E p \in calls[c].left :
          /\ dreams' = [dreams EXCEPT ![p] = calls[c].to]
          /\ calls' = [calls EXCEPT ![c] =
                IF @.left = {p} THEN NoCall ELSE [left |-> @.left \ {p}, to |-> @.to]]
    /\ UNCHANGED <<up, fresh, day, mark, boot, booted, wished, upset, upOps>>

(* The daemon dies or is killed.  In a shutdown that still cancels the     *)
(* boot run, the cancelled run returns no error and may yet be marked.     *)
UpDie ==
    /\ UpOp /\ up # "down" /\ up' = "down"
    /\ upset' = (upset \/ fresh # NoPhase \/ \E c \in UpCallers : calls[c] # NoCall)
    /\ fresh' = NoPhase /\ calls' = [c \in UpCallers |-> NoCall]
    /\ boot' = NoBoot /\ mark' \in (IF boot # NoBoot THEN {mark, day} ELSE {mark})
    /\ UNCHANGED <<dreams, day, booted, wished>>

Midnight ==
    /\ day < UpMaxDay /\ day' = day + 1
    /\ UNCHANGED <<up, fresh, dreams, calls, mark, boot, booted, wished, upset, upOps>>

----------------------------------------------------------------------------
UpInit ==
    /\ up = "down" /\ fresh = NoPhase /\ dreams = [p \in UpPhases |-> "absent"]
    /\ calls = [c \in UpCallers |-> NoCall]
    /\ day = 1 /\ mark = 0 /\ boot = NoBoot /\ booted = [d \in 1..UpMaxDay |-> 0]
    /\ wished = "off" /\ upset = FALSE /\ upOps = 0

UpNext ==
    \/ Start \/ EnsureJob \/ Ready \/ BootEnds \/ UpDie \/ Midnight
    \/ \E c \in UpCallers : Switch(c, "on") \/ Switch(c, "off") \/ SwitchOne(c)

UpSpec == UpInit /\ [][UpNext]_upVars

----------------------------------------------------------------------------
(* Status: the dreaming counts as enabled when any phase is. *)
DreamingEnabled == \E p \in UpPhases : dreams[p] = "on"

(* Between two calls, and over any number of restarts, the dreaming is as  *)
(* the last call asked, and off before the first (dreaming.go:127 "off by  *)
(* default"), in all its phases; unless calls overlapped or a crash cut    *)
(* one, or came between the Add and the Update of a new job.               *)
DreamsAsAsked ==
    up # "ensuring" /\ ~upset /\ (\A c \in UpCallers : calls[c] = NoCall) =>
        /\ DreamingEnabled => wished = "on"
        /\ \A p \in UpPhases : dreams[p] # "absent" => dreams[p] = wished

(* "checks BOOT.md and runs it once per day" (heartbeat.go:177): no day    *)
(* has two boots that ran to their end, however often the daemon starts    *)
(* and however late the boots end.                                         *)
BootOncePerDay == \A d \in 1..UpMaxDay : booted[d] <= 1

(* Both: however often the daemon starts, what it does at a start is what  *)
(* was asked for (gateway.go:474, dreaming.go:97, heartbeat.go:177).       *)
StartsAsAsked == DreamsAsAsked /\ BootOncePerDay
=============================================================================
