------------------------------- MODULE Shell -------------------------------
(***************************************************************************)
(* Shell commands (tool/shell.go, tool/executor.go, tool/jobs.go): a call  *)
(* of the shell tool runs a command and waits for it, or hands it to the   *)
(* job manager, whose jobs are read with job_output and ended with         *)
(* job_kill.  All of them pass the policy and one rate limiter.            *)
(*                                                                         *)
(* A command is a process that writes into a pipe; a process it left       *)
(* behind may hold the pipe after it is gone, and os/exec's Wait returns   *)
(* only when nobody does and what was written is copied.                   *)
(*                                                                         *)
(* Abstracted: what the policy denies is a choice; output is its length;   *)
(* standard output and error are one stream; the result's wording.         *)
(* Bounds: ShMaxWrite is the longest output, ShMaxIdle the longest time    *)
(* without a refill that is told apart (a refill never exceeds ShLimit).   *)
(***************************************************************************)
EXTENDS Integers, Sequences, FiniteSets

CONSTANTS
    ShCalls, ShJobs,        \* calls of the shell tool, slots of the job manager
    ShLimit, ShWindow,      \* DefaultRateLimit commands in a window of this many ticks
    ShMaxOut, ShMaxTimeout, \* the policy's MaxOutputBytes and MaxTimeout
    ShDefault, ShTimeouts,  \* the tool's own timeout; what a call may ask for (0: nothing)
    ShMaxWrite, ShMaxIdle

NoJob == "none"
ASSUME ShellAssumption ==
    /\ ShCalls \cap ShJobs = {} /\ NoJob \notin ShJobs
    /\ {ShLimit, ShMaxOut, ShMaxTimeout, ShDefault, ShMaxWrite, ShMaxIdle} \subseteq Nat
    /\ ShWindow \in Nat \ {0} /\ ShTimeouts \subseteq Nat

VARIABLES
    cmd,        \* cmd[s]: the command of a call or of a job, and its process
    tokens, since,  \* the limiter: its tokens, the ticks since it was last filled
    killer,     \* the job that a job_kill waits for, or NoJob
    reader,     \* a job_output: the steps it has made, what it has read
    ages        \* ghost: how long ago each command of the last window was let through

shVars == <<cmd, tokens, since, killer, reader, ages>>

Fresh == [pc |-> "idle", ran |-> FALSE, alive |-> FALSE, child |-> FALSE, started |-> FALSE,
          wrote |-> 0, copied |-> 0, kept |-> 0, cut |-> FALSE, left |-> 0]
NoReader == [step |-> 0, job |-> NoJob, done |-> FALSE, seen |-> 0]
Least(a, b) == IF a < b THEN a ELSE b

----------------------------------------------------------------------------
(* rateLimiter.allow: tokens come back in proportion to the time since     *)
(* the last refill, whole ones only, and the clock restarts when some did. *)
Refill == (since * ShLimit) \div ShWindow
(* Mutant: a long pause earns more than a bucket. *)
FilledUncapped == tokens + Refill
Filled == Least(tokens + Refill, ShLimit)
Clock == since' = IF Refill > 0 THEN 0 ELSE since
Allow ==
    /\ Filled > 0 /\ tokens' = Filled - 1 /\ Clock
    /\ ages' = Append(ages, 0)
Limited == Filled <= 0 /\ tokens' = Filled /\ Clock /\ UNCHANGED ages

ClampTimeout(requested) == Least(requested, ShMaxTimeout)
Timeout(requested) == ClampTimeout(IF requested > 0 THEN requested ELSE ShDefault)

Sets(s, new) == cmd' = [cmd EXCEPT ![s] = new]
(* The executor refuses: by its policy, which costs no token, or limited. *)
Refused == UNCHANGED <<tokens, since, ages>> \/ Limited

(* A call of the shell tool: Run is refused, or its process starts or not. *)
RunIsRefused(c) ==
    /\ cmd[c].pc \in {"idle", "done"} /\ Refused
    /\ Sets(c, [Fresh EXCEPT !.pc = "done"])
    /\ UNCHANGED <<killer, reader>>
RunFails(c) ==
    /\ cmd[c].pc \in {"idle", "done"} /\ Allow
    /\ Sets(c, [Fresh EXCEPT !.pc = "done"])
    /\ UNCHANGED <<killer, reader>>
RunStarts(c, requested) ==
    /\ cmd[c].pc \in {"idle", "done"} /\ Allow
    /\ Sets(c, [Fresh EXCEPT !.pc = "running", !.ran = TRUE, !.alive = TRUE, !.left = Timeout(requested)])
    /\ UNCHANGED <<killer, reader>>

(* The context ends, at its deadline or because the turn is cancelled: the *)
(* process is killed, what it left behind is not.                          *)
ContextEnds(c) ==
    /\ cmd[c].pc = "running" /\ cmd[c].alive
    /\ Sets(c, [cmd[c] EXCEPT !.alive = FALSE])
    /\ UNCHANGED <<tokens, since, killer, reader, ages>>
Expires(c) == cmd[c].left = 0 /\ ContextEnds(c)

(* JobManager.Start answers with an id at once; a command that is refused  *)
(* becomes a job all the same, which runs "false".                         *)
JobIsMade(j) ==
    /\ cmd[j].pc \in {"idle", "done"} /\ killer # j /\ reader.job # j
    /\ \/ Refused /\ Sets(j, [Fresh EXCEPT !.pc = "made"])
       \/ Allow /\ Sets(j, [Fresh EXCEPT !.pc = "made", !.ran = TRUE])
    /\ UNCHANGED <<killer, reader>>

JobStarts(j) ==
    /\ cmd[j].pc = "made"
    /\ Sets(j, [cmd[j] EXCEPT !.pc = "running", !.started = TRUE, !.alive = TRUE])
    /\ UNCHANGED <<tokens, since, killer, reader, ages>>
(* Mutant: only a job that started says so. *)
JobFailsSilently(j) ==
    /\ cmd[j].pc = "made"
    /\ Sets(j, [cmd[j] EXCEPT !.pc = "done"])
    /\ UNCHANGED <<tokens, since, killer, reader, ages>>
JobFails(j) ==
    /\ cmd[j].pc = "made"
    /\ Sets(j, [cmd[j] EXCEPT !.pc = "done", !.started = TRUE])
    /\ UNCHANGED <<tokens, since, killer, reader, ages>>

----------------------------------------------------------------------------
(* The processes. *)
Writes(s) ==
    /\ cmd[s].ran /\ (cmd[s].alive \/ cmd[s].child) /\ cmd[s].wrote < ShMaxWrite
    /\ Sets(s, [cmd[s] EXCEPT !.wrote = @ + 1])
    /\ UNCHANGED <<tokens, since, killer, reader, ages>>
LeavesChild(s) ==
    /\ cmd[s].ran /\ cmd[s].alive /\ ~cmd[s].child
    /\ Sets(s, [cmd[s] EXCEPT !.child = TRUE])
    /\ UNCHANGED <<tokens, since, killer, reader, ages>>
Exits(s) ==
    /\ cmd[s].alive /\ Sets(s, [cmd[s] EXCEPT !.alive = FALSE])
    /\ UNCHANGED <<tokens, since, killer, reader, ages>>
ChildEnds(s) ==
    /\ cmd[s].child /\ Sets(s, [cmd[s] EXCEPT !.child = FALSE])
    /\ UNCHANGED <<tokens, since, killer, reader, ages>>

(* limitedBuffer.Write of n bytes: what fits is kept, the rest dropped.    *)
(* Mutant: output that just fits is taken for too long. *)
LimitedEarly(c, n) ==
    IF c.cut THEN c
    ELSE IF n >= ShMaxOut - c.kept THEN [c EXCEPT !.kept = ShMaxOut, !.cut = TRUE]
         ELSE [c EXCEPT !.kept = @ + n]
LimitedWrite(c, n) ==
    IF c.cut THEN c
    ELSE IF n > ShMaxOut - c.kept THEN [c EXCEPT !.kept = ShMaxOut, !.cut = TRUE]
         ELSE [c EXCEPT !.kept = @ + n]

(* What is in the pipe reaches the buffer; a job's is not limited. *)
Copies(s) ==
    /\ \E n \in 1..(cmd[s].wrote - cmd[s].copied) :
          LET c == [cmd[s] EXCEPT !.copied = @ + n]
          IN  Sets(s, IF s \in ShCalls THEN LimitedWrite(c, n) ELSE [c EXCEPT !.kept = @ + n])
    /\ UNCHANGED <<tokens, since, killer, reader, ages>>

(* Wait: the process is gone and nobody holds the pipe. *)
WaitReturns(s) ==
    /\ cmd[s].pc = "running" /\ ~cmd[s].alive /\ ~cmd[s].child /\ cmd[s].copied = cmd[s].wrote
    /\ Sets(s, [cmd[s] EXCEPT !.pc = "done", !.left = 0])
    /\ UNCHANGED <<tokens, since, killer, reader, ages>>

----------------------------------------------------------------------------
(* job_kill waits until the process has started, or failed to. *)
Kill(j) ==
    /\ killer = NoJob /\ cmd[j].pc # "idle" /\ killer' = j
    /\ UNCHANGED <<cmd, tokens, since, reader, ages>>
KillReturns(j) ==
    /\ killer = j /\ cmd[j].started /\ killer' = NoJob
    /\ Sets(j, [cmd[j] EXCEPT !.alive = FALSE])
    /\ UNCHANGED <<tokens, since, reader, ages>>

(* job_output reads whether the job is done, then what it wrote so far. *)
ReadOrder == <<"done", "output">>
JobOutput(j) ==
    /\ reader.step = 0 /\ cmd[j].pc # "idle" /\ reader' = [NoReader EXCEPT !.step = 1, !.job = j]
    /\ UNCHANGED <<cmd, tokens, since, killer, ages>>
Reads ==
    /\ reader.step \in DOMAIN ReadOrder
    /\ LET j == reader.job
       IN  reader' = IF ReadOrder[reader.step] = "done"
                     THEN [reader EXCEPT !.step = @ + 1, !.done = cmd[j].pc = "done"]
                     ELSE [reader EXCEPT !.step = @ + 1, !.seen = cmd[j].kept]
    /\ UNCHANGED <<cmd, tokens, since, killer, ages>>
AnswerIsGiven ==
    /\ reader.step > Len(ReadOrder) /\ reader' = NoReader
    /\ UNCHANGED <<cmd, tokens, since, killer, ages>>

(* Time passes: the commands that are older than the window are forgotten, *)
(* which are the first n.                                                  *)
Aged == \E n \in 0..Len(ages) :
    /\ \A i \in 1..Len(ages) : ages[i] + 1 >= ShWindow <=> i <= n
    /\ ages' = [i \in 1..Len(ages) - n |-> ages[i + n] + 1]
Tick ==
    /\ since' = Least(since + 1, ShMaxIdle)
    /\ Aged
    /\ cmd' = [s \in DOMAIN cmd |-> [cmd[s] EXCEPT !.left = IF @ > 0 THEN @ - 1 ELSE 0]]
    /\ UNCHANGED <<tokens, killer, reader>>

----------------------------------------------------------------------------
ShInit ==
    /\ cmd = [s \in ShCalls \cup ShJobs |-> Fresh] /\ tokens = ShLimit /\ since = 0
    /\ killer = NoJob /\ reader = NoReader /\ ages = <<>>

ShNext ==
    \/ \E c \in ShCalls : \/ RunIsRefused(c) \/ RunFails(c) \/ \E t \in ShTimeouts : RunStarts(c, t)
                          \/ ContextEnds(c)
    \/ \E j \in ShJobs : \/ JobIsMade(j) \/ JobStarts(j) \/ JobFails(j)
                         \/ Kill(j) \/ KillReturns(j) \/ JobOutput(j)
    \/ \E s \in ShCalls \cup ShJobs : \/ Writes(s) \/ LeavesChild(s) \/ Exits(s) \/ ChildEnds(s)
                                      \/ Copies(s) \/ WaitReturns(s)
    \/ Reads \/ AnswerIsGiven \/ Tick

ShSpec == ShInit /\ [][ShNext]_shVars

(* Time passes, timers fire, and goroutines that can go on do; nothing is  *)
(* asked of the processes.                                                 *)
ShFairness ==
    /\ WF_shVars(Tick)
    /\ \A c \in ShCalls : WF_shVars(Expires(c))
    /\ \A j \in ShJobs : WF_shVars(JobStarts(j) \/ JobFails(j)) /\ WF_shVars(KillReturns(j))
    /\ \A s \in ShCalls \cup ShJobs : WF_shVars(Copies(s)) /\ WF_shVars(WaitReturns(s))

----------------------------------------------------------------------------
(* Whatever the calls and the pauses between them, a window never sees     *)
(* more than twice the limit of "max %d commands per minute"               *)
(* (executor.go:107): a full bucket, and what comes back while it empties. *)
RateBounded == Len(ages) <= 2 * ShLimit

(* A result is whole: a call's holds all that fits, and says so when some  *)
(* did not (executor.go:683); a job that job_output calls completed is     *)
(* shown with everything it wrote (jobs.go:132).                           *)
ResultsAreWhole ==
    /\ \A c \in ShCalls : cmd[c].pc = "done" =>
          cmd[c].kept = Least(cmd[c].wrote, ShMaxOut) /\ (cmd[c].cut <=> cmd[c].wrote > ShMaxOut)
    /\ reader.step > Len(ReadOrder) /\ reader.done => reader.seen = cmd[reader.job].wrote

(* A call of the shell tool ends although its command never does, unless a *)
(* process the command left behind holds its output (executor.go:113); and *)
(* a job_kill ends even if its job could not start (jobs.go:83, :114).     *)
ShellCallsEnd ==
    /\ \A c \in ShCalls : cmd[c].pc = "running" ~> (cmd[c].pc = "done" \/ cmd[c].child)
    /\ killer # NoJob ~> killer = NoJob
=============================================================================
