----------------------------- MODULE Compaction -----------------------------
(***************************************************************************)
(* The compaction loop (agent/runner.go:473): a run whose session has used *)
(* up its window is followed by a summary of the older messages, and by    *)
(* another run with that summary and the newest messages as its history.   *)
(* What was important is first saved to today's daily log                  *)
(* (agent/memflush.go).  A later turn starts from what the log of the      *)
(* session rebuilds (persist/convert.go:80).                               *)
(*                                                                         *)
(* A message is its role, the things it tells at least by their beginning, *)
(* and those it tells whole: a number for what was said, all that it       *)
(* mentions for a summary.  CmLong are the things too long for an entry of *)
(* a summary's timeline (a text of more than 120 characters, a call's      *)
(* input of 80), CmLonger those too long to stand there as pending work    *)
(* (300).  The role "call" is an assistant's message that has a tool's     *)
(* call and no text, "summary" a user's message with one.  Abstracted: the *)
(* text of the summary, its statistics, the paths it lists, the wording of *)
(* the flush's prompt.                                                     *)
(* Bounds: CmMaxRuns; CmRequests and CmTimeline stand for the 3 and the 30 *)
(* that a summary keeps.                                                   *)
(***************************************************************************)
EXTENDS Integers, Sequences, FiniteSets, SequencesExt, FiniteSetsExt

CONSTANTS
    CmThreshold, CmWindow,  \* tokens
    CmUsages,               \* what a run may report as used
    CmPreserve,             \* PreserveCount
    CmMax,                  \* maxCompactions
    CmRequests, CmTimeline,
    CmLong, CmLonger,
    CmMaxRuns

ASSUME CompactionAssumption ==
    /\ CmUsages \subseteq Nat /\ CmLonger \subseteq CmLong /\ CmLong \subseteq Nat
    /\ {CmThreshold, CmWindow, CmPreserve, CmMax, CmRequests, CmTimeline, CmMaxRuns} \subseteq Nat

VARIABLES
    cmAt,       \* "idle", "run", "check" or "compact": where the loop is
    cmLog,      \* the session's messages; a summary where it was compacted
    cmHist,     \* the history the next run is given
    cmSpent,    \* cumulative input tokens of this loop
    cmUsed,     \* those of its last run
    cmCount,    \* compactions of this loop
    cmFlushed,  \* what the last flush that succeeded was of
    cmRuns,     \* bound: the runs so far, each says something new
    cmTails     \* ghost: what a compaction preserved verbatim

cmVars == <<cmAt, cmLog, cmHist, cmSpent, cmUsed, cmCount, cmFlushed, cmRuns, cmTails>>

Message(role, things) == [role |-> role, tells |-> things, whole |-> things]
Digest(role, of) == [role |-> role, tells |-> of.tells, whole |-> of.whole]
Tells(msgs) == UNION {msgs[i].tells : i \in DOMAIN msgs}
TellsWhole(msgs) == UNION {msgs[i].whole : i \in DOMAIN msgs}
IsUser(m) == m.role \in {"user", "summary"}
IsAssistant(m) == m.role \in {"assistant", "call"}
Text(m) == IF m.role = "call" THEN {} ELSE m.tells
Newest(s, n) == IF Len(s) > n THEN SubSeq(s, Len(s) - n + 1, Len(s)) ELSE s

----------------------------------------------------------------------------
(* RebuildMessages: the messages since the last compaction, after its      *)
(* summary, which takes the place of everything before it.                 *)
RebuildMessages(log) ==
    LET at == {i \in DOMAIN log : log[i].role = "compaction"}
    IN  IF at = {} THEN log
        ELSE <<Digest("summary", log[Max(at)])>> \o SubSeq(log, Max(at) + 1, Len(log))

(* analyzeMessages: the last requests in full, a timeline of how each thing *)
(* that was said begins (of a tool's result there are only paths, and a    *)
(* summary begins with its statistics), and the assistant's last words.    *)
NewestOf(S, n) == {i \in S : Cardinality({j \in S : j > i}) < n}
Begins(m) == IF m.role = "summary" THEN {} ELSE m.tells
AnalyzeMessages(msgs) ==
    LET requests == {i \in DOMAIN msgs : IsUser(msgs[i])}
        answers  == {i \in DOMAIN msgs : IsAssistant(msgs[i])}
        asked    == NewestOf(requests, CmRequests)
        timeline == UNION {Begins(msgs[i]) : i \in NewestOf(requests \cup answers, CmTimeline)}
        pending  == UNION {Text(msgs[i]) : i \in NewestOf(answers, 1)}
        said     == UNION {msgs[i].tells : i \in asked}
        whole    == UNION {msgs[i].whole : i \in asked}
    IN  [tells |-> said \cup timeline \cup pending,
         whole |-> whole \cup (timeline \ CmLong) \cup (pending \ CmLonger)]

(* The summary of older messages begins with the one they begin with. *)
SummaryOf(older) ==
    LET new == AnalyzeMessages(older)
    IN  IF older[1].role # "summary" THEN new
        ELSE [tells |-> new.tells \cup older[1].tells, whole |-> new.whole \cup older[1].whole]

(* Mutant: the message at the border is in neither part. *)
CompactOffByOne(msgs) ==
    LET split == Len(msgs) - CmPreserve
    IN  [summary |-> SummaryOf(SubSeq(msgs, 1, split)), tail |-> SubSeq(msgs, split + 2, Len(msgs))]
Compact(msgs) ==
    LET split == Len(msgs) - CmPreserve
    IN  [summary |-> SummaryOf(SubSeq(msgs, 1, split)), tail |-> SubSeq(msgs, split + 1, Len(msgs))]

ShouldCompactStop(window, used) ==
    /\ window > 0
    /\ window - used <= (IF window > 200000 THEN 40000 ELSE window \div 5)

NeedsCompaction ==
    cmSpent >= CmThreshold /\ cmCount < CmMax /\ ShouldCompactStop(CmWindow, cmUsed)

(* contextHash: how many messages there are, and the last three texts. *)
ContextHash(msgs) ==
    LET last == Newest(SelectSeq(msgs, LAMBDA m : IsUser(m) \/ IsAssistant(m)), 3)
    IN  [size |-> Len(msgs), last |-> [i \in DOMAIN last |-> Text(last[i])]]
ShouldFlush(msgs) == cmFlushed # ContextHash(msgs)

----------------------------------------------------------------------------
(* A turn of the user: a new loop, over what the log rebuilds. *)
Turn ==
    /\ cmAt = "idle" /\ cmAt' = "run" /\ cmHist' = RebuildMessages(cmLog)
    /\ cmSpent' = 0 /\ cmCount' = 0
    /\ UNCHANGED <<cmLog, cmUsed, cmFlushed, cmRuns, cmTails>>

(* Run appends its prompt, a tool's call and result, and its answer.  An   *)
(* error ends the loop; a run that was cancelled is no error.              *)
Run ==
    /\ cmAt = "run" /\ cmRuns < CmMaxRuns /\ cmRuns' = cmRuns + 1
    /\ LET fresh == 3 * cmRuns
           prompt == <<Message("user", {fresh})>>
           call   == <<Message("call", {fresh + 1}), Message("tool", {})>>
           answer == <<Message("assistant", {fresh + 2})>>
       IN  \/ cmLog' = cmLog \o prompt /\ cmAt' = "idle" /\ UNCHANGED <<cmUsed, cmSpent>>
           \/ /\ cmLog' \in {cmLog \o prompt \o answer, cmLog \o prompt \o call \o answer}
              /\ cmUsed' \in CmUsages /\ cmSpent' = cmSpent + cmUsed' /\ cmAt' = "check"
    /\ UNCHANGED <<cmHist, cmCount, cmFlushed, cmTails>>

(* RunWithCompaction looks at the cumulative usage, which it never resets, *)
(* and at how full the window was in the last run.                         *)
Check ==
    /\ cmAt = "check"
    /\ IF NeedsCompaction THEN cmAt' = "compact" /\ cmCount' = cmCount + 1
       ELSE cmAt' = "idle" /\ UNCHANGED cmCount
    /\ UNCHANGED <<cmLog, cmHist, cmSpent, cmUsed, cmFlushed, cmRuns, cmTails>>

(* flushMemory, when the messages are not those it was last done for: its  *)
(* failure is logged, and only its success is recorded.                    *)
FlushMemory(msgs) ==
    \/ UNCHANGED cmFlushed
    \/ ShouldFlush(msgs) /\ cmFlushed' = ContextHash(msgs)

(* The messages are read, flushed and summarised; the summary alone goes   *)
(* into the log, the next run gets the tail as well.                       *)
CompactAndGoOn ==
    /\ cmAt = "compact"
    /\ LET msgs == RebuildMessages(cmLog)
           out  == Compact(msgs)
           flushed == IF cmFlushed' # cmFlushed THEN <<Message("system", {})>> ELSE <<>>
       IN  IF Len(msgs) <= CmPreserve
           THEN cmAt' = "idle" /\ UNCHANGED <<cmLog, cmHist, cmFlushed, cmTails>>
           ELSE /\ cmAt' = "run" /\ FlushMemory(msgs)
                /\ cmLog' = cmLog \o flushed \o <<Digest("compaction", out.summary)>>
                /\ cmHist' = <<Digest("summary", out.summary)>> \o out.tail
                /\ cmTails' = cmTails \cup Tells(out.tail)
    /\ UNCHANGED <<cmSpent, cmUsed, cmCount, cmRuns>>

----------------------------------------------------------------------------
CmInit ==
    /\ cmAt = "idle" /\ cmLog = <<>> /\ cmHist = <<>> /\ cmSpent = 0 /\ cmUsed = 0
    /\ cmCount = 0 /\ cmFlushed = [size |-> 0, last |-> <<>>] /\ cmRuns = 0 /\ cmTails = {}

CmNext == Turn \/ Run \/ Check \/ CompactAndGoOn

CmSpec == CmInit /\ [][CmNext]_cmVars

----------------------------------------------------------------------------
(* How a thing that was said begins is no longer told to a run for one of  *)
(* two reasons only: a summary was made with CmTimeline later things to    *)
(* tell (context_engine.go:699), or it was in the tail that a compaction   *)
(* preserved, which is in the history of the run that follows and in no    *)
(* log (runner.go:560).  And it is not told whole for one more: that it is *)
(* longer than an entry of a summary (context_engine.go:619, :632, :640).  *)
OnlyTailsAreLost ==
    LET said == UNION {m.tells : m \in {x \in Range(cmLog) : x.role = "user" \/ IsAssistant(x)}}
        old  == {x \in said : Cardinality({y \in said : y > x}) >= CmTimeline}
    IN  cmAt = "run" => /\ said \ Tells(cmHist) \subseteq old \cup cmTails
                        /\ said \ TellsWhole(cmHist) \subseteq old \cup cmTails \cup CmLong
=============================================================================
