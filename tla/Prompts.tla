------------------------------- MODULE Prompts -------------------------------
(***************************************************************************)
(* How news of the background work gets into a prompt: the queue of system *)
(* events of a session (agent/sysevents.go), which the next run in that    *)
(* session drains (agent/runner.go:441), and the assembly of the system    *)
(* prompt from sections (agent/context_engine.go:173), the events last.    *)
(*                                                                         *)
(* A section is its name and the length of its content; the lengths of one *)
(* prompt are drawn from EvContents (0: empty, or not asked for by the     *)
(* agent's features).  Bounds: EvMaxOps events and runs; EvCap,            *)
(* MaxFileChars and MaxTotalChars stand for the code's 20, 20k and 150k.   *)
(***************************************************************************)
EXTENDS Enumeration, Sequences, SequencesExt

CONSTANTS EvTexts, EvContents, EvCap, MaxFileChars, MaxTotalChars, EvMaxOps

ASSUME EventsAssumption == EvCap \in Nat \ {0}

VARIABLES
    events,     \* the session's queue
    lastText,   \* what was enqueued last since the queue was made, or NoText
    sent,       \* ghost: what was sent to the session since the last run
    plan,       \* the last prompt: its mode, lengths, events drained, sections kept
    evOps

evVars == <<events, lastText, sent, plan, evOps>>

Marker == 1     \* the length of "[truncated at 20k chars]"
Modes == {"full", "minimal"}

(* The sections in the order of their priorities, as they are assembled.   *)
SectionOrder == <<
    "runtime", "soul", "output_style", "agents", "agents_registry", "task_guidance",
    "action_guidance", "user", "tools", "instruction_files", "project_context", "tools_doc",
    "skills", "memory", "standing_orders", "daily_memory", "heartbeat", "overrides">>

(* agents_registry goes with "agents". *)
SectionIncluded(name, mode) ==
    mode = "minimal" =>
        name \in {"runtime", "soul", "agents", "agents_registry", "tools", "tools_doc", "skills",
                  "standing_orders"}

AddSection(acc, s) ==
    IF acc.total + s.len <= MaxTotalChars
    THEN [total |-> acc.total + s.len, kept |-> Append(acc.kept, s)] ELSE acc

Cut(n) == IF n > MaxFileChars THEN MaxFileChars + Marker ELSE n
Sections(lengths, mode) ==
    LET all == [i \in DOMAIN SectionOrder |->
                   [name |-> SectionOrder[i],
                    len |-> IF SectionOrder[i] \in DOMAIN lengths THEN Cut(lengths[SectionOrder[i]]) ELSE 0]]
    IN  SelectSeq(all, LAMBDA s : s.len > 0 /\ SectionIncluded(s.name, mode))

Assemble(lengths, mode) ==
    FoldLeft(AddSection, [total |-> 0, kept |-> <<>>], Sections(lengths, mode))

----------------------------------------------------------------------------
NoText == ""

EvOp == evOps < EvMaxOps /\ evOps' = evOps + 1
LastN(q, n) == IF Len(q) > n THEN SubSeq(q, Len(q) - n + 1, Len(q)) ELSE q

Enqueue(t) ==
    /\ EvOp /\ sent' = Append(sent, t)
    /\ IF t = NoText \/ t = lastText THEN UNCHANGED <<events, lastText>>
       ELSE events' = LastN(Append(events, t), EvCap) /\ lastText' = t
    /\ UNCHANGED plan

(* Mutant: the drained queue stays, with the last text it had. *)
DrainKeepingText == events' = <<>> /\ UNCHANGED lastText
(* Drain deletes the session's queue, its last text with it. *)
Drain == events' = <<>> /\ lastText' = (IF events = <<>> THEN lastText ELSE NoText)

(* assemblePrompt: the run of a client has the full prompt, one of a job   *)
(* whose target is the main session the minimal one; both drain.           *)
AssemblePrompt(mode, lengths) ==
    /\ EvOp /\ Drain /\ sent' = <<>>
    /\ LET all == IF events = <<>> THEN lengths
                  ELSE [n \in DOMAIN lengths \cup {"overrides"} |->
                           IF n = "overrides" THEN Len(events) ELSE lengths[n]]
           out == Assemble(all, mode)
       IN  plan' = [mode |-> mode, lengths |-> all, drained |-> events,
                    kept |-> out.kept, total |-> out.total]

EvInit ==
    /\ events = <<>> /\ lastText = NoText /\ sent = <<>> /\ evOps = 0
    /\ plan = [mode |-> "full", lengths |-> [n \in {} |-> 0], drained |-> <<>>,
               kept |-> <<>>, total |-> 0]

EvNext ==
    \/ \E t \in EvTexts : Enqueue(t)
    \/ \E mode \in Modes, lengths \in EvContents : AssemblePrompt(mode, lengths)

EvSpec == EvInit /\ [][EvNext]_evVars

----------------------------------------------------------------------------
(* Since the same text was sent there was nothing but empty ones. *)
Repeats(q, i) == \E j \in 1..i - 1 : q[j] = q[i] /\ \A k \in j + 1..i - 1 : q[k] = NoText

(* What a run will drain is the news since the last run: in order, without *)
(* immediate repetitions, the newest EvCap of it; so news that repeats     *)
(* what an earlier run was told is told again (sysevents.go:64, :77, :99).*)
NewsIsKept ==
    events = LastN(AtPlaces(sent, {i \in DOMAIN sent : sent[i] # NoText /\ ~Repeats(sent, i)}), EvCap)

(* runner.go:438: "Drain pending system events for this session and inject *)
(* as overrides."                                                          *)
DrainedIsShown ==
    plan.drained # <<>> => \E s \in Range(plan.kept) : s.name = "overrides"
=============================================================================
