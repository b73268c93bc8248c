----------------------------- MODULE Transcript -----------------------------
(***************************************************************************)
(* The event log of a session and the conversation RebuildMessages makes   *)
(* of it when the session is continued.  Text is left out: an event is its *)
(* type and, for tool calls and results, the id of the call.               *)
(***************************************************************************)
EXTENDS Integers, Sequences, SequencesExt

CONSTANT NoCall   \* events that carry no call

EventTypes == {"user_message", "assistant_message", "tool_call", "tool_result",
               "system_message", "child_spawned", "child_completed",
               "compaction", "memory_flush", "step_finish"}
Roles      == {"user", "assistant", "tool", "system"}

Event(type, id) == [type |-> type, call |-> id]

(* A message is its role and the calls it makes or answers.                *)
Message(role, ids) == [role |-> role, calls |-> ids]

(* Mutant: every call opens a message of its own.                          *)
WithCallAlone(msgs, id) == Append(msgs, Message("assistant", <<id>>))

(* A tool call joins the assistant message it follows, or opens one.       *)
WithCall(msgs, id) ==
  IF msgs # <<>> /\ Last(msgs).role = "assistant"
  THEN Front(msgs) \o <<Message("assistant", Append(Last(msgs).calls, id))>>
  ELSE Append(msgs, Message("assistant", <<id>>))

Replay(msgs, ev) ==
  CASE ev.type = "user_message"      -> Append(msgs, Message("user", <<>>))
    [] ev.type = "assistant_message" -> Append(msgs, Message("assistant", <<>>))
    [] ev.type = "tool_call"         -> WithCall(msgs, ev.call)
    [] ev.type = "tool_result"       -> Append(msgs, Message("tool", <<ev.call>>))
    [] ev.type = "compaction"        -> <<Message("user", <<>>)>>
    [] ev.type \in {"child_spawned", "child_completed", "memory_flush"}
                                     -> Append(msgs, Message("system", <<>>))
    [] OTHER                         -> msgs    \* system_message, step_finish

RebuildMessages(log) ==
  LET after[n \in 0 .. Len(log)] ==
        IF n = 0 THEN <<>> ELSE Replay(after[n - 1], log[n])
  IN  after[Len(log)]
-----------------------------------------------------------------------------
(* What a model accepts: the calls of an assistant message are answered,   *)
(* all of them and nothing else, by the tool messages that follow it.      *)

Block(msgs, i) ==
  {j \in i + 1 .. Len(msgs) : \A k \in i + 1 .. j : msgs[k].role = "tool"}

Answered(msgs, i) == UNION {ToSet(msgs[j].calls) : j \in Block(msgs, i)}

WellFormed(msgs) ==
  /\ \A i \in DOMAIN msgs :
       msgs[i].role = "assistant" => ToSet(msgs[i].calls) = Answered(msgs, i)
  /\ \A i \in DOMAIN msgs :
       msgs[i].role = "tool" =>
         i > 1 /\ msgs[i - 1].role \in {"assistant", "tool"}
=============================================================================
