------------------------------- MODULE Agents -------------------------------
(***************************************************************************)
(* The agents a daemon knows: the built-in ones, and those of the user's   *)
(* directory (agent/loader.go), which are registered at its start          *)
(* (gateway.go:287) and put over what is registered at a reload            *)
(* (gateway.go:519), by every caller that asks for one and at the end of   *)
(* agent_create (tool/manage.go:294); and which of them a run is given to  *)
(* (gateway.go:1246).                                                      *)
(*                                                                         *)
(* An agent is its id, the version of its file and its bindings; a path is *)
(* a sequence.  Abstracted: names, roles, tools and the files of its       *)
(* workspace.  Bound: AgMaxOps for the calls, edits, runs and restarts.    *)
(***************************************************************************)
EXTENDS Integers, Sequences, SequencesExt, FiniteSetsExt

CONSTANTS
    AgIds,          \* the ids and names there are, and "" for none
    AgEntries,      \* the names in the directory, in its order
    AgDirs,         \* those that are directories with an agent.yaml
    AgBuiltins,
    AgEdits,        \* what the user's editor may put in a file, but its version
    AgCallers,
    AgCwd,          \* the daemon's working directory
    AgMaxOps

Bindings == SUBSET [type : {"project", "dir", "glob", "task"}, pattern : Seq(STRING), priority : Int]
ASSUME AgentsAssumption ==
    /\ AgEntries \in Seq(AgIds \ {""}) /\ AgDirs \subseteq Range(AgEntries)
    /\ {"", "agent"} \subseteq AgIds
    /\ AgEdits \subseteq [kind : {"none", "broken", "agent"}, id : AgIds, v : Nat,
                         binds : Bindings]

VARIABLES
    agFile,     \* agFile[e]: [kind, id, v, binds]; kind "none", "broken" or "agent"
    registry,   \* id -> [by, v, binds]
    agCall,     \* agCall[c]: where c's call is, see NoCall
    given,      \* the last run: what was asked for and the agent it was given to
    agOps

agVars == <<agFile, registry, agCall, given, agOps>>

(* k: the entry that is read next; loaded: what was read; ok: the reload   *)
(* had no error; met (ghost): another reload was going on at the writing,  *)
(* or somebody has given the id to another file, or taken it from one.     *)
NoCall == [at |-> "idle", entry |-> "", v |-> 0, k |-> 0, loaded |-> <<>>, ok |-> TRUE, met |-> FALSE]
NoFile == [kind |-> "none", id |-> "", v |-> 0, binds |-> {}]
EmptyFile == [NoFile EXCEPT !.kind = "agent"]
Entries == Range(AgEntries)
AgOp == agOps < AgMaxOps /\ agOps' = agOps + 1
Reloading(c) == agCall[c].at \in {"load", "upsert"}

----------------------------------------------------------------------------
(* LoadAgentFile: an agent without an id has the name of its file. *)
IdOf(e) ==
    IF agFile[e].id # "" THEN agFile[e].id ELSE IF e \in AgDirs THEN "agent" ELSE e
LoadAgentFile(e) ==
    [id |-> IdOf(e), by |-> "user", v |-> agFile[e].v, binds |-> agFile[e].binds]

(* The calls, once the file of e has been written.                         *)
Told(e) ==
    [c \in AgCallers |-> [agCall[c] EXCEPT !.met =
        @ \/ (agCall[c].entry # e /\ agCall[c].entry \in {IdOf(e), IdOf(e)'})]]

(* Match: the kinds of a binding; a run has no task.  A glob, a name or     *)
(* "*", is matched with the last part of the path only.                    *)
Match(b) ==
    \/ b.type = "project" /\ IsPrefix(b.pattern, AgCwd)
    \/ b.type = "dir" /\ b.pattern = AgCwd
    \/ b.type = "glob" /\ b.pattern \in {<<"*">>, <<Last(AgCwd)>>}
    \/ b.type = "task" /\ b.pattern = <<"*">>

(* Resolve: the agents with a matching binding of the highest priority. *)
Resolve ==
    LET matches == {m \in UNION {{id} \X registry[id].binds : id \in DOMAIN registry} :
                       Match(m[2])}
    IN  {m[1] : m \in {x \in matches : \A y \in matches : y[2].priority <= x[2].priority}}

Put(reg, a) ==
    [id \in DOMAIN reg \cup {a.id} |->
        IF id = a.id THEN [by |-> a.by, v |-> a.v, binds |-> a.binds] ELSE reg[id]]
Register(reg, a) == IF a.id \in DOMAIN reg THEN reg ELSE Put(reg, a)
(* Mutant: an agent that is registered is not replaced. *)
UpsertNew(reg, a) == Register(reg, a)
Upsert(reg, a) == Put(reg, a)

(* registerAgents: the built-in ones first, which a file cannot replace;   *)
(* none of the user's when one of the files is broken.                     *)
RegisterAgents ==
    LET builtins == [id \in AgBuiltins |-> [by |-> "builtin", v |-> 0, binds |-> {}]]
        found    == SelectSeq(AgEntries, LAMBDA e : agFile[e].kind = "agent")
    IN  IF \E e \in Entries : agFile[e].kind = "broken" THEN builtins
        ELSE FoldLeft(Register, builtins, [i \in DOMAIN found |-> LoadAgentFile(found[i])])

----------------------------------------------------------------------------
(* A client or an agent asks for a reload. *)
HandleReload(c) ==
    /\ AgOp /\ agCall[c].at \in {"idle", "done"}
    /\ agCall' = [agCall EXCEPT ![c] = [NoCall EXCEPT !.at = "load", !.k = 1]]
    /\ UNCHANGED <<agFile, registry, given>>

(* agent_create: the file is truncated, then written; then a reload. *)
HandleAgentCreate(c, e) ==
    /\ AgOp /\ agCall[c].at \in {"idle", "done"} /\ e \in AgDirs
    /\ agFile' = [agFile EXCEPT ![e] = EmptyFile]
    /\ agCall' = [Told(e) EXCEPT ![c] = [NoCall EXCEPT !.at = "write", !.entry = e, !.v = agOps']]
    /\ UNCHANGED <<registry, given>>
AgentWritten(c, e) ==
    /\ agCall[c].at = "write" /\ agCall[c].entry = e
    /\ agFile' = [agFile EXCEPT ![e] = [EmptyFile EXCEPT !.id = e, !.v = agCall[c].v]]
    /\ agCall' = [Told(e) EXCEPT ![c].at = "load", ![c].k = 1,
                                 ![c].met = \E d \in AgCallers : Reloading(d)]
    /\ UNCHANGED <<registry, given, agOps>>

(* LoadAgentsDir, entry by entry; the first broken file ends the reload,   *)
(* with an error in its result and nothing registered.                     *)
LoadEntry(c) ==
    /\ agCall[c].at = "load" /\ agCall[c].k <= Len(AgEntries)
    /\ LET e == AgEntries[agCall[c].k]
       IN  agCall' = CASE agFile[e].kind = "broken" ->
                              [agCall EXCEPT ![c].at = "done", ![c].ok = FALSE]
                       [] agFile[e].kind = "none" -> [agCall EXCEPT ![c].k = @ + 1]
                       [] agFile[e].kind = "agent" ->
                              [agCall EXCEPT ![c].k = @ + 1, ![c].loaded = Append(@, LoadAgentFile(e))]
    /\ UNCHANGED <<agFile, registry, given, agOps>>
Loaded(c) ==
    /\ agCall[c].at = "load" /\ agCall[c].k > Len(AgEntries)
    /\ agCall' = [agCall EXCEPT ![c].at = "upsert"]
    /\ UNCHANGED <<agFile, registry, given, agOps>>
(* The registry is locked for one agent at a time. *)
UpsertOne(c) ==
    /\ agCall[c].at = "upsert"
    /\ IF agCall[c].loaded = <<>> THEN agCall' = [agCall EXCEPT ![c].at = "done"] /\ UNCHANGED registry
       ELSE /\ registry' = Upsert(registry, Head(agCall[c].loaded))
            /\ agCall' = [agCall EXCEPT ![c].loaded = Tail(@)]
    /\ UNCHANGED <<agFile, given, agOps>>

(* A run of an agent that is not registered goes to one that is bound to   *)
(* the daemon's directory, or is refused.                                  *)
HandleAgentRun(id) ==
    /\ AgOp
    /\ \/ id \in DOMAIN registry /\ given' = [asked |-> id, to |-> id]
       \/ id \notin DOMAIN registry /\ \E to \in Resolve : given' = [asked |-> id, to |-> to]
       \/ id \notin DOMAIN registry /\ Resolve = {} /\ given' = [asked |-> id, to |-> ""]
    /\ UNCHANGED <<agFile, registry, agCall>>

UserEdits(e, f) ==
    /\ AgOp /\ agFile' = [agFile EXCEPT ![e] = [f EXCEPT !.v = agOps']] /\ agCall' = Told(e)
    /\ UNCHANGED <<registry, given>>

AgRestart ==
    /\ AgOp /\ registry' = RegisterAgents /\ agCall' = [c \in AgCallers |-> NoCall]
    /\ UNCHANGED <<agFile, given>>

----------------------------------------------------------------------------
AgInit ==
    /\ agFile = [e \in Entries |-> NoFile] /\ registry = RegisterAgents
    /\ agCall = [c \in AgCallers |-> NoCall] /\ given = [asked |-> "", to |-> ""] /\ agOps = 0

AgNext ==
    \/ \E c \in AgCallers : \/ HandleReload(c) \/ LoadEntry(c) \/ Loaded(c) \/ UpsertOne(c)
                            \/ \E e \in AgDirs : HandleAgentCreate(c, e) \/ AgentWritten(c, e)
    \/ \E id \in AgDirs \cup AgBuiltins : HandleAgentRun(id)
    \/ \E e \in Entries, f \in AgEdits : UserEdits(e, f)
    \/ AgRestart

AgSpec == AgInit /\ [][AgNext]_agVars

----------------------------------------------------------------------------
(* An agent whose creation ended without an error, and whose file nobody   *)
(* has written since, is known under its id, as what its file says, also   *)
(* if it has the id of a built-in one; but a reload that was going on when *)
(* the file was written may put the older agent back, and another file may *)
(* have its id (manage.go:340, gateway.go:527).                            *)
CreatedIsServed == \A c \in AgCallers :
    LET call == agCall[c]
        same == {e \in Entries : agFile[e].kind = "agent" /\ IdOf(e) = call.entry}
    IN  call.at = "done" /\ call.ok /\ call.v > 0 /\ agFile[call.entry].v = call.v =>
            /\ call.entry \in DOMAIN registry
            /\ call.met \/ same # {call.entry} \/ registry[call.entry].v = call.v
=============================================================================
