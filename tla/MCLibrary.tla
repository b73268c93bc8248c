------------------------------ MODULE MCLibrary ------------------------------
(***************************************************************************)
(* What a run is made of: the agent, its model, its workspace, the session *)
(* it is recorded in, the history it goes on from, and the shell its tools *)
(* run commands with.  The parts share no state that their properties are  *)
(* about, so one run explores each of them in turn; "focus" is the one     *)
(* that moves.                                                             *)
(***************************************************************************)
EXTENDS Compaction, Providers, Agents, Workspaces, Shell, SessionStore

CONSTANTS main, s1, g1, g2, k1

VARIABLE focus

libVars == <<cmVars, pvVars, agVars, wsVars, shVars, stVars, focus>>

MCLong   == {0, 2, 4, 8, 9, 11, 14, 16}
MCLonger == {2, 9, 14}

Entry3(p, m, w) == [provider |-> p, model |-> m, window |-> w]
MCRoutes == [complex |-> <<Entry3("p1", "m1", 0), Entry3("p2", "m2", 5), Entry3("p3", "m1", 0)>>,
             simple  |-> <<Entry3("p2", "m1", 0), Entry3("p1", "m1", 0)>>]

Bound(type, pattern, priority) == [type |-> type, pattern |-> pattern, priority |-> priority]
MCEntries == <<"coding", "z">>
MCEdits == {
    EmptyFile, [NoFile EXCEPT !.kind = "broken"],
    [kind |-> "agent", id |-> "coding", v |-> 0,
     binds |-> {Bound("dir", <<"h", "p">>, 2), Bound("project", <<"h">>, 1), Bound("glob", <<"p">>, 2), Bound("task", <<"*">>, 1)}]}
MCCwd == <<"h", "p">>

MCNone == [n \in {} |-> <<>>]
MCPlain == [agent |-> MCNone, project |-> MCNone, projectAgent |-> MCNone]
MCLayered == [agent |-> ("SOUL.md" :> <<"x">>), project |-> ("MEMORY.md" :> <<>> @@ "SOUL.md" :> <<"y">>),
              projectAgent |-> ("SOUL.md" :> <<"z">>)]
Sk(n, v) == [name |-> n, v |-> v]
MCSkills == [global |-> <<Sk(2, 1), Sk(0, 1), Sk(2, 2), Sk(1, 1)>>, agent |-> <<Sk(3, 3), Sk(2, 3), Sk(2, 4)>>,
             project |-> <<Sk(1, 5)>>]
MCRun == [over |-> MCPlain, project |-> FALSE, skills |-> MCSkills, allow |-> {}, texts |-> <<"i", "", "i", "j">>,
          mode |-> "full", features |-> {}, other |-> MCNone]
MCRuns == {
    MCRun,
    [MCRun EXCEPT !.over = MCLayered, !.project = TRUE, !.features = {"instruction_files"}],
    [MCRun EXCEPT !.project = TRUE, !.allow = {1, 3}, !.features = {"instruction_files"},
                  !.other = "runtime" :> <<1>> @@ "tools" :> <<1>>],
    [MCRun EXCEPT !.over = MCLayered, !.other = "runtime" :> <<1, 1>> @@ "tools" :> <<1, 1, 1>>],
    [MCRun EXCEPT !.over = MCLayered, !.project = TRUE, !.mode = "minimal"],
    [MCRun EXCEPT !.skills = [global |-> <<>>, agent |-> <<Sk(1, 1)>>, project |-> <<Sk(1, 6)>>],
                  !.project = TRUE, !.texts = <<"">>],
    [MCRun EXCEPT !.mode = "none"]}
MCEmbedded == "SOUL.md" :> <<"e">>

MCCalls == AllCalls

MCInit ==
    /\ focus \in {"compaction", "providers", "agents", "workspaces", "shell", "sessions"}
    /\ CmInit /\ PvInit /\ AgInit /\ WsInit /\ ShInit /\ StInit

CmMoves ==
    focus = "compaction" /\ CmNext /\ UNCHANGED <<pvVars, agVars, wsVars, shVars, stVars, focus>>
PvMoves ==
    focus = "providers" /\ PvNext /\ UNCHANGED <<cmVars, agVars, wsVars, shVars, stVars, focus>>
AgMoves ==
    focus = "agents" /\ AgNext /\ UNCHANGED <<cmVars, pvVars, wsVars, shVars, stVars, focus>>
WsMoves ==
    focus = "workspaces" /\ WsNext /\ UNCHANGED <<cmVars, pvVars, agVars, shVars, stVars, focus>>
ShMoves ==
    focus = "shell" /\ ShNext /\ UNCHANGED <<cmVars, pvVars, agVars, wsVars, stVars, focus>>
StMoves ==
    focus = "sessions" /\ StNext /\ UNCHANGED <<cmVars, pvVars, agVars, wsVars, shVars, focus>>

MCNext == CmMoves \/ PvMoves \/ AgMoves \/ WsMoves \/ ShMoves \/ StMoves
MCSpec == MCInit /\ [][MCNext]_libVars /\ ShFairness
=============================================================================
