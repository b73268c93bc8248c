---------------------------- MODULE MCBackground ----------------------------
(***************************************************************************)
(* The parts of the background work share no state that their properties   *)
(* are about: one run explores each of them in turn.  "focus" is the one   *)
(* that moves.                                                             *)
(***************************************************************************)
EXTENDS Reminders, Heartbeat, Startup, Flows, Prompts

VARIABLE focus

bgVars == <<remVars, hbVars, upVars, flowVars, evVars, focus>>

MCDues == {[kind |-> "in", n |-> 1], [kind |-> "clock", at |-> 1]}
MCDefs == {<<"run", "run">>, <<"run", "missing">>}
MCContents ==
    {("runtime" :> 2 @@ "memory" :> m @@ "skills" :> k @@ "user" :> 2) : m \in {0, 3, 9}, k \in {0, 4}}

MCInit ==
    /\ focus \in {"reminders", "heartbeat", "startup", "flows", "prompts"}
    /\ RemInit /\ HbInit /\ UpInit /\ FlowInit /\ EvInit
    \* the parts that do not move start in one of their states only
    /\ focus # "reminders" => form = "missing"
    /\ focus # "flows" => flowFile = <<"run", "run">>

RemMoves  == focus = "reminders" /\ RemNext /\ UNCHANGED <<hbVars, upVars, flowVars, evVars, focus>>
HbMoves   == focus = "heartbeat" /\ HbNext /\ UNCHANGED <<remVars, upVars, flowVars, evVars, focus>>
UpMoves   == focus = "startup" /\ UpNext /\ UNCHANGED <<remVars, hbVars, flowVars, evVars, focus>>
FlowMoves == focus = "flows" /\ FlowNext /\ UNCHANGED <<remVars, hbVars, upVars, evVars, focus>>
EvMoves   == focus = "prompts" /\ EvNext /\ UNCHANGED <<remVars, hbVars, upVars, flowVars, focus>>

MCNext == RemMoves \/ HbMoves \/ UpMoves \/ FlowMoves \/ EvMoves

(* The tick and the writers of the reminders go on, and so do the flows,   *)
(* but for a step's run that waits for the user.                           *)
MCProgress ==
    \/ /\ focus = "reminders" /\ RemProgress
       /\ UNCHANGED <<hbVars, upVars, flowVars, evVars, focus>>
    \/ /\ focus = "flows" /\ FlowGoesOn
       /\ UNCHANGED <<remVars, hbVars, upVars, evVars, focus>>

MCSpec == MCInit /\ [][MCNext]_bgVars /\ WF_bgVars(MCProgress)
MCSafety == MCInit /\ [][MCNext]_bgVars
=============================================================================
