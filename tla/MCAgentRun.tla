----------------------------- MODULE MCAgentRun -----------------------------
(* Small instances of AgentRun.                                            *)
EXTENDS AgentRun, TLC

CONSTANTS main, s1, r1, r2, r3, t1, t2, x, y

(* What is looked at: clients' runs that are alone in their sessions, or   *)
(* two runs that may meet there, jobs among them, but call no tools.       *)
VARIABLE focus

MCInit == Init /\ focus \in {"alone", "together"}
MCNext ==
  /\ Next /\ UNCHANGED focus
  /\ focus = "alone" => shared' = {} /\ \A r \in JobRuns : run'[r].at = "idle"
  /\ focus = "together" =>
       /\ \A r \in RunIds : run'[r].issued = 0
       /\ Cardinality({r \in RunIds : run'[r].at # "idle"}) <= 2
MCSpec == MCInit /\ [][MCNext]_<<vars, focus>>

(* Runs that are alone, jobs among them, with the fairness of FairSpec.    *)
LiveInit == Init /\ focus = "alone"
LiveNext == Next /\ UNCHANGED focus /\ shared' = {}
LiveSpec ==
  /\ LiveInit /\ [][LiveNext]_<<vars, focus>>
  /\ \A r \in RunIds : WF_vars(Step(r))

RunSymmetry == Permutations(RunIds \ JobRuns)
=============================================================================
