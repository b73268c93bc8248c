------------------------------ MODULE JobLedger ------------------------------
(***************************************************************************)
(* What the job system promises about a job that was accepted under an id  *)
(* of its own: it is kept until a run of it answers or somebody withdraws  *)
(* it, one run at a time, and an interrupted run leaves it waiting.        *)
(* Schedules, saves and the timer are not visible here.                    *)
(***************************************************************************)
CONSTANT JobIds

VARIABLES
  phase,   \* "absent", "waiting", "running"
  fate     \* "none", "open", "answered", "withdrawn"

ledger == <<phase, fate>>

Init ==
  /\ phase = [j \in JobIds |-> "absent"]
  /\ fate  = [j \in JobIds |-> "none"]

Accept(j) ==
  /\ fate[j] = "none"
  /\ fate'  = [fate EXCEPT ![j] = "open"]
  /\ phase' = [phase EXCEPT ![j] = "waiting"]

Start(j) ==
  /\ phase[j] = "waiting"
  /\ phase' = [phase EXCEPT ![j] = "running"]
  /\ UNCHANGED fate

(* A one-shot that answers may be dropped; other jobs wait for their next  *)
(* time.                                                                   *)
Answer(j) ==
  /\ phase[j] = "running"
  /\ fate' = [fate EXCEPT ![j] = "answered"]
  /\ \E p \in {"waiting", "absent"} : phase' = [phase EXCEPT ![j] = p]

Fail(j) ==
  /\ phase[j] = "running"
  /\ phase' = [phase EXCEPT ![j] = "waiting"]
  /\ UNCHANGED fate

Withdraw(j) ==
  /\ phase[j] # "absent"
  /\ phase' = [phase EXCEPT ![j] = "absent"]
  /\ fate'  = [fate EXCEPT ![j] = "withdrawn"]

(* The daemon went down: every run is cut short.                           *)
Interrupt ==
  /\ phase' = [j \in JobIds |->
                 IF phase[j] = "running" THEN "waiting" ELSE phase[j]]
  /\ UNCHANGED fate

Next ==
  \/ \E j \in JobIds : Accept(j) \/ Start(j) \/ Answer(j) \/ Fail(j) \/ Withdraw(j)
  \/ Interrupt

Spec == Init /\ [][Next]_ledger
=============================================================================
