---------------------------- MODULE MCApprovals ----------------------------
(* Small instance of Approvals: two agents and a write outside the         *)
(* workspace, of the dangerous tier (by an override), so that there are    *)
(* two questions to ask about one call.                                    *)
EXTENDS Approvals, TLC

CONSTANTS a1, a2, s1, s2, r1, r2, c1, c2, in, out

Outside == [tool |-> "write", pattern |-> <<>>, dir |-> out]

MCCalls  == {Outside}
MCTier   == [t \in {"shell", "write"} |-> "dangerous"]
Symmetry == Permutations(Agents) \cup Permutations(Sessions) \cup Permutations(RunIds)
=============================================================================
