---------------------------- MODULE Enumeration ----------------------------
(***************************************************************************)
(* The members of a finite set of integers as a sequence, in order: what   *)
(* the code gets by sorting keys (agent/skills.go:91), or by keeping, of   *)
(* a list, the places it does not skip.  Defined by counting, without a    *)
(* fold, so that one can reason about it.                                  *)
(***************************************************************************)
EXTENDS Integers, FiniteSets

UpTo(S, i) == {j \in S : j <= i}
InOrder(S) == [k \in 1..Cardinality(S) |-> CHOOSE i \in S : Cardinality(UpTo(S, i)) = k]

(* The entries of a sequence at some of its places. *)
AtPlaces(s, S) == [k \in 1..Cardinality(S) |-> s[InOrder(S)[k]]]
=============================================================================
