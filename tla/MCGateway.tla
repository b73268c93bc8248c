------------------------------ MODULE MCGateway ------------------------------
(* Values of the constants of Gateway for model checking.                  *)
EXTENDS Gateway, TLC
CONSTANTS d1, d2, c1
=============================================================================
