-------------------------- MODULE MCTerminalPrompt --------------------------
(* Values of the constants of TerminalPrompt for model checking. *)
EXTENDS TerminalPrompt, TLC
CONSTANTS a1, a2, yes, no, dismiss
MCActions == (a1 :> <<yes, no>>) @@ (a2 :> <<dismiss, no>>)
=============================================================================
