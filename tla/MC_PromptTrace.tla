---------------------------- MODULE MC_PromptTrace ----------------------------
(* PromptTrace is finite as it is. *)
EXTENDS PromptTrace
=============================================================================
