--------------------------- MODULE MC_KiroIntegrity ---------------------------
(* KiroIntegrity with the tool calls as model values. *)
EXTENDS KiroIntegrity
=============================================================================
