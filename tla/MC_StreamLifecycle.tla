-------------------------- MODULE MC_StreamLifecycle --------------------------
(* StreamLifecycle with the requests as model values. *)
EXTENDS StreamLifecycle
=============================================================================
