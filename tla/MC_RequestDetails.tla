-------------------------- MODULE MC_RequestDetails --------------------------
(* RequestDetails with the requests as model values. *)
EXTENDS RequestDetails
=============================================================================
