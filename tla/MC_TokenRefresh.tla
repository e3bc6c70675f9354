--------------------------- MODULE MC_TokenRefresh ---------------------------
(* TokenRefresh with the requests as model values. *)
EXTENDS TokenRefresh
=============================================================================
