------------------------------ MODULE MC_Combos ------------------------------
(***************************************************************************)
(* A small instance of Combos.  Model b takes attachments, and so does     *)
(* the adapter's p; one list has no model that does, one has a model       *)
(* twice.                                                                  *)
(***************************************************************************)
EXTENDS Combos

CONSTANTS a, b, p

EditedLists == {<<a, b>>, <<a>>, <<a, b, a>>}
AdapterPool == <<p>>
Attachments == {b, p}

=============================================================================
