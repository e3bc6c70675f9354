------------------------ MODULE MC_AccountSelection ------------------------
(* Small instances of AccountSelection.                                    *)
EXTENDS AccountSelection, TLC
=============================================================================
