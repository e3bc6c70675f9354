------------------------- MODULE MC_AccountRouting -------------------------
(***************************************************************************)
(* Small instances of AccountRouting.  Cooldowns are in ticks and keep the *)
(* order of the real ones: short < transient < long, the backoff ladder    *)
(* doubling from the shortest, a provider's reset cut at the cap.          *)
(***************************************************************************)
EXTENDS AccountRouting, TLC

Symmetry == Permutations(Requests) \cup Permutations(Models \ FreeModels)

=============================================================================
