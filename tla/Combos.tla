------------------------------- MODULE Combos -------------------------------
(***************************************************************************)
(* handleChat, src/sse/handlers/chat.js: the strategy of a combo decides   *)
(* whether a request is tried on its models in turn, extended by the       *)
(* capacity adapter (ComboRouting), or put to all of them at once, without *)
(* it (FusionPanel).  Either reads the list as the user has left it; the   *)
(* strategy is a setting that stays as it is.                              *)
(***************************************************************************)
EXTENDS ComboRouting, FusionPanel

ASSUME CombosAssumption == \A l \in Lists : Len(l) <= MaxPanel

VARIABLE strategy   \* comboStrategies[name].fallbackStrategy

allVars == <<vars, fusionVars, strategy>>

CombosInit == Init /\ FusionInit /\ strategy \in {"in turn", "fusion"}

HandleCombo ==
  /\ strategy = "in turn" /\ \E r \in Requests : Start(r)
  /\ UNCHANGED fusionVars

HandleFusion ==
  /\ strategy = "fusion" /\ StartFusion(Len(combo))
  /\ UNCHANGED vars

GoOn == (\E r \in Requests : Called(r) \/ WaitEnds(r)) /\ UNCHANGED fusionVars
GoOnFusing == FusionNext /\ UNCHANGED vars

Edit == (\E l \in Lists : UpdateCombo(l)) /\ UNCHANGED fusionVars

CombosNext == (HandleCombo \/ HandleFusion \/ GoOn \/ GoOnFusing \/ Edit) /\ UNCHANGED strategy

CombosSpec == CombosInit /\ [][CombosNext]_allVars /\ Fairness /\ FusionFairness

=============================================================================
