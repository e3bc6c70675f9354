---------------------------- MODULE ComboRouting ----------------------------
(***************************************************************************)
(* A combo: one name for a list of models that are tried in turn.          *)
(*   open-sse/services/combo.js            handleComboChat, the rotation   *)
(*   open-sse/services/capacityAdapter.js  the models added for a request  *)
(*                                         that carries images or sound    *)
(*   src/sse/handlers/chat.js              where both are called           *)
(*   services/models.js                    the user edits the list         *)
(*                                                                         *)
(* A request reads the list, takes its turn of the rotation and orders the *)
(* models in one synchronous stretch; then it awaits one model after the   *)
(* other, while others take turns and the user edits the list.  What a     *)
(* model answers is what AccountRouting says of the loop over its          *)
(* accounts; the text, the status and the retry time of a refusal are left *)
(* out (the combo looks for the time in errorBody.retryAfter, a field that *)
(* no error response of the router has), and a model that is itself a      *)
(* combo is not expanded.                                                  *)
(***************************************************************************)
EXTENDS Integers, Sequences, FiniteSetsExt, SequencesExt

CONSTANTS
  Requests,
  Lists,        \* the lists a user may give the combo
  Pool,         \* the capacity adapter's models, a sequence
  Capable,      \* the models that take attachments
  RoundRobin,   \* comboStrategy: TRUE round-robin, FALSE fallback
  StickyLimit,  \* comboStickyRoundRobinLimit
  MaxEdits      \* bound on the user's edits of the list

Models == UNION {ToSet(l) : l \in Lists} \cup ToSet(Pool)

ASSUME ComboAssumption ==
  /\ Lists \subseteq Seq(Models) \ {<<>>} /\ Pool \in Seq(Models)
  /\ Capable \subseteq Models
  /\ RoundRobin \in BOOLEAN
  /\ StickyLimit \in Nat \ {0}
  /\ MaxEdits \in Nat

VARIABLES
  combo,     \* the list in the database
  rotation,  \* comboRotationState of the combo
  (* one handleComboChat per request *)
  pc,        \* "idle", "calling" or "waiting"
  needs,     \* whether its latest turn carries attachments
  list,      \* the list it read
  order,     \* rotatedModels
  at,        \* the place of the model it is at
  served,    \* whether its last answer came from a model
  (* history *)
  lead,      \* turns of each place of the list ahead of the one with the fewest
  edits

callVars == <<pc, needs, list, order, at, served>>
vars == <<combo, rotation, callVars, lead, edits>>

Places == 1 .. Max({Len(l) : l \in Lists}) + Len(Pool)
NoLead == [p \in Places |-> 0]

TypeOK ==
  /\ combo \in Lists
  /\ rotation \in [index : 0 .. Max(Places) - 1, uses : 0 .. StickyLimit - 1]
  /\ pc \in [Requests -> {"idle", "calling", "waiting"}]
  /\ needs \in [Requests -> BOOLEAN]
  /\ list \in [Requests -> Lists \cup {<<>>}] /\ order \in [Requests -> Seq(Models)]
  /\ at \in [Requests -> Nat]
  /\ \A r \in Requests : pc[r] # "idle" => at[r] \in DOMAIN order[r]
  /\ served \in [Requests -> BOOLEAN]
  /\ lead \in [Places -> Nat] /\ edits \in 0 .. MaxEdits

Init ==
  /\ combo \in Lists
  /\ rotation = [index |-> 0, uses |-> 0]
  /\ pc = [r \in Requests |-> "idle"]
  /\ needs = [r \in Requests |-> FALSE]
  /\ list = [r \in Requests |-> <<>>] /\ order = [r \in Requests |-> <<>>]
  /\ at = [r \in Requests |-> 0]
  /\ served = [r \in Requests |-> TRUE]
  /\ lead = NoLead /\ edits = 0

-----------------------------------------------------------------------------
(* The order of the models                                                 *)

(* s.filter: the elements that are in S, in their order.                   *)
Selected(s, S) ==
  LET upTo[i \in 0 .. Len(s)] ==
        IF i = 0 THEN <<>> ELSE IF s[i] \in S THEN Append(upTo[i - 1], s[i]) ELSE upTo[i - 1]
  IN upTo[Len(s)]

(* augmentModelsWithCapacityAdapter: the pool goes first, if the request   *)
(* needs a capability that no model of the list has.                       *)
Augmented(l, n) ==
  IF n /\ ToSet(l) \cap Capable = {}
  THEN Selected(Pool, Capable \ ToSet(l)) \o l ELSE l

(* rotateModelsFromIndex *)
Rotated(s, index) == SubSeq(s, index + 1, Len(s)) \o SubSeq(s, 1, index)

(* Mutant: the models without the capability are dropped. *)
ReorderedDropping(s, n) == IF n /\ ToSet(s) \cap Capable # {} THEN Selected(s, Capable) ELSE s

(* reorderByCapabilities, a stable sort in two tiers.                      *)
Reordered(s, n) == IF n THEN Selected(s, Capable) \o Selected(s, Models \ Capable) ELSE s

(* Mutant: the limit is reached one use too late. *)
NextTurnLate(n) ==
  LET index == rotation.index % n IN
  IF rotation.uses >= StickyLimit
  THEN [index |-> (index + 1) % n, uses |-> 0] ELSE [index |-> index, uses |-> rotation.uses + 1]

(* What getRotatedModels leaves for the next request.                      *)
NextTurn(n) ==
  LET index == rotation.index % n IN
  IF rotation.uses + 1 >= StickyLimit
  THEN [index |-> (index + 1) % n, uses |-> 0] ELSE [index |-> index, uses |-> rotation.uses + 1]

TakesTurn(l) == RoundRobin /\ Len(l) > 1

(* Mutant: the capable models go to the front before the rotation. *)
OrderRotatedLast(l, n) ==
  LET s == Reordered(l, n) IN IF TakesTurn(s) THEN Rotated(s, rotation.index % Len(s)) ELSE s

Order(l, n) == Reordered(IF TakesTurn(l) THEN Rotated(l, rotation.index % Len(l)) ELSE l, n)

(* History: the turn of the place the rotation is at.                      *)
LeadAfterTurn(size) ==
  LET taken == [lead EXCEPT ![(rotation.index % size) + 1] = @ + 1] IN
  IF \A p \in 1 .. size : taken[p] > 0 THEN [p \in Places |-> IF p <= size THEN taken[p] - 1 ELSE 0]
  ELSE taken

-----------------------------------------------------------------------------
Start(r) ==
  /\ pc[r] = "idle"
  /\ \E n \in BOOLEAN :
       LET l == Augmented(combo, n) IN
       /\ needs' = [needs EXCEPT ![r] = n]
       /\ order' = [order EXCEPT ![r] = Order(l, n)]
       /\ IF TakesTurn(l) THEN rotation' = NextTurn(Len(l)) ELSE UNCHANGED rotation
       /\ lead' = IF l # combo THEN NoLead ELSE IF TakesTurn(l) THEN LeadAfterTurn(Len(l)) ELSE lead
  /\ list' = [list EXCEPT ![r] = combo]
  /\ at' = [at EXCEPT ![r] = 1]
  /\ pc' = [pc EXCEPT ![r] = "calling"]
  /\ UNCHANGED <<combo, served, edits>>

(* handleComboChat returns, and its local variables are gone.              *)
Return(r, good) ==
  /\ pc' = [pc EXCEPT ![r] = "idle"]
  /\ served' = [served EXCEPT ![r] = good]
  /\ needs' = [needs EXCEPT ![r] = FALSE]
  /\ list' = [list EXCEPT ![r] = <<>>] /\ order' = [order EXCEPT ![r] = <<>>]
  /\ at' = [at EXCEPT ![r] = 0]
  /\ UNCHANGED <<combo, rotation, lead, edits>>

Serve(r) == pc[r] = "calling" /\ Return(r, TRUE)

(* The next model, or the refusal when every model has failed.             *)
Advance(r) ==
  \/ /\ at[r] < Len(order[r])
     /\ at' = [at EXCEPT ![r] = @ + 1]
     /\ pc' = [pc EXCEPT ![r] = "calling"]
     /\ UNCHANGED <<combo, rotation, needs, list, order, served, lead, edits>>
  \/ at[r] = Len(order[r]) /\ Return(r, FALSE)

(* A model answers with an error, or its call throws.                      *)
Fail(r) == pc[r] = "calling" /\ Advance(r)

(* A 502, 503 or 504 that the error rules give at most five seconds is     *)
(* waited out before the next model is called.                             *)
FailBriefly(r) ==
  /\ pc[r] = "calling"
  /\ pc' = [pc EXCEPT ![r] = "waiting"]
  /\ UNCHANGED <<combo, rotation, needs, list, order, at, served, lead, edits>>

(* Mutant: the wait is for the model that failed, which is called again. *)
WaitEndsAgain(r) ==
  /\ pc[r] = "waiting"
  /\ pc' = [pc EXCEPT ![r] = "calling"]
  /\ UNCHANGED <<combo, rotation, needs, list, order, at, served, lead, edits>>

WaitEnds(r) == pc[r] = "waiting" /\ Advance(r)

(* updateCombo: the rotation is left as it is.                             *)
UpdateCombo(l) ==
  /\ edits < MaxEdits /\ edits' = edits + 1
  /\ l # combo
  /\ combo' = l /\ lead' = NoLead
  /\ UNCHANGED <<rotation, callVars>>

Called(r) == Serve(r) \/ Fail(r) \/ FailBriefly(r)

Next ==
  \/ \E r \in Requests : Start(r) \/ Called(r) \/ WaitEnds(r)
  \/ \E l \in Lists : UpdateCombo(l)

(* A model answers or its call times out, and timers fire; a request need  *)
(* not arrive.                                                             *)
Fairness == \A r \in Requests : WF_vars(Called(r)) /\ WF_vars(WaitEnds(r))
Spec == Init /\ [][Next]_vars /\ Fairness

-----------------------------------------------------------------------------
(* combo.js on the reordering: it "never drops a model (fallback intact)". *)
(* A request is refused only when every model of the list it read was      *)
(* tried, however the list was rotated, extended and reordered.            *)
NoModelDropped ==
  [][\A r \in Requests : pc[r] # "idle" /\ pc'[r] = "idle" /\ ~ served'[r] =>
       ToSet(list[r]) \subseteq {order[r][i] : i \in 1 .. at[r]}]_vars

(* A request with an attachment goes to a model that takes it first, if    *)
(* there is one, and the adapter's pool "never overrides a combo that      *)
(* already has a member covering the capability" (capacityAdapter.js).     *)
CapableFirst ==
  \A r \in Requests : pc[r] # "idle" /\ needs[r] =>
    /\ ToSet(order[r]) \cap Capable # {} => Head(order[r]) \in Capable
    /\ ToSet(list[r]) \cap Capable # {} => Head(order[r]) \in ToSet(list[r])

(* The rotation is fair: while the list stays as it is no place gets more  *)
(* than StickyLimit turns ahead of another, whoever takes them.            *)
RotationFair == \A p \in Places : lead[p] <= StickyLimit

(* Every request gets an answer, however its models fail.                  *)
EveryRequestIsAnswered == \A r \in Requests : pc[r] = "calling" ~> pc[r] = "idle"

=============================================================================
