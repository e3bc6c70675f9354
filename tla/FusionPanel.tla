---------------------------- MODULE FusionPanel ----------------------------
(***************************************************************************)
(* A fusion combo: every model of the panel is asked at once, and a judge  *)
(* writes one answer from theirs.                                          *)
(*   open-sse/services/combo.js   handleFusionChat, collectPanel,          *)
(*                                withTimeout                              *)
(*                                                                         *)
(* One request, whose state nobody shares.  A panel call may answer with   *)
(* text, answer with none (an empty or unreadable body), fail (a status or *)
(* an exception), or hang until its timeout settles it.  The collection    *)
(* closes when all calls have settled or when the grace for stragglers is  *)
(* over; the array of results stays open, and the request reads it with an *)
(* await for each body.  The hard timer of collectPanel is started after   *)
(* the calls' own, which are as long, so it never fires first and is left  *)
(* out, as are the texts and the flattening of tool turns.                 *)
(***************************************************************************)
EXTENDS Integers, FiniteSetsExt

CONSTANTS
  MaxPanel,      \* the longest panel
  MinPanel,      \* fusionTuning.minPanel
  Grace,         \* stragglerGraceMs, in ticks
  HardTimeout    \* panelHardTimeoutMs, in ticks

ASSUME FusionAssumption ==
  /\ MaxPanel \in Nat \ {0} /\ MinPanel \in Nat
  /\ Grace \in Nat \ {0} /\ HardTimeout \in Nat \ {0}

VARIABLES
  stage,     \* "idle", "collecting", "reading", "solo" or "judging"
  size,      \* panel.length
  call,      \* per place of the panel: how its call has ended, or "running"
  graceIn,   \* ticks until the grace timer fires, Unset if there is none
  hardIn,    \* ticks until the timers of the calls fire
  next,      \* the place the request reads next
  answers,   \* the places whose text it has
  fusion,    \* the outcome of the last request
  (* history *)
  inTime,    \* the places that had answered with text when the panel closed
  quorumAge  \* ticks since the quorum was there, Unset if it is not

panelVars == <<call, graceIn, hardIn, next, answers, inTime, quorumAge>>
fusionVars == <<stage, size, fusion, panelVars>>

Unset == -1
Panel == 1 .. size
Ends == {"text", "empty", "failed", "timeout"}
Good == {"text", "empty"}            \* res.ok

(* Math.min(Math.max(2, cfg.minPanel), panel.length) *)
Quorum == Min({Max({2, MinPanel}), size})

FusionTypeOK ==
  /\ stage \in {"idle", "collecting", "reading", "solo", "judging"}
  /\ size \in 0 .. MaxPanel
  /\ call \in [1 .. MaxPanel -> {"none", "running"} \cup Ends]
  /\ graceIn \in 0 .. Grace \cup {Unset} /\ hardIn \in 0 .. HardTimeout
  /\ next \in 0 .. size + 1 /\ answers \subseteq Panel
  /\ fusion \in {"none", "served", "failed"}
  /\ inTime \subseteq Panel /\ quorumAge \in 0 .. HardTimeout \cup {Unset}

NoCalls == [i \in 1 .. MaxPanel |-> "none"]

FusionInit ==
  /\ stage = "idle" /\ size = 0 /\ fusion = "none"
  /\ call = NoCalls /\ graceIn = Unset /\ hardIn = 0 /\ next = 0
  /\ answers = {} /\ inTime = {} /\ quorumAge = Unset

-----------------------------------------------------------------------------
(* A combo of one model has nothing to fuse.                               *)
StartFusion(n) ==
  /\ stage = "idle"
  /\ size' = n /\ fusion' = "none"
  /\ \/ n = 1 /\ stage' = "solo" /\ UNCHANGED panelVars
     \/ /\ n > 1 /\ stage' = "collecting"
        /\ call' = [i \in 1 .. MaxPanel |-> IF i <= n THEN "running" ELSE "none"]
        /\ hardIn' = HardTimeout
        /\ UNCHANGED <<graceIn, next, answers, inTime, quorumAge>>

(* finish                                                                  *)
Close ==
  /\ stage' = "reading" /\ next' = 1
  /\ graceIn' = Unset
  /\ inTime' = {i \in Panel : call'[i] = "text"}
  /\ UNCHANGED quorumAge

(* Mutant: the first answer starts the timer. *)
StartsGraceEarly(ok) == ok >= 1 /\ graceIn = Unset

(* collectPanel gives stragglers a timer when the quorum is there.         *)
StartsGrace(ok) == ok >= Quorum /\ graceIn = Unset

StaysOpen(ok) ==
  /\ graceIn' = IF StartsGrace(ok) THEN Grace ELSE graceIn
  /\ quorumAge' = IF ok >= Quorum /\ quorumAge = Unset THEN 0 ELSE quorumAge
  /\ UNCHANGED <<stage, next, inTime>>

(* A call settles.  While the panel is collected the numbers of settled    *)
(* and of good calls decide how it goes on; later the place is just filled.*)
Settle(i, end) ==
  /\ stage \in {"collecting", "reading"}
  /\ call[i] = "running"
  /\ call' = [call EXCEPT ![i] = end]
  /\ \/ stage = "reading" /\ UNCHANGED <<stage, next, graceIn, inTime, quorumAge>>
     \/ /\ stage = "collecting" /\ \A j \in Panel : call'[j] # "running"
        /\ Close
     \/ /\ stage = "collecting" /\ \E j \in Panel : call'[j] = "running"
        /\ StaysOpen(Cardinality({j \in Panel : call'[j] \in Good}))
  /\ UNCHANGED <<size, hardIn, answers, fusion>>

ModelEnds == \E i \in Panel, end \in Ends \ {"timeout"} : Settle(i, end)

(* Mutant: a call has no timer of its own. *)
CallTimesOutNever == FALSE /\ UNCHANGED fusionVars

(* withTimeout: the loser keeps running but is ignored.                    *)
CallTimesOut == hardIn = 0 /\ \E i \in Panel : Settle(i, "timeout")

GraceEnds ==
  /\ stage = "collecting" /\ graceIn = 0
  /\ UNCHANGED <<size, call, hardIn, answers, fusion>>
  /\ Close

-----------------------------------------------------------------------------
(* Mutant: a place that is not filled ends the reading. *)
BodiesEarly ==
  LET holes == {i \in next .. size : call[i] = "running"} IN
  {i \in next .. size : call[i] \in Good /\ \A h \in holes : i < h}

(* The places whose body the request can await.                            *)
Bodies == {i \in next .. size : call[i] \in Good}

(* The request goes on to the next body, past what is not filled by then.  *)
Read ==
  /\ stage = "reading" /\ next <= size
  /\ \/ Bodies = {} /\ next' = size + 1 /\ UNCHANGED answers
     \/ /\ Bodies # {} /\ next' = Min(Bodies) + 1
        /\ answers' = IF call[Min(Bodies)] = "text" THEN answers \cup {Min(Bodies)} ELSE answers
  /\ UNCHANGED <<stage, size, call, graceIn, hardIn, fusion, inTime, quorumAge>>

HasRead == stage = "reading" /\ next > size

(* What the calls still bring is ignored.                                  *)
Leave ==
  /\ call' = NoCalls /\ graceIn' = Unset /\ hardIn' = 0 /\ next' = 0
  /\ answers' = {} /\ inTime' = {} /\ quorumAge' = Unset

(* Without an answer the request is refused; the model of a single one is  *)
(* asked again, with the client's own request; several go to the judge.    *)
Refuse ==
  /\ HasRead /\ answers = {}
  /\ stage' = "idle" /\ fusion' = "failed" /\ size' = 0
  /\ Leave

AskAgain ==
  /\ HasRead /\ Cardinality(answers) = 1
  /\ stage' = "solo" /\ UNCHANGED <<size, fusion>>
  /\ Leave

AskJudge ==
  /\ HasRead /\ Cardinality(answers) > 1
  /\ stage' = "judging" /\ UNCHANGED <<size, fusion>>
  /\ Leave

(* The call of the judge, or of the only model, is the answer.             *)
LastCallEnds ==
  /\ stage \in {"solo", "judging"}
  /\ fusion' \in {"served", "failed"}
  /\ stage' = "idle" /\ size' = 0
  /\ UNCHANGED panelVars

(* Timers that are due fire before the clock goes on.                      *)
FusionTick ==
  /\ stage = "collecting" /\ hardIn > 0 /\ graceIn # 0
  /\ hardIn' = hardIn - 1
  /\ graceIn' = IF graceIn = Unset THEN Unset ELSE graceIn - 1
  /\ quorumAge' = IF quorumAge = Unset THEN Unset ELSE quorumAge + 1
  /\ UNCHANGED <<stage, size, call, next, answers, fusion, inTime>>

Collect == CallTimesOut \/ GraceEnds \/ FusionTick
Conclude == Read \/ Refuse \/ AskAgain \/ AskJudge \/ LastCallEnds

FusionNext == ModelEnds \/ Collect \/ Conclude

(* Timers fire, bodies are read and the last call ends by timeouts of its  *)
(* own; a model of the panel need not answer.                              *)
FusionFairness == WF_fusionVars(Collect) /\ WF_fusionVars(Conclude)

-----------------------------------------------------------------------------
(* What had answered when the panel closed is used, although stragglers    *)
(* still fill the array while it is read: a request is refused, or made    *)
(* once more, only if nobody, or one model, had answered by then.          *)
InTimeIsUsed == [][HasRead /\ stage' # stage => inTime \subseteq answers]_fusionVars

(* combo.js: stragglers get "a short grace timer" once minPanel calls have *)
(* succeeded.  Nobody is cut off without it.                               *)
StragglersGetTheirGrace ==
  [][stage = "collecting" /\ stage' = "reading" /\ (\E i \in Panel : call'[i] = "running")
       => quorumAge >= Grace]_fusionVars

(* combo.js: "one hung model can't stall forever".                         *)
EveryFusionIsAnswered == stage = "collecting" ~> stage = "idle"

=============================================================================
