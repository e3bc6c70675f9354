--------------------------- MODULE RequestEnds_proofs ---------------------------
(***************************************************************************)
(* Theorems about how requests end.                                        *)
(*                                                                         *)
(* StreamLifecycle: every request releases the shared counter exactly once *)
(* however it ends, for every finite set of requests and all time-outs.    *)
(*                                                                         *)
(* PromptTrace: the row of a prompt is closed once and truly, for any      *)
(* number of frames.  The flag closed admits one call of complete in the   *)
(* life of a request.  The invariant follows that one call: before it the  *)
(* row is open, while it runs the row is open and the call is the only one *)
(* (OneCall), and what it will write is true of the request from then on   *)
(* (CallIsTrue), because nothing that it depends on changes once the flag  *)
(* is set.                                                                 *)
(***************************************************************************)
EXTENDS StreamLifecycle, PromptTrace, FiniteSetTheorems, TLAPS

-----------------------------------------------------------------------------
(* The end of a request and the pending counter                            *)

(* What is known of a request at each point of its life; a failing one has *)
(* released the counter if and only if the watchdog got there first.       *)
LifeInv ==
  \A r \in Requests :
    /\ phase[r] \in {"new", "executing"} =>
         ~disconnected[r] /\ released[r] = 0 /\ saved[r] = 0 /\ ~finalized[r] /\ stallIn[r] = Off
    /\ phase[r] = "streaming" => ~disconnected[r] /\ released[r] = 0
    /\ phase[r] \in {"streaming", "failing"} => saved[r] = IF finalized[r] THEN 1 ELSE 0
    /\ phase[r] = "failing" => released[r] = IF disconnected[r] THEN 1 ELSE 0

(* The requests the counter counts, if the timer has not zeroed it.        *)
Counted == {r \in Live : released[r] = 0}

CountInv == pending <= Cardinality(Counted)

IInv == TypeOK /\ LifeInv /\ ReleasedOnce /\ NoStaleAbort /\ UsageSavedOnce

-----------------------------------------------------------------------------
LEMMA InitIInv == Init => IInv
  BY StreamAssumption DEF Init, IInv, TypeOK, LifeInv, ReleasedOnce, NoStaleAbort, UsageSavedOnce, Off

(* The controller and the counter keep their types. *)
ControllerTypes ==
  /\ disconnected \in [Requests -> BOOLEAN]
  /\ abortIn \in [Requests -> Off..AbortDelay]
  /\ pending \in Nat
  /\ pendingIn \in Off..PendingTimeout
  /\ released \in [Requests -> Nat]

LEMMA TrackEndTypes ==
  ASSUME TypeOK, NEW r \in Requests, TrackEnd(r)
  PROVE  pending' \in Nat /\ pendingIn' \in Off..PendingTimeout /\ released' \in [Requests -> Nat]
  BY StreamAssumption DEF TypeOK, TrackEnd, Off

LEMMA SetDisconnected ==
  ASSUME TypeOK, NEW r \in Requests, disconnected' = [disconnected EXCEPT ![r] = TRUE]
  PROVE  disconnected' \in [Requests -> BOOLEAN]
  BY Zenon DEF TypeOK

LEMMA ControllerKeepsTypes ==
  ASSUME TypeOK, NEW r \in Requests,
         \/ HandleError(r) \/ HandleDisconnect(r) \/ (TrackEnd(r) /\ HandleComplete(r))
  PROVE  ControllerTypes'
<1>1. CASE UNCHANGED <<disconnected, abortIn, counter>>
  BY <1>1 DEF TypeOK, ControllerTypes, counter
<1>2. CASE /\ disconnected' = [disconnected EXCEPT ![r] = TRUE] /\ TrackEnd(r)
           /\ \E n \in Off..AbortDelay : abortIn' = [abortIn EXCEPT ![r] = n]
  <2>1. abortIn' \in [Requests -> Off..AbortDelay]
    BY <1>2 DEF TypeOK
  <2>2. QED
    BY <1>2, <2>1, TrackEndTypes, SetDisconnected DEF ControllerTypes
<1>3. Off \in Off..AbortDelay /\ AbortDelay \in Off..AbortDelay /\ abortIn[r] \in Off..AbortDelay
  BY StreamAssumption DEF TypeOK, Off
<1>4. QED
  BY <1>1, <1>2, <1>3 DEF HandleError, HandleDisconnect, HandleComplete

LEMMA TranslationFailsKeeps == ASSUME IInv, NEW r \in Requests, TranslationFails(r) PROVE IInv'
<1> USE StreamAssumption DEF TranslationFails, Moves, TrackEnd, controller, counter, Off
<1>1. TypeOK'
  BY DEF IInv, TypeOK, LifeInv
<1>2. LifeInv'
  BY DEF IInv, TypeOK, LifeInv
<1>3. ReleasedOnce' /\ NoStaleAbort' /\ UsageSavedOnce'
  BY DEF IInv, TypeOK, LifeInv, ReleasedOnce, NoStaleAbort, UsageSavedOnce
<1>4. QED
  BY <1>1, <1>2, <1>3 DEF IInv

LEMMA StartKeeps == ASSUME IInv, NEW r \in Requests, Start(r) PROVE IInv'
<1> USE StreamAssumption DEF Start, Moves, TrackStart, controller, counter, Off
<1>1. TypeOK'
  BY DEF IInv, TypeOK, LifeInv
<1>2. LifeInv'
  BY DEF IInv, TypeOK, LifeInv
<1>3. ReleasedOnce' /\ NoStaleAbort' /\ UsageSavedOnce'
  BY DEF IInv, TypeOK, LifeInv, ReleasedOnce, NoStaleAbort, UsageSavedOnce
<1>4. QED
  BY <1>1, <1>2, <1>3 DEF IInv

LEMMA ProviderFailsKeeps == ASSUME IInv, NEW r \in Requests, ProviderFails(r) PROVE IInv'
<1> USE StreamAssumption DEF ProviderFails, Moves, TrackEnd, controller, counter, Off
<1>1. TypeOK'
  BY DEF IInv, TypeOK, LifeInv
<1>2. LifeInv'
  BY DEF IInv, TypeOK, LifeInv
<1>3. ReleasedOnce' /\ NoStaleAbort' /\ UsageSavedOnce'
  BY DEF IInv, TypeOK, LifeInv, ReleasedOnce, NoStaleAbort, UsageSavedOnce
<1>4. QED
  BY <1>1, <1>2, <1>3 DEF IInv

LEMMA AnswersAtOnceKeeps == ASSUME IInv, NEW r \in Requests, AnswersAtOnce(r) PROVE IInv'
<1>1. TypeOK'
  <2>1. ControllerTypes'
    BY ControllerKeepsTypes DEF IInv, AnswersAtOnce
  <2>2. phase' \in [Requests -> {"new", "executing", "streaming", "failing", "ended"}] /\ UNCHANGED chunks
    BY DEF IInv, TypeOK, AnswersAtOnce, Moves
  <2>3. stallIn' \in [Requests -> Off..StallTimeout] /\ saved' \in [Requests -> Nat]
    BY StreamAssumption DEF IInv, TypeOK, AnswersAtOnce, Moves, Finalize, Off
  <2>4. aborted' \in [Requests -> BOOLEAN] /\ finalized' \in [Requests -> BOOLEAN]
    BY Zenon DEF IInv, TypeOK, AnswersAtOnce, Finalize
  <2>5. QED
    BY <2>1, <2>2, <2>3, <2>4 DEF IInv, TypeOK, ControllerTypes
<1> USE StreamAssumption DEF AnswersAtOnce, Moves, TrackEnd, HandleComplete, controller, counter, Off
<1>2. LifeInv'
  BY DEF IInv, TypeOK, LifeInv
<1>3. ReleasedOnce' /\ NoStaleAbort' /\ UsageSavedOnce'
  BY DEF IInv, TypeOK, LifeInv, ReleasedOnce, NoStaleAbort, UsageSavedOnce
<1>4. QED
  BY <1>1, <1>2, <1>3 DEF IInv

LEMMA AnswersWithPageKeeps == ASSUME IInv, NEW r \in Requests, AnswersWithPage(r) PROVE IInv'
<1>1. TypeOK'
  <2>1. ControllerTypes'
    BY ControllerKeepsTypes DEF IInv, AnswersWithPage
  <2>2. phase' \in [Requests -> {"new", "executing", "streaming", "failing", "ended"}] /\ UNCHANGED chunks
    BY DEF IInv, TypeOK, AnswersWithPage, Moves
  <2>3. stallIn' \in [Requests -> Off..StallTimeout] /\ saved' \in [Requests -> Nat]
    BY StreamAssumption DEF IInv, TypeOK, AnswersWithPage, Moves, Finalize, Off
  <2>4. aborted' \in [Requests -> BOOLEAN] /\ finalized' \in [Requests -> BOOLEAN]
    BY Zenon DEF IInv, TypeOK, AnswersWithPage, Finalize
  <2>5. QED
    BY <2>1, <2>2, <2>3, <2>4 DEF IInv, TypeOK, ControllerTypes
<1> USE StreamAssumption DEF AnswersWithPage, Moves, HandleError, TrackEnd, controller, counter, Off
<1>2. LifeInv'
  BY DEF IInv, TypeOK, LifeInv
<1>3. ReleasedOnce' /\ NoStaleAbort' /\ UsageSavedOnce'
  BY DEF IInv, TypeOK, LifeInv, ReleasedOnce, NoStaleAbort, UsageSavedOnce
<1>4. QED
  BY <1>1, <1>2, <1>3 DEF IInv

LEMMA OpenStreamKeeps == ASSUME IInv, NEW r \in Requests, OpenStream(r) PROVE IInv'
<1> USE StreamAssumption DEF OpenStream, Moves, controller, counter, Off
<1>1. TypeOK'
  BY DEF IInv, TypeOK, LifeInv
<1>2. LifeInv'
  BY DEF IInv, TypeOK, LifeInv
<1>3. ReleasedOnce' /\ NoStaleAbort' /\ UsageSavedOnce'
  BY DEF IInv, TypeOK, LifeInv, ReleasedOnce, NoStaleAbort, UsageSavedOnce
<1>4. QED
  BY <1>1, <1>2, <1>3 DEF IInv

LEMMA ChunkKeeps == ASSUME IInv, NEW r \in Requests, Chunk(r) PROVE IInv'
<1>1. TypeOK'
  <2>1. chunks' \in [Requests -> 0..MaxChunks]
    BY StreamAssumption DEF IInv, TypeOK, Chunk
  <2>2. stallIn' \in [Requests -> Off..StallTimeout] /\ saved' \in [Requests -> Nat]
    BY StreamAssumption DEF IInv, TypeOK, Chunk, Finalize, Off
  <2>3. finalized' \in [Requests -> BOOLEAN]
    BY Zenon DEF IInv, TypeOK, Chunk, Finalize
  <2>4. QED
    BY <2>1, <2>2, <2>3 DEF IInv, TypeOK, Chunk, controller, counter
<1> USE StreamAssumption DEF Chunk, Finalize, controller, counter, Off
<1>2. LifeInv'
  BY DEF IInv, TypeOK, LifeInv
<1>3. ReleasedOnce' /\ NoStaleAbort' /\ UsageSavedOnce'
  BY DEF IInv, TypeOK, LifeInv, ReleasedOnce, NoStaleAbort, UsageSavedOnce
<1>4. QED
  BY <1>1, <1>2, <1>3 DEF IInv

LEMMA UpstreamEndsKeeps == ASSUME IInv, NEW r \in Requests, UpstreamEnds(r) PROVE IInv'
<1>1. TypeOK'
  <2>1. ControllerTypes'
    BY ControllerKeepsTypes DEF IInv, UpstreamEnds
  <2>2. phase' \in [Requests -> {"new", "executing", "streaming", "failing", "ended"}] /\ UNCHANGED chunks
    BY DEF IInv, TypeOK, UpstreamEnds, Moves
  <2>3. stallIn' \in [Requests -> Off..StallTimeout] /\ saved' \in [Requests -> Nat]
    BY StreamAssumption DEF IInv, TypeOK, UpstreamEnds, Moves, Finalize, Off
  <2>4. aborted' \in [Requests -> BOOLEAN] /\ finalized' \in [Requests -> BOOLEAN]
    BY Zenon DEF IInv, TypeOK, UpstreamEnds, Finalize
  <2>5. QED
    BY <2>1, <2>2, <2>3, <2>4 DEF IInv, TypeOK, ControllerTypes
<1> USE StreamAssumption DEF UpstreamEnds, Moves, TrackEnd, Finalize, HandleComplete, controller, counter, Off
<1>2. LifeInv'
  BY DEF IInv, TypeOK, LifeInv
<1>3. ReleasedOnce' /\ NoStaleAbort' /\ UsageSavedOnce'
  BY DEF IInv, TypeOK, LifeInv, ReleasedOnce, NoStaleAbort, UsageSavedOnce
<1>4. QED
  BY <1>1, <1>2, <1>3 DEF IInv

LEMMA UpstreamBreaksKeeps == ASSUME IInv, NEW r \in Requests, UpstreamBreaks(r) PROVE IInv'
<1> USE StreamAssumption DEF UpstreamBreaks, Moves, controller, counter, Off
<1>1. TypeOK'
  BY DEF IInv, TypeOK, LifeInv
<1>2. LifeInv'
  BY DEF IInv, TypeOK, LifeInv
<1>3. ReleasedOnce' /\ NoStaleAbort' /\ UsageSavedOnce'
  BY DEF IInv, TypeOK, LifeInv, ReleasedOnce, NoStaleAbort, UsageSavedOnce
<1>4. QED
  BY <1>1, <1>2, <1>3 DEF IInv

LEMMA StallFiresKeeps == ASSUME IInv, NEW r \in Requests, StallFires(r) PROVE IInv'
<1>1. TypeOK'
  <2>1. ControllerTypes'
    BY ControllerKeepsTypes DEF IInv, StallFires
  <2>2. phase' \in [Requests -> {"new", "executing", "streaming", "failing", "ended"}] /\ UNCHANGED chunks
    BY DEF IInv, TypeOK, StallFires, Moves
  <2>3. stallIn' \in [Requests -> Off..StallTimeout] /\ saved' \in [Requests -> Nat]
    BY StreamAssumption DEF IInv, TypeOK, StallFires, Moves, Finalize, Off
  <2>4. aborted' \in [Requests -> BOOLEAN] /\ finalized' \in [Requests -> BOOLEAN]
    BY Zenon DEF IInv, TypeOK, StallFires, Finalize
  <2>5. QED
    BY <2>1, <2>2, <2>3, <2>4 DEF IInv, TypeOK, ControllerTypes
<1> USE StreamAssumption DEF StallFires, HandleError, TrackEnd, controller, counter, Off
<1>2. LifeInv'
  BY DEF IInv, TypeOK, LifeInv
<1>3. ReleasedOnce' /\ NoStaleAbort' /\ UsageSavedOnce'
  BY DEF IInv, TypeOK, LifeInv, ReleasedOnce, NoStaleAbort, UsageSavedOnce
<1>4. QED
  BY <1>1, <1>2, <1>3 DEF IInv

LEMMA ReadRejectsKeeps == ASSUME IInv, NEW r \in Requests, ReadRejects(r) PROVE IInv'
<1>1. TypeOK'
  <2>1. ControllerTypes'
    BY ControllerKeepsTypes DEF IInv, ReadRejects
  <2>2. phase' \in [Requests -> {"new", "executing", "streaming", "failing", "ended"}] /\ UNCHANGED chunks
    BY DEF IInv, TypeOK, ReadRejects, Moves
  <2>3. stallIn' \in [Requests -> Off..StallTimeout] /\ saved' \in [Requests -> Nat]
    BY StreamAssumption DEF IInv, TypeOK, ReadRejects, Moves, Finalize, Off
  <2>4. aborted' \in [Requests -> BOOLEAN] /\ finalized' \in [Requests -> BOOLEAN]
    BY Zenon DEF IInv, TypeOK, ReadRejects, Finalize
  <2>5. QED
    BY <2>1, <2>2, <2>3, <2>4 DEF IInv, TypeOK, ControllerTypes
<1> USE StreamAssumption DEF ReadRejects, Moves, HandleError, TrackEnd, controller, counter, Off
<1>2. LifeInv'
  BY DEF IInv, TypeOK, LifeInv
<1>3. ReleasedOnce' /\ NoStaleAbort' /\ UsageSavedOnce'
  BY DEF IInv, TypeOK, LifeInv, ReleasedOnce, NoStaleAbort, UsageSavedOnce
<1>4. QED
  BY <1>1, <1>2, <1>3 DEF IInv

LEMMA ClientLeavesKeeps == ASSUME IInv, NEW r \in Requests, ClientLeaves(r) PROVE IInv'
<1>1. TypeOK'
  <2>1. ControllerTypes'
    BY ControllerKeepsTypes DEF IInv, ClientLeaves
  <2>2. phase' \in [Requests -> {"new", "executing", "streaming", "failing", "ended"}] /\ UNCHANGED chunks
    BY DEF IInv, TypeOK, ClientLeaves, Moves
  <2>3. stallIn' \in [Requests -> Off..StallTimeout] /\ saved' \in [Requests -> Nat]
    BY StreamAssumption DEF IInv, TypeOK, ClientLeaves, Moves, Finalize, Off
  <2>4. aborted' \in [Requests -> BOOLEAN] /\ finalized' \in [Requests -> BOOLEAN]
    BY Zenon DEF IInv, TypeOK, ClientLeaves, Finalize
  <2>5. QED
    BY <2>1, <2>2, <2>3, <2>4 DEF IInv, TypeOK, ControllerTypes
<1> USE StreamAssumption DEF ClientLeaves, Moves, HandleDisconnect, TrackEnd, controller, counter, Off
<1>2. LifeInv'
  BY DEF IInv, TypeOK, LifeInv
<1>3. ReleasedOnce' /\ NoStaleAbort' /\ UsageSavedOnce'
  BY DEF IInv, TypeOK, LifeInv, ReleasedOnce, NoStaleAbort, UsageSavedOnce
<1>4. QED
  BY <1>1, <1>2, <1>3 DEF IInv

LEMMA AbortFiresKeeps == ASSUME IInv, NEW r \in Requests, AbortFires(r) PROVE IInv'
<1> USE StreamAssumption DEF AbortFires, controller, counter, Off
<1>1. TypeOK'
  BY DEF IInv, TypeOK, LifeInv
<1>2. LifeInv'
  BY DEF IInv, TypeOK, LifeInv
<1>3. ReleasedOnce' /\ NoStaleAbort' /\ UsageSavedOnce'
  BY DEF IInv, TypeOK, LifeInv, ReleasedOnce, NoStaleAbort, UsageSavedOnce
<1>4. QED
  BY <1>1, <1>2, <1>3 DEF IInv

LEMMA TimersKeep == ASSUME IInv, PendingExpires \/ Tick \/ UNCHANGED vars PROVE IInv'
<1> USE StreamAssumption DEF PendingExpires, Tick, Down, vars, controller, counter, Off
<1>1. TypeOK'
  BY DEF IInv, TypeOK
<1>2. LifeInv'
  BY DEF IInv, TypeOK, LifeInv
<1>3. ReleasedOnce' /\ NoStaleAbort' /\ UsageSavedOnce'
  BY DEF IInv, TypeOK, ReleasedOnce, NoStaleAbort, UsageSavedOnce
<1>4. QED
  BY <1>1, <1>2, <1>3 DEF IInv

LEMMA NextKeeps == IInv /\ [Next]_vars => IInv'
<1> SUFFICES ASSUME IInv, [Next]_vars PROVE IInv'
  OBVIOUS
<1>1. ASSUME NEW r \in Requests, TranslationFails(r) \/ Start(r) \/ Provider(r) PROVE IInv'
  BY <1>1, TranslationFailsKeeps, StartKeeps, ProviderFailsKeeps, AnswersAtOnceKeeps, AnswersWithPageKeeps,
     OpenStreamKeeps DEF Provider
<1>2. ASSUME NEW r \in Requests, Chunk(r) \/ UpstreamEnds(r) \/ UpstreamBreaks(r) PROVE IInv'
  BY <1>2, ChunkKeeps, UpstreamEndsKeeps, UpstreamBreaksKeeps
<1>3. ASSUME NEW r \in Requests, StallFires(r) \/ ReadRejects(r) \/ ClientLeaves(r) \/ AbortFires(r) PROVE IInv'
  BY <1>3, StallFiresKeeps, ReadRejectsKeeps, ClientLeavesKeeps, AbortFiresKeeps
<1>4. QED
  BY <1>1, <1>2, <1>3, TimersKeep DEF Next

(* The invariant above holds in every reachable state. *)
THEOREM SpecIInv == Spec => []IInv
  BY InitIInv, NextKeeps, PTL DEF Spec

-----------------------------------------------------------------------------
(* The counter counts at most the live requests that have not released it. *)
LEMMA CountedFacts ==
  ASSUME IInv
  PROVE  IsFiniteSet(Counted) /\ Cardinality(Counted) \in Nat
<1>1. IsFiniteSet(Counted)
  BY StreamAssumption, FS_Subset DEF Counted, Live
<1>2. QED
  BY <1>1, FS_CardinalityType

LEMMA StartCounts ==
  ASSUME IInv, CountInv, NEW r \in Requests, Start(r)
  PROVE  CountInv'
<1>1. Counted' = Counted \cup {r} /\ r \notin Counted
  BY DEF IInv, TypeOK, LifeInv, Start, Moves, TrackStart, Counted, Live
<1>2. Cardinality(Counted') = Cardinality(Counted) + 1
  BY <1>1, CountedFacts, FS_AddElement
<1>3. QED
  BY <1>2, CountedFacts DEF CountInv, Start, TrackStart, IInv, TypeOK

(* A live request that has not released the counter does: one fewer. *)
LEMMA ReleaseCounts ==
  ASSUME IInv, CountInv, NEW r \in Counted, TrackEnd(r), Counted' = Counted \ {r}
  PROVE  CountInv'
<1>1. Cardinality(Counted') = Cardinality(Counted) - 1
  BY CountedFacts, FS_RemoveElement
<1>2. Cardinality(Counted') \in Nat
  BY CountedFacts, FS_RemoveElement, FS_CardinalityType
<1>3. pending \in Nat /\ pending' = IF pending > 0 THEN pending - 1 ELSE 0
  BY DEF TrackEnd, IInv, TypeOK
<1>4. QED
  BY <1>1, <1>2, <1>3, CountedFacts DEF CountInv

(* A step that does not raise the counter and counts the same requests. *)
LEMMA SameCounts ==
  ASSUME IInv, CountInv, Counted' = Counted, pending' \in Nat, pending' <= pending
  PROVE  CountInv'
  BY CountedFacts DEF CountInv, IInv, TypeOK

LEMMA EndsCounts ==
  ASSUME IInv, CountInv, NEW r \in Requests,
         phase[r] \in {"executing", "streaming"},
         phase' = [phase EXCEPT ![r] = "ended"],
         TrackEnd(r)
  PROVE  CountInv'
<1>1. r \in Counted /\ Counted' = Counted \ {r}
  BY DEF IInv, TypeOK, LifeInv, Counted, Live, TrackEnd
<1>2. QED
  BY <1>1, ReleaseCounts

(* The ends that go through the controller: the first releases the counter. *)
LEMMA ControllerCounts ==
  ASSUME IInv, CountInv, NEW r \in Requests, NEW to \in {"failing", "ended"},
         phase[r] \in {"executing", "streaming", "failing"},
         phase' = [phase EXCEPT ![r] = to],
         HandleError(r) \/ HandleDisconnect(r)
  PROVE  CountInv'
<1>1. CASE disconnected[r]
  <2>1. Counted' = Counted /\ pending' = pending
    BY <1>1 DEF IInv, TypeOK, LifeInv, Counted, Live, HandleError, HandleDisconnect, counter
  <2>2. QED
    BY <2>1, SameCounts DEF IInv, TypeOK
<1>2. CASE ~disconnected[r]
  <2>1. TrackEnd(r)
    BY <1>2 DEF HandleError, HandleDisconnect
  <2>2. r \in Counted /\ Counted' = Counted \ {r}
    BY <1>2, <2>1 DEF IInv, TypeOK, LifeInv, Counted, Live, TrackEnd
  <2>3. QED
    BY <2>1, <2>2, ReleaseCounts
<1>3. QED
  BY <1>1, <1>2

LEMMA NextCounts == IInv /\ CountInv /\ [Next]_vars => CountInv'
<1> SUFFICES ASSUME IInv, CountInv, [Next]_vars PROVE CountInv'
  OBVIOUS
<1>1. ASSUME NEW r \in Requests, TranslationFails(r) PROVE CountInv'
  <2>1. Counted' = Counted
    BY <1>1 DEF TranslationFails, Moves, TrackEnd, IInv, TypeOK, LifeInv, Counted, Live
  <2>2. pending' \in Nat /\ pending' <= pending
    BY <1>1 DEF TranslationFails, TrackEnd, IInv, TypeOK
  <2>3. QED
    BY <2>1, <2>2, SameCounts
<1>2. ASSUME NEW r \in Requests, ProviderFails(r) \/ AnswersAtOnce(r) \/ UpstreamEnds(r) PROVE CountInv'
  BY <1>2, EndsCounts DEF ProviderFails, AnswersAtOnce, UpstreamEnds, Moves
<1>3. ASSUME NEW r \in Requests,
             AnswersWithPage(r) \/ StallFires(r) \/ ReadRejects(r) \/ ClientLeaves(r)
      PROVE  CountInv'
  BY <1>3, ControllerCounts DEF AnswersWithPage, StallFires, ReadRejects, ClientLeaves, Moves
<1>4. ASSUME NEW r \in Requests, OpenStream(r) \/ Chunk(r) \/ UpstreamBreaks(r) \/ AbortFires(r) PROVE CountInv'
  <2>1. Counted' = Counted
    BY <1>4 DEF OpenStream, Chunk, UpstreamBreaks, AbortFires, Moves, controller, counter,
                IInv, TypeOK, LifeInv, Counted, Live
  <2>2. pending' = pending
    BY <1>4 DEF OpenStream, Chunk, UpstreamBreaks, AbortFires, counter
  <2>3. QED
    BY <2>1, <2>2, SameCounts DEF IInv, TypeOK
<1>5. ASSUME PendingExpires \/ Tick \/ UNCHANGED vars PROVE CountInv'
  <2>1. Counted' = Counted
    BY <1>5 DEF PendingExpires, Tick, vars, counter, Counted, Live
  <2>2. pending' \in Nat /\ pending' <= pending
    BY <1>5 DEF PendingExpires, Tick, vars, counter, IInv, TypeOK
  <2>3. QED
    BY <2>1, <2>2, SameCounts
<1>6. QED
  BY <1>1, <1>2, <1>3, <1>4, <1>5, StartCounts DEF Next, Provider

LEMMA InitCounts == Init => CountInv
<1> SUFFICES ASSUME Init PROVE CountInv
  OBVIOUS
<1>1. Counted = {}
  BY DEF Init, Counted, Live
<1>2. QED
  BY <1>1, FS_EmptySet DEF CountInv, Init

LEMMA CountedAreLive == IInv /\ CountInv => PendingIsLive
<1> SUFFICES ASSUME IInv, CountInv PROVE PendingIsLive
  OBVIOUS
<1>1. Counted \subseteq Live /\ IsFiniteSet(Live)
  BY StreamAssumption, FS_Subset DEF Counted, Live
<1>2. Cardinality(Counted) <= Cardinality(Live) /\ Cardinality(Live) \in Nat
  BY <1>1, FS_Subset, FS_CardinalityType
<1>3. QED
  BY <1>2, CountedFacts DEF CountInv, PendingIsLive, IInv, TypeOK

-----------------------------------------------------------------------------
(* Timers, counter and controllers keep their types. *)
THEOREM SpecTypeOK == Spec => []TypeOK
  BY SpecIInv, PTL DEF IInv

(* Whichever of upstream, error, watchdog and client end a request, it     *)
(* decrements the pending counter exactly once.                            *)
THEOREM SpecReleasedOnce == Spec => []ReleasedOnce
  BY SpecIInv, PTL DEF IInv

(* The watchdog of pipeWithDisconnect is disarmed when the request is over. *)
THEOREM SpecNoStaleAbort == Spec => []NoStaleAbort
  BY SpecIInv, PTL DEF IInv

(* finalizeStream and the readers of whole answers save usage only once.   *)
THEOREM SpecUsageSavedOnce == Spec => []UsageSavedOnce
  BY SpecIInv, PTL DEF IInv

(* The pending counter never exceeds the number of requests in progress.   *)
THEOREM SpecPendingIsLive == Spec => []PendingIsLive
<1>1. IInv /\ CountInv /\ [Next]_vars => IInv' /\ CountInv'
  BY NextKeeps, NextCounts
<1>2. Init => IInv /\ CountInv
  BY InitIInv, InitCounts
<1>3. QED
  BY <1>1, <1>2, CountedAreLive, PTL DEF Spec

-----------------------------------------------------------------------------
(* The trace of a prompt                                                   *)

OneCall ==
  /\ ~closed => completing = {}
  /\ row.status \in Closings => closed /\ completing = {}
  /\ \A c, d \in completing : c = d

Places ==
  /\ pc \in {"begin", "key"} => ~listening /\ ~closed
  /\ pc \in {"begin", "key", "routing"} => outcome = "none"
  /\ pc = "copying" => outcome \in {"served", "refused"}
  /\ pc \in {"routing", "copying"} => (closed <=> left = "noticed") /\ listening
  /\ pc = "ended" => closed
  /\ left = "noticed" => closed
  /\ resEnded => pc \in {"ended", "crashed"}

UsageIsLast == format = "sse" => usage = frames

(* What the status of a closing, and the usage an ok one has, must be. *)
IsTrue(status) ==
  /\ status = "aborted" => left = "noticed"
  /\ status = "ok" => left # "noticed" /\ outcome = "served" /\ usage = frames /\ pc \in {"ended", "crashed"}
  /\ status = "error" => left # "noticed" /\ outcome \in {"refused", "threw"} /\ pc \in {"ended", "crashed"}

CallIsTrue ==
  /\ \A c \in completing : IsTrue(c.status) /\ (c.status = "ok" /\ c.read => c.usage = frames)
  /\ IsTrue(row.status) /\ (row.status = "ok" => row.usage = frames)

TInv == TraceTypeOK /\ OneCall /\ Places /\ UsageIsLast /\ CallIsTrue

-----------------------------------------------------------------------------
NewCall(status) == [status |-> status, read |-> FALSE, usage |-> 0]

LEMMA NewCallType ==
  ASSUME NEW status \in Closings
  PROVE  NewCall(status) \in Calls
BY TraceAssumption DEF NewCall, Calls

(* A close by which nothing changes, or the first. *)
LEMMA CloseCases ==
  ASSUME NEW status, Close(status), closed \in BOOLEAN
  PROVE  /\ closed' = TRUE
         /\ closed => completing' = completing
         /\ ~closed => completing' = completing \cup {NewCall(status)}
BY DEF Close, NewCall

LEMMA CloseKeepsOneCall ==
  ASSUME TInv, NEW status \in Closings, Close(status), UNCHANGED row
  PROVE  OneCall' /\ completing' \subseteq Calls
<1> USE DEF TInv, TraceTypeOK, OneCall
<1>1. CASE closed
  BY <1>1, CloseCases
<1>2. CASE ~closed
  <2>1. completing' = {NewCall(status)} /\ closed' = TRUE
    BY <1>2, CloseCases
  <2>2. row'.status \notin Closings
    BY <1>2
  <2> QED BY <2>1, <2>2, NewCallType
<1> QED BY <1>1, <1>2

LEMMA CloseKeepsTruth ==
  ASSUME TInv, NEW status \in Closings, Close(status), UNCHANGED <<row, frames>>,
         ~closed => IsTrue(status)',
         \A s \in Closings : IsTrue(s) => IsTrue(s)'
  PROVE  CallIsTrue'
<1>1. IsTrue(row.status)' /\ (row'.status = "ok" => row'.usage = frames')
  BY DEF TInv, TraceTypeOK, CallIsTrue, IsTrue, Closings
<1>2. ASSUME NEW c \in completing'
      PROVE  IsTrue(c.status)' /\ (c.status = "ok" /\ c.read => c.usage = frames')
  <2>1. CASE c \in completing
    <3>1. c.status \in Closings /\ IsTrue(c.status)
      BY <2>1 DEF TInv, TraceTypeOK, CallIsTrue, Calls
    <3>2. c.status = "ok" /\ c.read => c.usage = frames'
      BY <2>1 DEF TInv, CallIsTrue
    <3> QED BY <3>1, <3>2
  <2>2. CASE c \notin completing
    <3>1. ~closed /\ c = NewCall(status)
      BY <1>2, <2>2, CloseCases DEF TInv, TraceTypeOK
    <3>2. c.status = status /\ c.read = FALSE
      BY <3>1 DEF NewCall
    <3> QED BY <3>1, <3>2
  <2> QED BY <2>1, <2>2
<1> QED BY <1>1, <1>2 DEF CallIsTrue

(* A step that leaves the calls, the row and what they are judged by.      *)
LEMMA QuietStep ==
  ASSUME TInv, UNCHANGED <<closed, completing, frames>>,
         \A s \in Closings : IsTrue(s) => IsTrue(s)',
         row'.status \in {row.status, "pending"}, row'.usage = row.usage
  PROVE  OneCall' /\ CallIsTrue'
<1>1. OneCall'
  BY DEF TInv, OneCall, Closings
<1>2. ASSUME NEW c \in completing'
      PROVE  IsTrue(c.status)' /\ (c.status = "ok" /\ c.read => c.usage = frames')
  BY DEF TInv, TraceTypeOK, CallIsTrue, Calls
<1>3. IsTrue(row.status)' /\ (row'.status = "ok" => row'.usage = frames')
  <2>1. CASE row'.status \in Closings
    BY <2>1 DEF TInv, CallIsTrue, Closings
  <2>2. CASE row'.status \notin Closings
    BY <2>2 DEF IsTrue, Closings
  <2> QED BY <2>1, <2>2
<1> QED BY <1>1, <1>2, <1>3 DEF CallIsTrue

LEMMA InitTInv == TraceInit => TInv
<1> SUFFICES ASSUME TraceInit PROVE TInv
  OBVIOUS
<1>1. TraceTypeOK
  <2>1. 0 \in 0..MaxFrames
    BY TraceAssumption
  <2>2. row \in [status : {"none", "pending"} \cup Closings, usage : 0..MaxFrames]
    BY <2>1 DEF TraceInit
  <2> QED BY <2>1, <2>2 DEF TraceInit, TraceTypeOK
<1>2. OneCall /\ Places /\ UsageIsLast /\ CallIsTrue
  BY DEF TraceInit, OneCall, Places, UsageIsLast, CallIsTrue, IsTrue, Closings
<1> QED BY <1>1, <1>2 DEF TInv

-----------------------------------------------------------------------------
(* One lemma per group of actions. *)

LEMMA HandlerPassesStep ==
  ASSUME TInv, Begin \/ Listen \/ \E result \in {"served", "refused"} : Answered(result)
  PROVE  TInv'
<1> USE DEF Begin, Listen, Answered, Passes, response, answer
<1>1. UNCHANGED <<closed, completing, frames, usage, format, left>>
  OBVIOUS
<1>2. ~(pc \in {"ended", "crashed"})
  OBVIOUS
<1>3. \A s \in Closings : IsTrue(s) => IsTrue(s)'
  BY <1>1, <1>2 DEF IsTrue, Closings
<1>4. row'.status \in {row.status, "pending"} /\ row'.usage = row.usage /\ row' \in [status : {"none", "pending"} \cup Closings, usage : 0..MaxFrames]
  BY DEF TInv, TraceTypeOK
<1>5. OneCall' /\ CallIsTrue'
  BY <1>1, <1>3, <1>4, QuietStep
<1>6. TraceTypeOK'
  <2>1. CASE Begin
    BY <1>4, <2>1 DEF TInv, TraceTypeOK
  <2>2. CASE Listen
    BY <1>4, <2>2 DEF TInv, TraceTypeOK
  <2>3. ASSUME NEW result \in {"served", "refused"}, Answered(result) PROVE TraceTypeOK'
    BY <1>4, <2>3 DEF TInv, TraceTypeOK
  <2> QED BY <2>1, <2>2, <2>3
<1>7. Places' /\ UsageIsLast'
  BY DEF TInv, Places, UsageIsLast
<1> QED BY <1>5, <1>6, <1>7 DEF TInv

LEMMA ThrowsStep ==
  ASSUME TInv, NEW from \in {"begin", "key", "routing"}, Throws(from)
  PROVE  TInv'
<1> USE DEF Throws, Passes, response, answer
<1>1. OneCall' /\ completing' \subseteq Calls
  BY CloseKeepsOneCall DEF Closings
<1>2. CallIsTrue'
  <2>1. ~closed => left # "noticed"
    BY DEF TInv, Places
  <2>2. ~closed => IsTrue("error")'
    BY <2>1 DEF IsTrue
  <2>3. \A s \in Closings : IsTrue(s) => IsTrue(s)'
    BY DEF IsTrue, Closings
  <2> QED BY <2>2, <2>3, CloseKeepsTruth DEF Closings
<1>3. closed' = TRUE
  BY CloseCases DEF TInv, TraceTypeOK
<1>4. TraceTypeOK'
  BY <1>1, <1>3 DEF TInv, TraceTypeOK
<1>5. Places' /\ UsageIsLast'
  BY <1>3 DEF TInv, Places, UsageIsLast
<1> QED BY <1>1, <1>2, <1>4, <1>5 DEF TInv

LEMMA CopyStep ==
  ASSUME TInv, Copy
  PROVE  TInv'
<1> USE DEF Copy, ReadSse, ReadJson, response
<1>1. UNCHANGED <<pc, listening, resEnded, cancelled, closed, completing, row, format, left, outcome, lost>> /\ pc = "copying"
  OBVIOUS
<1>2. frames' \in 0..MaxFrames /\ usage' \in 0..MaxFrames /\ carry' \in BOOLEAN
  <2>1. ASSUME NEW whole \in {0, 1}, NEW rest \in BOOLEAN, ReadSse(whole, rest)
        PROVE  frames' \in 0..MaxFrames /\ usage' = frames' /\ carry' = rest
    BY <2>1, TraceAssumption DEF TInv, TraceTypeOK
  <2>2. ASSUME NEW whole \in {0, 1}, ReadJson(whole)
        PROVE  frames' \in 0..MaxFrames /\ usage' = usage /\ carry' = TRUE
    BY <2>2, TraceAssumption DEF TInv, TraceTypeOK
  <2>3. usage \in 0..MaxFrames
    BY DEF TInv, TraceTypeOK
  <2> HIDE DEF ReadSse, ReadJson
  <2> QED BY <2>1, <2>2, <2>3
<1>3. UsageIsLast'
  BY DEF TInv, UsageIsLast
<1>4. OneCall'
  BY <1>1 DEF TInv, OneCall
<1>5. CallIsTrue'
  <2>1. \A c \in completing : c.status # "ok"
    BY <1>1 DEF TInv, CallIsTrue, IsTrue
  <2>2. row.status # "ok"
    BY <1>1 DEF TInv, CallIsTrue, IsTrue
  <2> QED BY <1>1, <2>1, <2>2 DEF TInv, CallIsTrue, IsTrue
<1>6. TraceTypeOK'
  BY <1>1, <1>2 DEF TInv, TraceTypeOK
<1>7. Places'
  BY <1>1 DEF TInv, Places
<1> QED BY <1>3, <1>4, <1>5, <1>6, <1>7 DEF TInv

LEMMA CopyEndsStep ==
  ASSUME TInv, CopyEnds
  PROVE  TInv'
<1> DEFINE s == IF outcome = "served" THEN "ok" ELSE "error"
<1> USE DEF CopyEnds, Passes
<1>1. Close(s) /\ s \in Closings
  BY DEF Closings
<1>2. OneCall' /\ completing' \subseteq Calls
  BY <1>1, CloseKeepsOneCall
<1>3. usage' = frames
  BY DEF TInv, UsageIsLast, TraceTypeOK, ObserveRest
<1>4. CallIsTrue'
  <2>1. ~closed => left # "noticed"
    BY DEF TInv, Places
  <2>2. ~closed => IsTrue(s)'
    BY <1>3, <2>1 DEF TInv, Places, IsTrue
  <2>3. \A q \in Closings : IsTrue(q) => IsTrue(q)'
    BY <1>3 DEF IsTrue, Closings
  <2> QED BY <1>1, <2>2, <2>3, CloseKeepsTruth
<1>5. closed' = TRUE
  BY <1>1, CloseCases DEF TInv, TraceTypeOK
<1>6. TraceTypeOK'
  BY <1>2, <1>3, <1>5 DEF TInv, TraceTypeOK
<1>7. Places' /\ UsageIsLast'
  BY <1>3, <1>5 DEF TInv, Places, UsageIsLast
<1> QED BY <1>2, <1>4, <1>6, <1>7 DEF TInv

LEMMA CopyBreaksStep ==
  ASSUME TInv, CopyBreaks
  PROVE  TInv'
<1> USE DEF CopyBreaks, Passes, answer
<1>1. OneCall' /\ completing' \subseteq Calls
  BY CloseKeepsOneCall DEF Closings
<1>2. CallIsTrue'
  <2>1. ~closed => left # "noticed"
    BY DEF TInv, Places
  <2>2. ~closed => IsTrue("error")'
    BY <2>1 DEF IsTrue
  <2>3. \A s \in Closings : IsTrue(s) => IsTrue(s)'
    BY DEF IsTrue, Closings
  <2> QED BY <2>2, <2>3, CloseKeepsTruth DEF Closings
<1>3. closed' = TRUE
  BY CloseCases DEF TInv, TraceTypeOK
<1>4. TraceTypeOK'
  BY <1>1, <1>3 DEF TInv, TraceTypeOK
<1>5. Places' /\ UsageIsLast'
  BY <1>3 DEF TInv, Places, UsageIsLast
<1> QED BY <1>1, <1>2, <1>4, <1>5 DEF TInv

LEMMA CompleteStep ==
  ASSUME TInv, NEW c \in completing, CompleteReads(c) \/ CompleteWrites(c) \/ CompleteFails(c)
  PROVE  TInv'
<1> USE DEF CompleteReads, CompleteWrites, CompleteFails, response, answer
<1>1. UNCHANGED <<pc, listening, cancelled, closed, usage, carry, format, frames, left, outcome>>
  OBVIOUS
<1>2. completing = {c} /\ closed /\ row.status \notin Closings /\ c \in Calls
  BY DEF TInv, TraceTypeOK, OneCall
<1>3. IsTrue(c.status) /\ c.status \in Closings
  BY DEF TInv, TraceTypeOK, CallIsTrue, Calls
<1>4. Places' /\ UsageIsLast'
  <2>1. resEnded' => resEnded \/ pc = "ended"
    OBVIOUS
  <2> HIDE DEF CompleteReads, CompleteWrites, CompleteFails
  <2> QED BY <1>1, <2>1 DEF TInv, Places, UsageIsLast
<1>5. ASSUME NEW q PROVE IsTrue(q) <=> IsTrue(q)'
  BY <1>1 DEF IsTrue
<1>6. CASE CompleteReads(c)
  <2> DEFINE d == [c EXCEPT !.read = TRUE, !.usage = usage]
  <2>1. completing' = {d} /\ UNCHANGED <<row, resEnded, lost>>
    BY <1>2, <1>6
  <2>2. d \in Calls /\ d.status = c.status /\ d.usage = usage
    BY <1>2 DEF TInv, TraceTypeOK, Calls
  <2>3. TraceTypeOK'
    BY <1>1, <2>1, <2>2 DEF TInv, TraceTypeOK
  <2>4. OneCall'
    BY <1>1, <1>2, <2>1 DEF OneCall
  <2>5. IsTrue(d.status)' /\ (d.status = "ok" => d.usage = frames')
    BY <1>1, <1>3, <1>5, <2>2 DEF IsTrue
  <2>6. IsTrue(row.status)' /\ (row'.status = "ok" => row'.usage = frames')
    BY <1>1, <1>5, <2>1 DEF TInv, CallIsTrue
  <2>7. CallIsTrue'
    BY <2>1, <2>5, <2>6 DEF CallIsTrue
  <2> QED BY <1>4, <2>3, <2>4, <2>7 DEF TInv
<1>7. CASE CompleteWrites(c)
  <2>1. completing' = {} /\ UNCHANGED lost
    BY <1>2, <1>7
  <2>2. row' = row \/ row' = [status |-> c.status, usage |-> c.usage]
    BY <1>7
  <2>3. TraceTypeOK'
    BY <1>1, <1>2, <1>7, <2>1, <2>2 DEF TInv, TraceTypeOK, Calls
  <2>4. OneCall'
    BY <1>1, <1>2, <2>1 DEF OneCall
  <2>5. IsTrue(row.status)' /\ (row'.status = "ok" => row'.usage = frames')
    <3>1. CASE row' = row
      BY <1>1, <1>5, <3>1 DEF TInv, CallIsTrue
    <3>2. CASE row' = [status |-> c.status, usage |-> c.usage]
      <4>1. row'.status = c.status /\ row'.usage = c.usage
        BY <3>2
      <4>2. c.status = "ok" => c.usage = frames
        BY <1>7 DEF TInv, CallIsTrue
      <4> QED BY <1>1, <1>3, <1>5, <4>1, <4>2
    <3> QED BY <2>2, <3>1, <3>2
  <2>6. CallIsTrue'
    BY <2>1, <2>5 DEF CallIsTrue
  <2> QED BY <1>4, <2>3, <2>4, <2>6 DEF TInv
<1>8. CASE CompleteFails(c)
  <2>1. completing' = {} /\ UNCHANGED row
    BY <1>2, <1>8
  <2>2. TraceTypeOK'
    BY <1>1, <1>8, <2>1 DEF TInv, TraceTypeOK
  <2>3. OneCall'
    BY <1>1, <1>2, <2>1 DEF OneCall
  <2>4. IsTrue(row.status)' /\ (row'.status = "ok" => row'.usage = frames')
    BY <1>1, <1>5, <2>1 DEF TInv, CallIsTrue
  <2>5. CallIsTrue'
    BY <2>1, <2>4 DEF CallIsTrue
  <2> QED BY <1>4, <2>2, <2>3, <2>5 DEF TInv
<1> QED BY <1>6, <1>7, <1>8

LEMMA ClientCancelsStep ==
  ASSUME TInv, ClientCancels
  PROVE  TInv'
<1> USE DEF ClientCancels, answer
<1>1. UNCHANGED <<pc, listening, resEnded, row, usage, carry, format, frames, outcome, lost>> /\ pc # "crashed"
  OBVIOUS
<1>2. CASE listening /\ ~resEnded
  <2>1. Close("aborted") /\ "aborted" \in Closings
    BY <1>2 DEF Closings
  <2>2. OneCall' /\ completing' \subseteq Calls
    BY <2>1, <1>1, CloseKeepsOneCall
  <2>3. closed' = TRUE
    BY <2>1, CloseCases DEF TInv, TraceTypeOK
  <2>4. left' = IF pc = "ended" THEN "late" ELSE "noticed"
    BY <1>2
  <2>5. pc # "ended" => ~closed /\ pc \in {"routing", "copying"}
    BY <1>1, <1>2 DEF TInv, TraceTypeOK, Places, ClientCancels
  <2>6. CallIsTrue'
    <3>1. ~closed => IsTrue("aborted")'
      BY <2>4 DEF TInv, Places, IsTrue
    <3>2. CASE pc = "ended"
      <4>1. \A q \in Closings : IsTrue(q) => IsTrue(q)'
        BY <1>1, <2>4, <3>2 DEF IsTrue, ClientCancels
      <4> QED BY <1>1, <2>1, <3>1, <4>1, CloseKeepsTruth
    <3>3. CASE pc # "ended"
      <4>1. completing' = {NewCall("aborted")} /\ row'.status \notin Closings
        BY <1>1, <2>1, <2>5, <3>3, CloseCases DEF TInv, TraceTypeOK, OneCall
      <4>2. IsTrue("aborted")'
        BY <2>5, <3>1, <3>3
      <4>3. IsTrue(row.status)' /\ row'.status # "ok"
        BY <4>1 DEF IsTrue, Closings
      <4> QED BY <4>1, <4>2, <4>3 DEF CallIsTrue, NewCall
    <3> QED BY <3>2, <3>3
  <2>7. TraceTypeOK'
    BY <1>1, <2>2, <2>3, <2>4 DEF TInv, TraceTypeOK
  <2>8. Places' /\ UsageIsLast'
    BY <1>1, <1>2, <2>3, <2>4, <2>5 DEF TInv, Places, UsageIsLast
  <2> QED BY <2>2, <2>6, <2>7, <2>8 DEF TInv
<1>3. CASE ~(listening /\ ~resEnded)
  <2>1. UNCHANGED <<closed, completing>>
    BY <1>3
  <2>2. left' \in {"early", "late"} /\ left = "no"
    BY <1>1, <1>3 DEF TInv, Places
  <2>3. \A q \in Closings : IsTrue(q) => IsTrue(q)'
    BY <1>1, <2>2 DEF IsTrue, Closings
  <2>4. OneCall' /\ CallIsTrue'
    BY <1>1, <2>1, <2>3, QuietStep
  <2>5. TraceTypeOK'
    BY <1>1, <2>1, <2>2 DEF TInv, TraceTypeOK
  <2>6. Places' /\ UsageIsLast'
    BY <1>1, <2>1, <2>2 DEF TInv, Places, UsageIsLast
  <2> QED BY <2>4, <2>5, <2>6 DEF TInv
<1> QED BY <1>2, <1>3

LEMMA CrashStep ==
  ASSUME TInv, Crash
  PROVE  TInv'
<1> USE DEF Crash, response, answer
<1>1. \A q \in Closings : IsTrue(q) => IsTrue(q)'
  BY DEF IsTrue, Closings
<1>2. OneCall' /\ CallIsTrue'
  BY <1>1, QuietStep
<1>3. TraceTypeOK'
  BY DEF TInv, TraceTypeOK
<1>4. Places' /\ UsageIsLast'
  BY DEF TInv, Places, UsageIsLast
<1> QED BY <1>2, <1>3, <1>4 DEF TInv

LEMMA StutterStep ==
  ASSUME TInv, UNCHANGED traceVars
  PROVE  TInv'
<1> USE DEF traceVars, response, answer
<1>1. TraceTypeOK' /\ OneCall' /\ Places' /\ UsageIsLast'
  BY DEF TInv, TraceTypeOK, OneCall, Places, UsageIsLast
<1>2. \A q : IsTrue(q) <=> IsTrue(q)'
  BY DEF IsTrue
<1>3. CallIsTrue'
  BY <1>2 DEF TInv, CallIsTrue
<1> QED BY <1>1, <1>3 DEF TInv

LEMMA NextIInv == TInv /\ [TraceNext]_traceVars => TInv'
<1> SUFFICES ASSUME TInv, [TraceNext]_traceVars PROVE TInv'
  OBVIOUS
<1>1. CASE Handler
  BY <1>1, HandlerPassesStep, ThrowsStep, CopyEndsStep, CopyBreaksStep DEF Handler
<1>2. CASE Copy
  BY <1>2, CopyStep
<1>3. CASE Complete
  BY <1>3, CompleteStep DEF Complete
<1>4. CASE ClientCancels \/ Crash
  BY <1>4, ClientCancelsStep, CrashStep
<1>5. CASE UNCHANGED traceVars
  BY <1>5, StutterStep
<1> QED BY <1>1, <1>2, <1>3, <1>4, <1>5 DEF TraceNext

THEOREM SpecTInv == TraceSpec => []TInv
<1>1. TraceInit => TInv
  BY InitTInv
<1>2. TInv /\ [TraceNext]_traceVars => TInv'
  BY NextIInv
<1> QED BY <1>1, <1>2, PTL DEF TraceSpec

-----------------------------------------------------------------------------
(* Type correctness. *)
THEOREM SpecTraceTypeOK == TraceSpec => []TraceTypeOK
<1>1. TInv => TraceTypeOK
  BY DEF TInv
<1> QED BY <1>1, SpecTInv, PTL

(* The row says how the request ended, and an ok row has the last usage.   *)
THEOREM SpecRowIsTrue == TraceSpec => []RowIsTrue
<1>1. TInv => RowIsTrue
  BY DEF TInv, CallIsTrue, IsTrue, RowIsTrue
<1> QED BY <1>1, SpecTInv, PTL

(* A closed row never changes again: there is no call left that could.     *)
THEOREM SpecClosedOnce == TraceSpec => ClosedOnce
<1>1. ASSUME TInv, [TraceNext]_traceVars, row.status \in Closings
      PROVE  row' = row
  <2>1. completing = {} /\ row.status \notin {"none", "pending"}
    BY <1>1 DEF TInv, OneCall, Closings
  <2>2. CASE Handler
    <3>1. ASSUME Begin PROVE FALSE
      BY <1>1, <3>1 DEF TInv, OneCall, Places, Begin, Passes
    <3> QED BY <2>2, <3>1 DEF Handler, Listen, Throws, Answered, CopyEnds, CopyBreaks
  <2>3. CASE Copy
    BY <2>3 DEF Copy
  <2>4. CASE Complete
    BY <2>1, <2>4 DEF Complete
  <2>5. CASE ClientCancels \/ Crash
    BY <2>5 DEF ClientCancels, Crash
  <2>6. CASE UNCHANGED traceVars
    BY <2>6 DEF traceVars
  <2> QED BY <1>1, <2>2, <2>3, <2>4, <2>5, <2>6 DEF TraceNext
<1>2. TInv /\ [TraceNext]_traceVars => [row.status \in Closings => row' = row]_traceVars
  BY <1>1
<1> QED BY <1>2, SpecTInv, PTL DEF ClosedOnce, TraceSpec

=============================================================================
