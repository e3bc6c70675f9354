--------------------------- MODULE StreamLifecycle ---------------------------
(***************************************************************************)
(* The end of a request: requests for one model on one account, each with  *)
(* its stream controller and stall watchdog, and the pending counter they  *)
(* share:                                                                  *)
(*   open-sse/utils/streamHandler.js     createStreamController,           *)
(*                                       pipeWithDisconnect                *)
(*   open-sse/utils/stream.js            finalizeStream, flush             *)
(*   open-sse/handlers/chatCore.js       start and failures of a request   *)
(*   src/lib/db/repos/usageRepo.js       trackPendingRequest               *)
(*                                                                         *)
(* A stream can be ended by its upstream, by an error, by the watchdog and *)
(* by the client; each of them must release the counter, and only the      *)
(* first may.  The chunks of an answer and their translation are not       *)
(* modelled.  A client that leaves before the stream is open is not        *)
(* noticed by this code.                                                   *)
(***************************************************************************)
EXTENDS Integers, FiniteSets

CONSTANTS
  Requests,
  StallTimeout,    \* STREAM_STALL_TIMEOUT_MS in ticks
  PendingTimeout,  \* PENDING_TIMEOUT_MS in ticks
  AbortDelay,      \* the 500 ms of handleDisconnect in ticks
  MaxChunks        \* bound on the chunks an upstream sends before it ends or goes silent

ASSUME StreamAssumption ==
  /\ IsFiniteSet(Requests)
  /\ StallTimeout \in Nat \ {0} /\ PendingTimeout \in Nat \ {0}
  /\ AbortDelay \in Nat \ {0} /\ MaxChunks \in Nat

Off == -1   \* a timer that is not set

VARIABLES
  phase,         \* "new", "executing", "streaming", "failing" (its next read rejects), "ended"
  chunks,        \* external: chunks the upstream has sent
  disconnected,  \* of the stream controller
  aborted,       \* the controller's signal, which aborts the upstream fetch
  abortIn,       \* abortTimeout
  stallIn,       \* stallTimer of pipeWithDisconnect
  finalized,     \* of the SSE transform
  pending,       \* pendingRequests of the account and model
  pendingIn,     \* pendingTimers of the account and model
  (* history *)
  released,      \* times the request has decremented the counter
  saved          \* times the usage of the request has been saved

controller == <<disconnected, aborted, abortIn>>
counter == <<pending, pendingIn, released>>
vars == <<phase, chunks, controller, stallIn, finalized, counter, saved>>

TypeOK ==
  /\ phase \in [Requests -> {"new", "executing", "streaming", "failing", "ended"}]
  /\ chunks \in [Requests -> 0..MaxChunks]
  /\ disconnected \in [Requests -> BOOLEAN]
  /\ aborted \in [Requests -> BOOLEAN]
  /\ abortIn \in [Requests -> Off..AbortDelay]
  /\ stallIn \in [Requests -> Off..StallTimeout]
  /\ finalized \in [Requests -> BOOLEAN]
  /\ pending \in Nat
  /\ pendingIn \in Off..PendingTimeout
  /\ released \in [Requests -> Nat]
  /\ saved \in [Requests -> Nat]

Init ==
  /\ phase = [r \in Requests |-> "new"]
  /\ chunks = [r \in Requests |-> 0]
  /\ disconnected = [r \in Requests |-> FALSE]
  /\ aborted = [r \in Requests |-> FALSE]
  /\ abortIn = [r \in Requests |-> Off]
  /\ stallIn = [r \in Requests |-> Off]
  /\ finalized = [r \in Requests |-> FALSE]
  /\ pending = 0 /\ pendingIn = Off
  /\ released = [r \in Requests |-> 0]
  /\ saved = [r \in Requests |-> 0]

Moves(r, from, to) == phase[r] \in from /\ phase' = [phase EXCEPT ![r] = to]

-----------------------------------------------------------------------------
(* trackPendingRequest *)
TrackStart ==
  /\ pending' = pending + 1
  /\ pendingIn' = PendingTimeout
  /\ UNCHANGED released

TrackEnd(r) ==
  /\ pending' = IF pending > 0 THEN pending - 1 ELSE 0
  /\ pendingIn' = Off
  /\ released' = [released EXCEPT ![r] = @ + 1]

(* The counter's timer: 60 s after the last start, unless a request has    *)
(* ended since.                                                            *)
PendingExpires ==
  /\ pendingIn = 0
  /\ pending' = 0 /\ pendingIn' = Off
  /\ UNCHANGED <<phase, chunks, controller, stallIn, finalized, released, saved>>

-----------------------------------------------------------------------------
(* The stream controller *)

(* Mutant: an error is handled although the stream has ended already. *)
HandleErrorAlways(r) ==
  /\ disconnected' = [disconnected EXCEPT ![r] = TRUE]
  /\ abortIn' = [abortIn EXCEPT ![r] = Off]
  /\ TrackEnd(r)

(* Mutant: an error does not release the counter. *)
HandleErrorSilent(r) ==
  /\ disconnected' = [disconnected EXCEPT ![r] = TRUE]
  /\ abortIn' = [abortIn EXCEPT ![r] = IF disconnected[r] THEN @ ELSE Off]
  /\ UNCHANGED counter

(* handleError with onError; an AbortError, which has none, only follows   *)
(* an abort and so finds the controller disconnected.                      *)
HandleError(r) ==
  IF disconnected[r] THEN UNCHANGED <<disconnected, abortIn, counter>>
  ELSE /\ disconnected' = [disconnected EXCEPT ![r] = TRUE]
       /\ abortIn' = [abortIn EXCEPT ![r] = Off]
       /\ TrackEnd(r)

HandleDisconnect(r) ==
  IF disconnected[r] THEN UNCHANGED <<disconnected, abortIn, counter>>
  ELSE /\ disconnected' = [disconnected EXCEPT ![r] = TRUE]
       /\ abortIn' = [abortIn EXCEPT ![r] = AbortDelay]
       /\ TrackEnd(r)

(* handleComplete, which leaves the counter to trackDone and to flush. *)
HandleComplete(r) ==
  /\ disconnected' = [disconnected EXCEPT ![r] = TRUE]
  /\ abortIn' = [abortIn EXCEPT ![r] = IF disconnected[r] THEN @ ELSE Off]

AbortFires(r) ==
  /\ abortIn[r] = 0
  /\ aborted' = [aborted EXCEPT ![r] = TRUE]
  /\ abortIn' = [abortIn EXCEPT ![r] = Off]
  /\ UNCHANGED <<phase, chunks, disconnected, stallIn, finalized, counter, saved>>

-----------------------------------------------------------------------------
(* chatCore, until the answer of the provider *)

(* The request cannot be translated: the counter is decremented, although  *)
(* it has not been incremented for this request.                           *)
TranslationFails(r) ==
  /\ Moves(r, {"new"}, "ended")
  /\ TrackEnd(r)
  /\ UNCHANGED <<chunks, controller, stallIn, finalized, saved>>

Start(r) ==
  /\ Moves(r, {"new"}, "executing")
  /\ TrackStart
  /\ UNCHANGED <<chunks, controller, stallIn, finalized, saved>>

(* execute throws, or the provider answers with an error status. *)
ProviderFails(r) ==
  /\ Moves(r, {"executing"}, "ended")
  /\ TrackEnd(r)
  /\ UNCHANGED <<chunks, controller, stallIn, finalized, saved>>

(* An answer that is not a stream for the client: trackDone, the body is   *)
(* read and its usage saved unless it is unreadable, handleComplete.       *)
AnswersAtOnce(r) ==
  /\ Moves(r, {"executing"}, "ended")
  /\ TrackEnd(r)
  /\ HandleComplete(r)
  /\ saved' = [saved EXCEPT ![r] = @ + 1] \/ UNCHANGED saved
  /\ UNCHANGED <<chunks, aborted, stallIn, finalized>>

(* The answer to a streaming request is a page of HTML. *)
AnswersWithPage(r) ==
  /\ Moves(r, {"executing"}, "ended")
  /\ HandleError(r)
  /\ UNCHANGED <<chunks, aborted, stallIn, finalized, saved>>

OpenStream(r) ==
  /\ Moves(r, {"executing"}, "streaming")
  /\ stallIn' = [stallIn EXCEPT ![r] = StallTimeout]
  /\ UNCHANGED <<chunks, controller, finalized, counter, saved>>

-----------------------------------------------------------------------------
(* The stream *)

(* finalizeStream *)
Finalize(r) ==
  /\ finalized' = [finalized EXCEPT ![r] = TRUE]
  /\ saved' = [saved EXCEPT ![r] = IF finalized[r] THEN @ ELSE @ + 1]

(* A chunk re-arms the watchdog; the terminal event of the Responses API   *)
(* finalizes the stream before its end.                                    *)
Chunk(r) ==
  /\ phase[r] = "streaming" /\ chunks[r] < MaxChunks
  /\ chunks' = [chunks EXCEPT ![r] = @ + 1]
  /\ stallIn' = [stallIn EXCEPT ![r] = StallTimeout]
  /\ Finalize(r) \/ UNCHANGED <<finalized, saved>>
  /\ UNCHANGED <<phase, controller, counter>>

(* The upstream closes: the tap clears the watchdog, flush decrements the  *)
(* counter and finalizes, the reader finds the end.  Only settled promises *)
(* are awaited in between.                                                 *)
UpstreamEnds(r) ==
  /\ Moves(r, {"streaming"}, "ended")
  /\ stallIn' = [stallIn EXCEPT ![r] = Off]
  /\ TrackEnd(r)
  /\ Finalize(r)
  /\ HandleComplete(r)
  /\ UNCHANGED <<chunks, aborted>>

UpstreamBreaks(r) ==
  /\ Moves(r, {"streaming"}, "failing")
  /\ UNCHANGED <<chunks, controller, stallIn, finalized, counter, saved>>

(* Mutant: the watchdog logs the stall and waits. *)
StallLogged(r) ==
  /\ phase[r] \in {"streaming", "failing"} /\ stallIn[r] = 0
  /\ stallIn' = [stallIn EXCEPT ![r] = Off]
  /\ UNCHANGED <<phase, chunks, controller, finalized, counter, saved>>

(* The watchdog calls the controller itself, then aborts the fetch, which  *)
(* makes the next read reject.                                             *)
StallFires(r) ==
  /\ phase[r] \in {"streaming", "failing"} /\ stallIn[r] = 0
  /\ phase' = [phase EXCEPT ![r] = "failing"]
  /\ stallIn' = [stallIn EXCEPT ![r] = Off]
  /\ HandleError(r)
  /\ aborted' = [aborted EXCEPT ![r] = TRUE]
  /\ UNCHANGED <<chunks, finalized, saved>>

(* pull finds the controller disconnected, or its read rejects. *)
ReadRejects(r) ==
  /\ Moves(r, {"failing"}, "ended")
  /\ stallIn' = [stallIn EXCEPT ![r] = Off]
  /\ HandleError(r)
  /\ UNCHANGED <<chunks, aborted, finalized, saved>>

(* cancel: the pipe is cancelled with its reader, so flush does not run. *)
ClientLeaves(r) ==
  /\ Moves(r, {"streaming", "failing"}, "ended")
  /\ stallIn' = [stallIn EXCEPT ![r] = Off]
  /\ HandleDisconnect(r)
  /\ UNCHANGED <<chunks, aborted, finalized, saved>>

-----------------------------------------------------------------------------
Down(n) == IF n > 0 THEN n - 1 ELSE n

Tick ==
  /\ abortIn' = [r \in Requests |-> Down(abortIn[r])]
  /\ stallIn' = [r \in Requests |-> Down(stallIn[r])]
  /\ pendingIn' = Down(pendingIn)
  /\ UNCHANGED <<phase, chunks, disconnected, aborted, finalized, pending, released, saved>>

Provider(r) == ProviderFails(r) \/ AnswersAtOnce(r) \/ AnswersWithPage(r) \/ OpenStream(r)

Next ==
  \/ \E r \in Requests :
       \/ TranslationFails(r) \/ Start(r) \/ Provider(r)
       \/ Chunk(r) \/ UpstreamEnds(r) \/ UpstreamBreaks(r)
       \/ StallFires(r) \/ ReadRejects(r) \/ ClientLeaves(r) \/ AbortFires(r)
  \/ PendingExpires
  \/ Tick

(* A call gets an answer or times out, timers run and the clock advances.  *)
(* An open stream need not end: the upstream may go silent, the client     *)
(* stay.                                                                   *)
Fairness ==
  /\ \A r \in Requests :
       WF_vars(Provider(r)) /\ WF_vars(StallFires(r)) /\ WF_vars(ReadRejects(r)) /\ WF_vars(AbortFires(r))
  /\ WF_vars(PendingExpires)
  /\ WF_vars(Tick)

Spec == Init /\ [][Next]_vars /\ Fairness

-----------------------------------------------------------------------------
Live == {r \in Requests : phase[r] \in {"executing", "streaming", "failing"}}

(* However its end comes about, and however many ends race, a request      *)
(* decrements the pending counter at most once, and has when it is over.   *)
ReleasedOnce ==
  \A r \in Requests : /\ released[r] <= 1
                      /\ phase[r] = "ended" => released[r] = 1

(* The dashboard never shows a pending request that is over.               *)
PendingIsLive == pending <= Cardinality(Live)

(* The watchdog is disarmed when the request ends: no stale abort.         *)
NoStaleAbort == \A r \in Requests : phase[r] = "ended" => stallIn[r] = Off

(* Usage is saved at most once, and was if the stream was read to its end. *)
UsageSavedOnce ==
  \A r \in Requests : /\ saved[r] <= 1
                      /\ finalized[r] => saved[r] = 1

(* Every request ends, also if the upstream falls silent without closing.  *)
EveryRequestEnds == \A r \in Requests : phase[r] = "executing" ~> phase[r] = "ended"

=============================================================================
