----------------------------- MODULE PromptTrace -----------------------------
(***************************************************************************)
(* The trace of a prompt: a row that is opened before the prompt goes to   *)
(* the router and closed when its answer is over, and the bridge that      *)
(* copies the answer to the client while a collector reads along:          *)
(*   backend/api/index.js          the /chat and the gateway handlers      *)
(*   backend/services/trace.js     begin, observe..., complete             *)
(*   backend/services/gateway.js   sendWebResponse, routeChat              *)
(*                                                                         *)
(* One request; every request has its own collector, flag and row.  The    *)
(* handler, the client and the completion, which awaits the store and the  *)
(* prices, interleave.  Of a frame of the answer only the usage it carries *)
(* is kept, as its number: the last one counts.                            *)
(***************************************************************************)
EXTENDS Integers

CONSTANTS MaxFrames   \* bound on the frames of an answer

ASSUME TraceAssumption == MaxFrames \in Nat \ {0}

VARIABLES
  pc,          \* of the handler: "begin", "key", "routing", "copying", "ended", "crashed"
  listening,   \* the handler's close listener is on the response
  resEnded,    \* writableEnded
  closed,
  completing,  \* the calls of trace.complete in progress
  row,         \* the prompt's row in optiai_traces
  usage,       \* of the collector
  carry,       \* the collector holds a partial line
  format,      \* of the answer: "sse" or "json"
  frames,      \* external: complete frames of the answer that have been read
  cancelled,   \* the reader of the answer
  (* history *)
  left,        \* when the client left: "no", "early", "noticed", "late"
  outcome,     \* of the answer: "none", "served", "refused", "threw"
  lost         \* a statement on the row failed

answer == <<usage, carry, format, frames>>
response == <<listening, resEnded, cancelled>>
traceVars == <<pc, response, closed, completing, row, answer, left, outcome, lost>>

Closings == {"ok", "error", "aborted"}

(* A call of complete: its arguments and what it has read of the collector. *)
Calls == [status : Closings, read : BOOLEAN, usage : 0..MaxFrames]

TraceTypeOK ==
  /\ pc \in {"begin", "key", "routing", "copying", "ended", "crashed"}
  /\ listening \in BOOLEAN /\ resEnded \in BOOLEAN /\ cancelled \in BOOLEAN
  /\ closed \in BOOLEAN
  /\ completing \subseteq Calls
  /\ row \in [status : {"none", "pending"} \cup Closings, usage : 0..MaxFrames]
  /\ usage \in 0..MaxFrames /\ frames \in 0..MaxFrames
  /\ carry \in BOOLEAN /\ format \in {"sse", "json"}
  /\ left \in {"no", "early", "noticed", "late"}
  /\ outcome \in {"none", "served", "refused", "threw"}
  /\ lost \in BOOLEAN

TraceInit ==
  /\ pc = "begin"
  /\ listening = FALSE /\ resEnded = FALSE /\ cancelled = FALSE
  /\ closed = FALSE /\ completing = {}
  /\ row = [status |-> "none", usage |-> 0]
  /\ usage = 0 /\ frames = 0 /\ carry = FALSE /\ format \in {"sse", "json"}
  /\ left = "no" /\ outcome = "none" /\ lost = FALSE

Passes(from, to) == pc = from /\ pc' = to

-----------------------------------------------------------------------------
(* Mutant: the flag is set when the row has been closed. *)
CloseLate(status) ==
  /\ completing' = IF row.status \in Closings THEN completing
                   ELSE completing \cup {[status |-> status, read |-> FALSE, usage |-> 0]}
  /\ UNCHANGED closed

(* close: once, whichever way the request ends. *)
Close(status) ==
  /\ closed' = TRUE
  /\ completing' = IF closed THEN completing
                   ELSE completing \cup {[status |-> status, read |-> FALSE, usage |-> 0]}

-----------------------------------------------------------------------------
(* The handler, from one await to the next *)

(* trace.begin inserts the row. *)
Begin ==
  /\ Passes("begin", "key")
  /\ row' = [row EXCEPT !.status = "pending"]
  /\ UNCHANGED <<response, closed, completing, answer, left, outcome, lost>>

(* The store or the insertion fails, or the key of the local user does:    *)
(* the request ends with an error that is not sent yet.                    *)
Throws(from) ==
  /\ Passes(from, "ended")
  /\ outcome' = "threw"
  /\ Close("error")
  /\ UNCHANGED <<response, row, answer, left, lost>>

(* A request with a key of its own does not wait here. *)
Listen ==
  /\ Passes("key", "routing")
  /\ listening' = TRUE
  /\ UNCHANGED <<resEnded, cancelled, closed, completing, row, answer, left, outcome, lost>>

(* handleChat has an answer; a status of 400 or more is still copied. *)
Answered(result) ==
  /\ Passes("routing", "copying")
  /\ outcome' = result
  /\ UNCHANGED <<response, closed, completing, row, answer, left, lost>>

-----------------------------------------------------------------------------
(* sendWebResponse *)

(* Mutant: a frame split between two chunks is not put together. *)
ReadSseSplit(whole, rest) ==
  /\ format = "sse" /\ frames + whole <= MaxFrames /\ (whole = 1 \/ rest)
  /\ frames' = frames + whole
  /\ usage' = IF whole = 1 /\ ~carry THEN frames' ELSE usage
  /\ carry' = rest

(* observeSseText: a chunk completes a frame or not, and may end in the    *)
(* middle of the next one.                                                 *)
ReadSse(whole, rest) ==
  /\ format = "sse" /\ frames + whole <= MaxFrames /\ (whole = 1 \/ rest)
  /\ frames' = frames + whole
  /\ usage' = frames'
  /\ carry' = rest

(* A body of JSON has no line; the collector holds all of it to the end. *)
ReadJson(whole) ==
  /\ format = "json" /\ frames + whole <= 1
  /\ frames' = frames + whole
  /\ carry' = TRUE
  /\ UNCHANGED usage

Copy ==
  /\ pc = "copying" /\ ~cancelled
  /\ (\E whole \in {0, 1}, rest \in BOOLEAN : ReadSse(whole, rest)) \/ (\E whole \in {0, 1} : ReadJson(whole))
  /\ UNCHANGED <<pc, response, closed, completing, row, format, left, outcome, lost>>

(* onText at the end: only a whole body of JSON parses. *)
ObserveRest == IF format = "json" THEN frames ELSE usage

CopyEnds ==
  /\ Passes("copying", "ended")
  /\ usage' = ObserveRest
  /\ resEnded' = TRUE
  /\ Close(IF outcome = "served" THEN "ok" ELSE "error")
  /\ UNCHANGED <<listening, cancelled, row, carry, format, frames, left, outcome, lost>>

(* Mutant: a failing read does not close the row. *)
CopyBreaksOpen ==
  /\ Passes("copying", "ended") /\ ~cancelled
  /\ outcome' = "threw"
  /\ resEnded' = TRUE
  /\ UNCHANGED <<listening, cancelled, closed, completing, row, answer, left, lost>>

(* A read fails: the error is appended to the answer. *)
CopyBreaks ==
  /\ Passes("copying", "ended") /\ ~cancelled
  /\ outcome' = "threw"
  /\ resEnded' = TRUE
  /\ Close("error")
  /\ UNCHANGED <<listening, cancelled, row, answer, left, lost>>

-----------------------------------------------------------------------------
(* trace.complete, started by close *)

(* The store is there: the collector is read, then the price is awaited. *)
CompleteReads(c) ==
  /\ pc # "crashed" /\ c \in completing /\ ~c.read
  /\ completing' = (completing \ {c}) \cup {[c EXCEPT !.read = TRUE, !.usage = usage]}
  /\ UNCHANGED <<pc, response, closed, row, answer, left, outcome, lost>>

(* The update, of no row if none was inserted.  It ends the 500 answer of  *)
(* a handler that threw.                                                   *)
CompleteWrites(c) ==
  /\ pc # "crashed" /\ c \in completing /\ c.read
  /\ completing' = completing \ {c}
  /\ row' = IF row.status = "none" THEN row ELSE [status |-> c.status, usage |-> c.usage]
  /\ resEnded' = (resEnded \/ pc = "ended")
  /\ UNCHANGED <<pc, listening, cancelled, closed, answer, left, outcome, lost>>

CompleteFails(c) ==
  /\ pc # "crashed" /\ c \in completing
  /\ completing' = completing \ {c}
  /\ lost' = TRUE
  /\ resEnded' = (resEnded \/ pc = "ended")
  /\ UNCHANGED <<pc, listening, cancelled, closed, row, answer, left, outcome>>

-----------------------------------------------------------------------------
(* The client is gone.  Only a listener that is on the response by then    *)
(* hears of it, and only while copying is there one to cancel the reader.  *)
ClientCancels ==
  /\ left = "no" /\ pc # "crashed"
  /\ left' = IF ~listening THEN "early" ELSE IF pc = "ended" THEN "late" ELSE "noticed"
  /\ cancelled' = (cancelled \/ pc = "copying")
  /\ IF listening /\ ~resEnded THEN Close("aborted") ELSE UNCHANGED <<closed, completing>>
  /\ UNCHANGED <<pc, listening, resEnded, row, answer, outcome, lost>>

Crash ==
  /\ pc # "crashed"
  /\ pc' = "crashed"
  /\ UNCHANGED <<response, closed, completing, row, answer, left, outcome, lost>>

Handler ==
  \/ Begin \/ Listen
  \/ \E from \in {"begin", "key", "routing"} : Throws(from)
  \/ \E result \in {"served", "refused"} : Answered(result)
  \/ CopyEnds \/ CopyBreaks

Complete == \E c \in completing : CompleteReads(c) \/ CompleteWrites(c) \/ CompleteFails(c)

TraceNext == Handler \/ Copy \/ Complete \/ ClientCancels \/ Crash

(* The handler's awaits and the completion's settle; that an answer ends   *)
(* is what StreamLifecycle shows of it.                                    *)
TraceFairness == WF_traceVars(Handler) /\ WF_traceVars(Complete)

TraceSpec == TraceInit /\ [][TraceNext]_traceVars /\ TraceFairness

-----------------------------------------------------------------------------
(* A row is closed once: the client that leaves and the end of the answer  *)
(* race for it, and the slower one changes nothing.                        *)
ClosedOnce == [][row.status \in Closings => row' = row]_traceVars

(* The row says how the request ended: aborted if the client was seen to   *)
(* leave, ok if the answer was copied to its end, else error.  An ok row   *)
(* has the usage of the last frame that was read.                          *)
RowIsTrue ==
  /\ row.status = "aborted" => left = "noticed"
  /\ row.status = "ok" => left # "noticed" /\ outcome = "served" /\ row.usage = frames
  /\ row.status = "error" => left # "noticed" /\ outcome \in {"refused", "threw"}

(* A prompt that has a row gets it closed, unless the process stops or the *)
(* statement fails: no row is left pending by a way out of the handler.    *)
EveryRowIsClosed == row.status = "pending" ~> row.status \in Closings \/ lost \/ pc = "crashed"

=============================================================================
