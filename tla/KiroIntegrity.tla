---------------------------- MODULE KiroIntegrity ----------------------------
(***************************************************************************)
(* The integrity gate of the Kiro executor: the client gets nothing of an  *)
(* answer before the whole of it has been read and judged, and a damaged   *)
(* answer is asked for once more:                                          *)
(*   open-sse/executors/kiro.js   attachIntegrityGate,                     *)
(*                                runIntegrityRecovery,                    *)
(*                                readIntegrityAttempt,                    *)
(*                                transformEventStreamToSSE                *)
(*                                                                         *)
(* One request, at most two attempts.  Kiro sends events: pieces of text,  *)
(* of reasoning and of tool calls, and stop reasons, of which there may be *)
(* several in any order.  A piece of text is "real" (it holds a result),   *)
(* "dots" (an ellipsis) or "intent" (it only announces what will be done); *)
(* the patterns that tell them apart, usage numbers, heartbeats and the    *)
(* bytes of a frame are left out.  The call itself, with its hosts and     *)
(* retries (BaseExecutor.execute), answers or is refused.                  *)
(***************************************************************************)
EXTENDS Integers, Sequences

CONSTANTS
  Tools,      \* toolUseIds
  MaxEvents   \* bound on the events of an attempt; in the code, on its bytes

ASSUME KiroAssumption == MaxEvents \in Nat

VARIABLES
  repair,     \* repairEnabled
  phase,      \* "reading", "judged", "retrying", "answered", "failed", "aborted"
  attempt,    \* 1 or 2
  verdict,    \* kind of the attempt, once it is judged
  finish,     \* finish_reason of the answer released to the client
  heard,      \* external: events Kiro has sent
  (* the state of transformEventStreamToSSE *)
  text,       \* visible text, kind by kind
  reasoning,
  hidden,     \* inThinking
  emitted,    \* chunkIndex > 0
  tools,      \* the input buffered for each tool call
  sawTool,    \* sawToolUse
  toolError,  \* toolValidationError is set
  stop,       \* stopReason
  (* history *)
  reasons,    \* every stop reason of the attempt
  eof         \* the attempt ended without a fault of the transport

gate == <<repair, attempt, verdict, finish>>
said == <<text, reasoning, hidden, emitted>>
calls == <<tools, sawTool, toolError>>
stops == <<stop, reasons>>
vars == <<gate, phase, heard, said, calls, stops, eof>>

-----------------------------------------------------------------------------
(* Stop reasons, after normalizeStopReason.  "pause_turn" goes with        *)
(* "cancelled", and every name of a content filter with "refusal".         *)

Truncations == {"max_tokens", "context_window_exceeded"}
StopReasons == {"end_turn", "tool_use", "cancelled", "refusal", "malformed", "other"} \cup Truncations

(* stopDisposition *)
Disposition(reason, hasCalls) ==
  CASE reason = "malformed" -> "retryable"
    [] reason \in {"cancelled", "context_window_exceeded"} -> "incomplete"
    [] reason = "refusal" -> "refused"
    [] reason = "max_tokens" -> IF hasCalls THEN "incomplete" ELSE "length"
    [] reason = "other" -> "unknown"
    [] reason = "tool_use" -> "tool_use"
    [] OTHER -> IF hasCalls THEN "tool_use" ELSE "complete"

Severity(reason) ==
  CASE reason = "refusal" -> 6
    [] reason \in {"cancelled", "context_window_exceeded"} -> 5
    [] reason = "other" -> 4
    [] reason = "malformed" -> 3
    [] reason = "max_tokens" -> 2
    [] OTHER -> 1

(* Mutant: the last stop reason wins. *)
MergeLast(current, incoming) == incoming

(* mergeStopReason *)
Merge(current, incoming) ==
  IF current = "none" \/ Severity(incoming) > Severity(current) THEN incoming ELSE current

-----------------------------------------------------------------------------
(* The input buffered for a tool call.  A string arrives in two pieces,    *)
(* "half" and "rest", and parses if these two, in order, are all of it.    *)
(* "hollow" is the object of a wrapper without the call it should wrap.    *)

Buffered == {"absent", "bare", "half", "whole", "broken", "object", "hollow"}
Strings == {"half", "whole", "broken"}
Objects == {"object", "hollow"}
Usable == {"whole", "object"}
Pieces == {"bare", "half", "rest", "object", "hollow", "odd", "nameless"}

(* toolUseEvent throws: no name, another name than before, input that is   *)
(* neither string nor object, or not of the kind it has been.              *)
Throws(have, piece) ==
  \/ piece \in {"odd", "nameless"}
  \/ piece \in {"half", "rest"} /\ have \in Objects
  \/ piece \in Objects /\ have \in Strings

(* appendToolInput *)
AppendPiece(have, piece) ==
  CASE piece = "half" -> IF have \in {"absent", "bare"} THEN "half" ELSE "broken"
    [] piece = "rest" -> IF have = "half" THEN "whole" ELSE "broken"
    [] piece \in Objects -> piece
    [] OTHER -> IF have = "absent" THEN "bare" ELSE have

Calls == {t \in Tools : tools[t] \in Usable}
Dropped == {t \in Tools : tools[t] \notin Usable \cup {"absent"}}

-----------------------------------------------------------------------------
TypeOK ==
  /\ repair \in BOOLEAN
  /\ phase \in {"reading", "judged", "retrying", "answered", "failed", "aborted"}
  /\ attempt \in {1, 2}
  /\ verdict \in {"none", "complete", "terminal_stop", "upstream_error", "invalid_tool",
                  "retryable_stop", "missing_terminal", "ellipsis", "short_final"}
  /\ finish \in {"none", "stop", "length", "tool_calls"}
  /\ heard \in 0..MaxEvents
  /\ text \in Seq({"real", "dots", "intent"}) /\ reasoning \in Seq({"real", "dots"})
  /\ hidden \in BOOLEAN /\ emitted \in BOOLEAN
  /\ tools \in [Tools -> Buffered] /\ sawTool \in BOOLEAN /\ toolError \in BOOLEAN
  /\ stop \in StopReasons \cup {"none"} /\ reasons \subseteq StopReasons
  /\ eof \in BOOLEAN

(* transformEventStreamToSSE starts with nothing read. *)
NoCalls == [t \in Tools |-> "absent"]

Init ==
  /\ repair \in BOOLEAN
  /\ phase = "reading" /\ attempt = 1 /\ verdict = "none" /\ finish = "none"
  /\ heard = 0
  /\ text = <<>> /\ reasoning = <<>> /\ hidden = FALSE /\ emitted = FALSE
  /\ tools = NoCalls /\ sawTool = FALSE /\ toolError = FALSE
  /\ stop = "none" /\ reasons = {} /\ eof = FALSE

-----------------------------------------------------------------------------
(* processEvent *)

Hear ==
  /\ phase = "reading" /\ heard < MaxEvents
  /\ heard' = heard + 1
  /\ UNCHANGED <<gate, phase, eof>>

(* An assistantResponseEvent.  Text inside <thinking> is cut out; what is  *)
(* left is emitted, even if it is empty, unless there has been reasoning.  *)
Text(piece) ==
  /\ Hear
  /\ text' = IF hidden THEN text ELSE Append(text, piece)
  /\ emitted' = (emitted \/ ~hidden \/ reasoning = <<>>)
  /\ UNCHANGED <<reasoning, hidden, calls, stops>>

Thinking(open) ==
  /\ Hear /\ hidden = ~open
  /\ hidden' = open
  /\ emitted' = (emitted \/ reasoning = <<>>)
  /\ UNCHANGED <<text, reasoning, calls, stops>>

Reasoning(piece) ==
  /\ Hear
  /\ reasoning' = Append(reasoning, piece) /\ emitted' = TRUE
  /\ UNCHANGED <<text, hidden, calls, stops>>

(* A codeEvent is visible, inside <thinking> too. *)
Code(piece) ==
  /\ Hear
  /\ text' = Append(text, piece) /\ emitted' = TRUE
  /\ UNCHANGED <<reasoning, hidden, calls, stops>>

(* A toolUseEvent.  A piece that throws is rejected alone: processBytes    *)
(* keeps the buffered calls and goes on.                                   *)
ToolPiece(t, piece) ==
  /\ Hear
  /\ sawTool' = TRUE
  /\ toolError' = (toolError \/ Throws(tools[t], piece))
  /\ tools' = IF Throws(tools[t], piece)
              THEN [tools EXCEPT ![t] = IF piece = "odd" /\ @ = "absent" THEN "bare" ELSE @]
              ELSE [tools EXCEPT ![t] = AppendPiece(@, piece)]
  /\ UNCHANGED <<said, stops>>

StopIs(reason) ==
  /\ Hear
  /\ stop' = Merge(stop, reason)
  /\ reasons' = reasons \cup {reason}
  /\ UNCHANGED <<said, calls>>

(* A messageStopEvent, whose reason may be missing, or a metadataEvent     *)
(* with a reason; a metadataEvent without one changes nothing.             *)
MessageStop == StopIs(IF sawTool THEN "tool_use" ELSE "end_turn")

Metadata(reason) == StopIs(reason)

-----------------------------------------------------------------------------
(* The end of the event stream, and the judgement *)

Judge(kind) ==
  /\ phase = "reading"
  /\ phase' = "judged" /\ verdict' = kind
  /\ UNCHANGED <<repair, attempt, finish, heard, said, calls, stops>>

NothingSaid == text = <<>> /\ reasoning = <<>>
Bad == {"retryable", "incomplete", "refused", "unknown"}

(* declaredTruncatedAfterOutput, truncatedAfterOutput *)
Kept(disposition, output) ==
  disposition = "incomplete" /\ stop \in Truncations /\ output

Fails(disposition, output) == disposition \in Bad /\ ~Kept(disposition, output)
StopFault(disposition) == IF disposition = "retryable" THEN "retryable_stop" ELSE "terminal_stop"

Declared == Disposition(stop, sawTool)
Final == Disposition(stop, Calls # {})
Output == emitted \/ Calls # {}

(* The gate's own objections, to an answer without calls. *)
EllipsisOnly == text = <<"dots">> \/ (text = <<>> /\ reasoning = <<"dots">>)
FutureAction == text # <<>> /\ \A i \in DOMAIN text : text[i] = "intent"

(* Mutant: a rejected piece of one call costs the whole turn. *)
CleanVerdictStrict ==
  IF Fails(Declared, emitted) THEN StopFault(Declared)
  ELSE IF toolError \/ Dropped # {} THEN "invalid_tool"
  ELSE IF Fails(Final, Output) THEN StopFault(Final)
  ELSE "complete"

(* finish, then readIntegrityAttempt: the first objection counts.  The     *)
(* second look at the disposition finds nothing the first did not.         *)
CleanVerdict ==
  IF Fails(Declared, emitted) THEN StopFault(Declared)
  ELSE IF Calls = {} /\ NothingSaid /\ (stop = "tool_use" \/ toolError \/ Dropped # {}) THEN "invalid_tool"
  ELSE IF Calls = {} /\ NothingSaid /\ stop = "none" THEN "missing_terminal"
  ELSE IF Fails(Final, Output) THEN StopFault(Final)
  ELSE IF Calls = {} /\ EllipsisOnly THEN "ellipsis"
  ELSE IF Calls = {} /\ FutureAction THEN "short_final"
  ELSE "complete"

CleanEnd == Judge(CleanVerdict) /\ eof' = TRUE

(* A frame with an error, a corrupt or truncated frame, no body, a failing *)
(* read, more bytes than the gate holds.                                   *)
ErrorFrame == Judge("upstream_error") /\ UNCHANGED eof
Broken == Judge("missing_terminal") /\ UNCHANGED eof
TooLong == Judge("terminal_stop") /\ UNCHANGED eof

(* readWithTimeout: no first chunk in time, or no further one. *)
Silence == Judge("missing_terminal") /\ UNCHANGED eof

-----------------------------------------------------------------------------
(* runIntegrityRecovery *)

(* Mutant: the answer is finished by what it holds, not by what cut it. *)
FinishReasonByContent ==
  IF Calls # {} THEN "tool_calls" ELSE IF Final = "length" THEN "length" ELSE "stop"

(* finishReason *)
FinishReason ==
  IF Kept(Final, Output) THEN "length"
  ELSE IF Calls # {} THEN "tool_calls"
  ELSE IF Final = "length" THEN "length"
  ELSE "stop"

Release ==
  /\ phase = "judged" /\ verdict = "complete"
  /\ phase' = "answered" /\ finish' = FinishReason
  /\ UNCHANGED <<repair, attempt, verdict, heard, said, calls, stops, eof>>

GivesUp ==
  \/ attempt = 2
  \/ verdict \in {"terminal_stop", "upstream_error"}
  \/ verdict = "invalid_tool" /\ ~repair

Fail ==
  /\ phase = "judged" /\ verdict # "complete" /\ GivesUp
  /\ phase' = "failed"
  /\ UNCHANGED <<gate, heard, said, calls, stops, eof>>

(* The request is sent again, with an instruction where one would help. *)
Retry ==
  /\ phase = "judged" /\ verdict # "complete" /\ ~GivesUp
  /\ phase' = "retrying"
  /\ UNCHANGED <<gate, heard, said, calls, stops, eof>>

Reread ==
  /\ phase = "retrying"
  /\ phase' = "reading" /\ verdict' = "none" /\ heard' = 0
  /\ text' = <<>> /\ reasoning' = <<>> /\ hidden' = FALSE /\ emitted' = FALSE
  /\ tools' = NoCalls /\ sawTool' = FALSE /\ toolError' = FALSE
  /\ stop' = "none" /\ reasons' = {} /\ eof' = FALSE
  /\ UNCHANGED <<repair, finish>>

(* Mutant: the second attempt counts as a first. *)
RetryAnswersUncounted == Reread /\ UNCHANGED attempt

RetryAnswers == Reread /\ attempt' = 2

RetryRefused ==
  /\ phase = "retrying"
  /\ phase' = "failed"
  /\ UNCHANGED <<gate, heard, said, calls, stops, eof>>

(* The client cancels, or its signal aborts. *)
Abort ==
  /\ phase \in {"reading", "judged", "retrying"}
  /\ phase' = "aborted"
  /\ UNCHANGED <<gate, heard, said, calls, stops, eof>>

Event ==
  \/ \E piece \in {"real", "dots", "intent"} : Text(piece) \/ Code(piece)
  \/ \E open \in BOOLEAN : Thinking(open)
  \/ \E piece \in {"real", "dots"} : Reasoning(piece)
  \/ \E t \in Tools, piece \in Pieces : ToolPiece(t, piece)
  \/ MessageStop
  \/ \E reason \in StopReasons : Metadata(reason)

End == CleanEnd \/ ErrorFrame \/ Broken \/ TooLong \/ Silence
Recover == Release \/ Fail \/ Retry

Next == Event \/ End \/ Recover \/ RetryAnswers \/ RetryRefused \/ Abort

(* Kiro need not go on: the timeouts end a silent attempt, the timeout of  *)
(* the connection a silent call.                                           *)
Fairness ==
  /\ WF_vars(Silence)
  /\ WF_vars(Recover)
  /\ WF_vars(RetryAnswers \/ RetryRefused)

Spec == Init /\ [][Next]_vars /\ Fairness

-----------------------------------------------------------------------------
(* A refusal stays private: once an attempt has named one, no later or     *)
(* earlier stop reason makes its partial answer an answer.                 *)
RefusalStaysPrivate == phase = "answered" => "refusal" \notin reasons

(* A usable turn is kept: text with a result, or a complete tool call, is  *)
(* neither replaced by an error nor asked for again because of a rejected  *)
(* piece of another call or, for text, because the budget ran out.         *)
UsableTurn ==
  /\ eof
  /\ \/ reasons \subseteq {"end_turn", "tool_use"} \cup Truncations
        /\ \E i \in DOMAIN text : text[i] = "real"
     \/ reasons \subseteq {"end_turn", "tool_use"} /\ Calls # {}

UsableTurnIsKept == UsableTurn => phase \notin {"retrying", "failed"}

(* An answer is announced as cut short if and only if one of its stop      *)
(* reasons said so, and as a tool turn only if it holds a call.            *)
TruncationIsTold ==
  phase = "answered" =>
    /\ finish = "length" <=> reasons \cap Truncations # {}
    /\ finish = "tool_calls" => Calls # {}

(* Every request is answered, with the answer or an error, or given up by  *)
(* its client: there is no attempt after the second.                       *)
EveryTurnEnds == phase = "reading" ~> phase \in {"answered", "failed", "aborted"}

=============================================================================
