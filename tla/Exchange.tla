------------------------------- MODULE Exchange -------------------------------
(***************************************************************************)
(* handleChatCore, open-sse/handlers/chatCore.js, as far as it translates: *)
(* the request into the provider's format (RequestTranslation), the answer *)
(* back into the client's (StreamTranslation), and what the client has     *)
(* read becomes part of its next request.  A model's first answer is       *)
(* streamed piece by piece; later ones, and those of routes whose          *)
(* executors write the client's format themselves, come as a whole.        *)
(***************************************************************************)
EXTENDS RequestTranslation, StreamTranslation

VARIABLE streaming

exchangeVars == <<requestVars, vars, streaming>>

ExchangeInit ==
  /\ ChatInit /\ StreamInit
  /\ client = sourceFormat /\ up = targetFormat
  /\ streaming = FALSE

Talk == ~streaming /\ ChatNext /\ UNCHANGED <<vars, streaming>>

AnswerBegins ==
  /\ ~streaming /\ request # <<>> /\ turns = 1
  /\ <<up, client>> \in Chains
  /\ streaming' = TRUE
  /\ UNCHANGED <<requestVars, vars>>

AnswerGoesOn == streaming /\ Next /\ UNCHANGED <<requestVars, streaming>>

(* The client keeps an answer it has read to the end, as it has read it,   *)
(* unless it is an error; the words count, however many pieces they were.  *)
AnswerIsKept ==
  /\ streaming /\ phase # "open" /\ streaming' = FALSE
  /\ st' = InitState /\ terminalSeen' = FALSE /\ phase' = "open"
  /\ prov' = NewProvider /\ reader' = NewReader /\ said' = <<>>
  /\ LET n == Cardinality(reader.known)
         speaks == \E i \in DOMAIN reader.heard : reader.heard[i].kind = "text"
     IN  IF reader.ends = <<>> \/ Last(reader.ends) = "failed" \/ ~(speaks \/ n > 0)
         THEN UNCHANGED requestVars
         ELSE /\ Say(AsMessages("assistant", (IF speaks THEN <<Words(Fresh)>> ELSE <<>>)
                                               \o [i \in 1..n |-> Use(calls + i)]))
              /\ calls' = calls + n
  /\ UNCHANGED <<up, client>>

ExchangeNext == Talk \/ AnswerBegins \/ AnswerGoesOn \/ AnswerIsKept

ExchangeSpec == ExchangeInit /\ [][ExchangeNext]_exchangeVars

=============================================================================
