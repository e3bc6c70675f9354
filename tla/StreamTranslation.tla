--------------------------- MODULE StreamTranslation ---------------------------
(***************************************************************************)
(* A streamed answer on its way from the provider's format to the          *)
(* client's:                                                               *)
(*   open-sse/utils/stream.js              transform and flush             *)
(*   open-sse/utils/streamHandler.js       the end of a stream that breaks *)
(*   open-sse/utils/responsesStreamHelpers.js                              *)
(*   open-sse/translator                   ResponseTranslators             *)
(*                                                                         *)
(* The provider is external: it speaks its format as the translators read  *)
(* it, says pieces of thinking, text and arguments in any order its format *)
(* allows, finishes, fails or is cut off.  The client is a reader of its   *)
(* own format.  One stream is enough: streams share no state.              *)
(***************************************************************************)
EXTENDS ResponseTranslators, FiniteSets

CONSTANTS
  Chains,     \* pairs of formats: the provider's, the client's
  MaxPieces   \* bound on the pieces of an answer

Formats == {"openai", "claude", "responses", "gemini", "kiro"}

ASSUME StreamAssumption ==
  /\ Chains \subseteq Formats \X {"openai", "claude", "responses"}
  /\ MaxPieces \in Nat

VARIABLES
  up, client,    \* the formats
  st,            \* the state of the translation
  terminalSeen,  \* openAIResponsesTerminalSeen, of a stream that is passed on
  phase,         \* "open", "ended" (flushed), "broken"
  prov,          \* external: where the provider is in its answer
  reader,        \* what the client has read
  said           \* what the provider has said: the kind of each piece and its call

vars == <<up, client, st, terminalSeen, phase, prov, reader, said>>

PassedOn == up = client

-----------------------------------------------------------------------------
(* The client *)

NoItem == [kind |-> "none", call |-> Nothing, open |-> FALSE]

NewReader ==
  [ begun |-> FALSE,
    items |-> [k \in {} |-> NoItem],   \* by key
    index |-> [i \in Slots |-> Nothing],
    known |-> {},                      \* the calls it has been told of
    heard |-> <<>>,                    \* thinking and text
    args |-> [c \in Calls |-> <<>>],
    ends |-> <<>>,
    bad |-> FALSE ]                    \* something was out of order

Item(r, k) == IF k \in DOMAIN r.items THEN r.items[k] ELSE NoItem
Hear(kind, pieces) == [i \in DOMAIN pieces |-> [kind |-> kind, piece |-> pieces[i]]]
OpenItems(r) == {k \in DOMAIN r.items : r.items[k].open}
Wrong(r, cond) == [r EXCEPT !.bad = @ \/ cond]

Take(r, kind, c, pieces) ==
  IF kind = "call" THEN [r EXCEPT !.args[c] = @ \o pieces]
  ELSE [r EXCEPT !.heard = @ \o Hear(kind, pieces)]

(* The translation to the Responses API closes the message before a call   *)
(* and the reasoning at </think>, but keeps their ids: text after a call,  *)
(* and thinking that comes back, are deltas of the item that was closed.   *)
Resumable == {Message, Reasoning}

ReadInOrder(r, e) ==
  CASE e.type = "begin" -> Wrong([r EXCEPT !.begun = TRUE], r.begun)
    [] e.type = "open" ->
         Wrong([r EXCEPT !.items = [k \in {e.key} \cup DOMAIN r.items |->
                                      IF k = e.key THEN [kind |-> e.kind, call |-> e.call, open |-> TRUE]
                                      ELSE r.items[k]],
                         !.known = IF e.kind = "call" THEN @ \cup {e.call} ELSE @],
               e.key \in DOMAIN r.items)
    [] e.type = "delta" ->
         IF Item(r, e.key) = NoItem THEN Wrong(r, TRUE)
         ELSE Wrong(Take(r, Item(r, e.key).kind, Item(r, e.key).call, e.pieces),
                    ~Item(r, e.key).open /\ e.key \notin Resumable)
    [] e.type = "close" ->
         IF Item(r, e.key).open THEN [r EXCEPT !.items[e.key].open = FALSE] ELSE Wrong(r, TRUE)
    [] e.type = "part" -> IF e.piece > 0 THEN Take(r, e.kind, Nothing, <<e.piece>>) ELSE r
    [] e.type = "entry" ->
         LET c == IF e.tool.id # Nothing THEN e.tool.id ELSE r.index[e.tool.at]
             q == [r EXCEPT !.index[e.tool.at] = c, !.known = @ \cup {c}]
         IN  IF c = Nothing THEN Wrong(r, TRUE)
             ELSE IF e.tool.args = Nothing THEN q ELSE Take(q, "call", c, <<e.tool.args>>)
    [] e.type = "end" -> Wrong([r EXCEPT !.ends = Append(@, e.reason)], OpenItems(r) # {})

(* Nothing comes after the end, and only the end of an empty answer before *)
(* the beginning.                                                          *)
Read(r, e) == Wrong(ReadInOrder(r, e), r.ends # <<>> \/ (e.type \notin {"begin", "end"} /\ ~r.begun))

-----------------------------------------------------------------------------
NewProvider == [begun |-> FALSE, started |-> 0, index |-> 0, kind |-> "none", done |-> {}, over |-> "no"]

StreamInit ==
  /\ st = InitState /\ terminalSeen = FALSE
  /\ phase = "open"
  /\ prov = NewProvider /\ reader = NewReader /\ said = <<>>

Init ==
  /\ \E c \in Chains : up = c[1] /\ client = c[2]
  /\ StreamInit

TypeOK ==
  /\ <<up, client>> \in Chains
  /\ phase \in {"open", "ended", "broken"}
  /\ terminalSeen \in BOOLEAN
  /\ prov.over \in {"no", "finished", "failed"} /\ prov.started \in 0..Cardinality(Calls)
  /\ Len(said) <= MaxPieces
  /\ \A i \in DOMAIN said : said[i].kind \in {"think", "text", "call"} /\ said[i].call \in Calls \cup {Nothing}
  /\ st.nextBlock \in Nat /\ st.toolIndex \in Nat

(* One line of the upstream through transform. *)
Arrives(e) ==
  LET r == Translate(up, client, e, st) IN
  /\ st' = r.st
  /\ reader' = Fold(Read, reader, r.out)
  /\ UNCHANGED <<up, client, terminalSeen, phase>>

Speaking(f) == phase = "open" /\ up \in f /\ ~PassedOn

Next1 == Len(said) + 1
Piece(kind, c) == [kind |-> kind, call |-> c]
HasRoom == Len(said) < MaxPieces
StartedCalls == {c \in Calls : c <= prov.started}
FinishReason == IF prov.started > 0 THEN "tools" ELSE "stop"

-----------------------------------------------------------------------------
(* external: Chat Completions.  Kiro's executor makes the same chunks, but *)
(* names a call only once.                                                 *)

Entries ==
  { <<t>> : t \in [call : StartedCalls \cup {prov.started + 1}, named : BOOLEAN, args : BOOLEAN] }
    \cup { <<[call |-> prov.started + 1, named |-> TRUE, args |-> a],
             [call |-> prov.started + 2, named |-> TRUE, args |-> a]>> : a \in BOOLEAN }
    \cup { <<>> }

Proper(t) ==
  /\ t.call \in Calls
  /\ t.call > prov.started => t.named
  /\ t.args \/ t.call > prov.started
  /\ up = "kiro" /\ t.named => t.call > prov.started

ChunkArrives ==
  /\ Speaking({"openai", "kiro"}) /\ prov.over = "no"
  /\ \E think, text, finish \in BOOLEAN, tools \in Entries :
       LET first == (IF think THEN <<Piece("think", Nothing)>> ELSE <<>>)
                      \o (IF text THEN <<Piece("text", Nothing)>> ELSE <<>>)
           withArgs == IF \A i \in DOMAIN tools : tools[i].args THEN tools ELSE <<>>
           all == first \o [i \in DOMAIN withArgs |-> Piece("call", withArgs[i].call)]
           entry(i) == Tool(tools[i].call - 1, IF tools[i].named THEN tools[i].call ELSE Nothing,
                            IF tools[i].args THEN Len(said) + Len(first) + i ELSE Nothing)
           started == prov.started + Cardinality({i \in DOMAIN tools : tools[i].call > prov.started})
       IN  /\ \A i \in DOMAIN tools : Proper(tools[i])
           /\ think \/ text \/ finish \/ tools # <<>>
           /\ Len(said) + Len(all) <= MaxPieces
           /\ said' = said \o all
           /\ prov' = [prov EXCEPT !.begun = TRUE, !.started = started, !.over = IF finish THEN "finished" ELSE @]
           /\ Arrives(Chunk(IF think THEN Next1 ELSE Nothing, IF text THEN Len(said) + Len(first) ELSE Nothing,
                            [i \in DOMAIN tools |-> entry(i)],
                            IF ~finish THEN "" ELSE IF started > 0 THEN "tools" ELSE "stop"))

-----------------------------------------------------------------------------
(* external: Claude Messages, one block at a time *)

Event(type, i, kind, c, n) == [type |-> type, index |-> i, kind |-> kind, call |-> c, piece |-> n]

ClaudeBegins ==
  /\ Speaking({"claude"}) /\ ~prov.begun
  /\ prov' = [prov EXCEPT !.begun = TRUE]
  /\ Arrives(Event("message_start", 0, "none", Nothing, Nothing))
  /\ UNCHANGED said

BlockStarts ==
  /\ Speaking({"claude"}) /\ prov.begun /\ prov.over = "no" /\ prov.kind = "none"
  /\ prov.index \in Slots
  /\ \E kind \in {"think", "text", "call", "server"} :
       LET c == IF kind = "call" THEN prov.started + 1 ELSE Nothing IN
       /\ kind = "call" => c \in Calls
       /\ prov' = [prov EXCEPT !.kind = kind, !.started = IF kind = "call" THEN c ELSE @]
       /\ Arrives(Event("start", prov.index, kind, c, Nothing))
  /\ UNCHANGED said

(* The deltas of a server's tool carry arguments that are not the client's. *)
BlockContinues ==
  /\ Speaking({"claude"}) /\ prov.kind # "none"
  /\ IF prov.kind = "server"
     THEN /\ Arrives(Event("delta", prov.index, "call", Nothing, Next1))
          /\ UNCHANGED said
     ELSE LET c == IF prov.kind = "call" THEN prov.started ELSE Nothing IN
          /\ HasRoom
          /\ said' = Append(said, Piece(prov.kind, c))
          /\ Arrives(Event("delta", prov.index, prov.kind, c, Next1))
  /\ UNCHANGED prov

BlockStops ==
  /\ Speaking({"claude"}) /\ prov.kind # "none"
  /\ prov' = [prov EXCEPT !.kind = "none", !.index = @ + 1]
  /\ Arrives(Event("stop", prov.index, prov.kind, Nothing, Nothing))
  /\ UNCHANGED said

(* message_delta with the stop reason, then message_stop; the former may   *)
(* be missing.                                                             *)
ClaudeFinishes ==
  /\ Speaking({"claude"}) /\ prov.begun /\ prov.kind = "none" /\ prov.over # "failed"
  /\ \/ prov.over = "no" /\ Arrives(Event("message_delta", 0, FinishReason, Nothing, Nothing))
     \/ Arrives(Event("message_stop", 0, "none", Nothing, Nothing))
  /\ prov' = [prov EXCEPT !.over = "finished"]
  /\ UNCHANGED said

-----------------------------------------------------------------------------
(* external: the Responses API, whose items may be interleaved *)

RespEvent(type, c, n) == [type |-> type, call |-> c, piece |-> n]

ResponsesSays ==
  /\ Speaking({"responses"}) /\ prov.over = "no" /\ HasRoom
  /\ \E kind \in {"think", "text"} :
       /\ said' = Append(said, Piece(kind, Nothing))
       /\ Arrives(RespEvent(kind, Nothing, Next1))
  /\ prov' = [prov EXCEPT !.begun = TRUE]

(* An item is added, or a retry adds it again; response.created comes first. *)
ItemAdded ==
  /\ Speaking({"responses"}) /\ prov.over = "no"
  /\ \/ \E c \in Calls :
          /\ c <= prov.started + 1 /\ c \notin prov.done
          /\ prov' = [prov EXCEPT !.begun = TRUE, !.started = IF c > @ THEN c ELSE @]
          /\ Arrives(RespEvent("added", c, Nothing))
     \/ /\ prov' = [prov EXCEPT !.begun = TRUE]
        /\ Arrives(RespEvent("created", Nothing, Nothing))
  /\ UNCHANGED said

ArgsArrive ==
  /\ Speaking({"responses"}) /\ prov.over = "no" /\ HasRoom
  /\ \E c \in StartedCalls \ prov.done :
       /\ said' = Append(said, Piece("call", c))
       /\ Arrives(RespEvent("args", c, Next1))
  /\ UNCHANGED prov

(* The item is done, with its complete arguments: what has been said, or   *)
(* all that is said of them.                                               *)
ItemIsDone ==
  /\ Speaking({"responses"}) /\ prov.over = "no"
  /\ \E c \in StartedCalls \ prov.done :
       /\ \E i \in DOMAIN said : said[i].call = c
          \/ HasRoom
       /\ said' = IF \E i \in DOMAIN said : said[i].call = c THEN said ELSE Append(said, Piece("call", c))
       /\ prov' = [prov EXCEPT !.done = @ \cup {c}]
       /\ Arrives(RespEvent("done", c, Len(said) + 1))

(* response.completed; or an error, which is told as text, and may be told *)
(* twice.                                                                  *)
ResponsesFinishes ==
  /\ Speaking({"responses"})
  /\ \/ /\ prov.over = "no"
        /\ prov' = [prov EXCEPT !.begun = TRUE, !.over = "finished"]
        /\ Arrives(RespEvent("completed", Nothing, Nothing))
        /\ UNCHANGED said
     \/ /\ prov.over = "no" /\ HasRoom
        /\ prov' = [prov EXCEPT !.begun = TRUE, !.over = "failed"]
        /\ said' = Append(said, Piece("text", Nothing))
        /\ Arrives(RespEvent("failed", Nothing, Next1))
     \/ /\ prov.over = "failed"
        /\ Arrives(RespEvent("failed", Nothing, Next1))
        /\ UNCHANGED <<prov, said>>

-----------------------------------------------------------------------------
(* external: Gemini, whose chunks have parts *)

GeminiChunk ==
  /\ Speaking({"gemini"}) /\ prov.over = "no"
  /\ \E kinds \in {<<>>} \cup {<<k>> : k \in {"think", "text", "call"}} \cup ({"think", "text", "call"} \X {"text", "call"}),
        finish \in BOOLEAN :
       LET callsUpTo(i) == Cardinality({j \in 1..i : kinds[j] = "call"})
           call(i) == IF kinds[i] = "call" THEN prov.started + callsUpTo(i) ELSE Nothing
           parts == [i \in DOMAIN kinds |-> [kind |-> kinds[i], call |-> call(i), piece |-> Len(said) + i]]
       IN  /\ finish \/ kinds # <<>>
           /\ Len(said) + Len(kinds) <= MaxPieces
           /\ \A i \in DOMAIN kinds : call(i) \in Calls \cup {Nothing}
           /\ said' = said \o [i \in DOMAIN kinds |-> Piece(kinds[i], call(i))]
           /\ prov' = [prov EXCEPT !.begun = TRUE, !.started = @ + callsUpTo(Len(kinds)),
                                   !.over = IF finish THEN "finished" ELSE @]
           /\ Arrives([parts |-> parts, finish |-> finish])

-----------------------------------------------------------------------------
(* A stream of the Responses API to a client of the Responses API          *)

PassOn(events) ==
  /\ reader' = Fold(Read, reader, (IF reader.begun THEN <<>> ELSE <<Begin>>) \o events)
  /\ UNCHANGED <<up, client, st, phase>>

TextPassesOn ==
  /\ phase = "open" /\ PassedOn /\ prov.over = "no" /\ HasRoom
  /\ said' = Append(said, Piece("text", Nothing))
  /\ PassOn(<<Part("text", Next1)>>)
  /\ UNCHANGED <<terminalSeen, prov>>

TerminalPassesOn ==
  /\ phase = "open" /\ PassedOn /\ prov.over = "no"
  /\ prov' = [prov EXCEPT !.over = "finished"]
  /\ PassOn(<<End("completed")>>)
  /\ terminalSeen' = TRUE
  /\ UNCHANGED said

(* The sentinel [DONE]: a stream that has no terminal event is given one. *)
DonePassesOn ==
  /\ phase = "open" /\ PassedOn
  /\ PassOn(IF terminalSeen THEN <<>> ELSE <<End("failed")>>)
  /\ terminalSeen' = TRUE
  /\ prov' = [prov EXCEPT !.over = IF @ = "no" THEN "failed" ELSE @]
  /\ UNCHANGED said

-----------------------------------------------------------------------------
(* The end of the upstream, whether the answer is finished or cut off *)
UpstreamEnds ==
  /\ phase = "open" /\ phase' = "ended"
  /\ IF PassedOn
     THEN /\ reader' = Fold(Read, reader, (IF reader.begun THEN <<>> ELSE <<Begin>>)
                                                \o (IF terminalSeen THEN <<>> ELSE <<End("failed")>>))
          /\ terminalSeen' = TRUE
          /\ UNCHANGED st
     ELSE LET r == Flush(up, client, st) IN
          /\ st' = r.st
          /\ reader' = Fold(Read, reader, r.out)
          /\ UNCHANGED terminalSeen
  /\ UNCHANGED <<up, client, prov, said>>

(* The connection breaks or stalls; a stream that is passed on gets a      *)
(* failure and [DONE], whether or not it has its terminal event.           *)
UpstreamBreaks ==
  /\ phase = "open" /\ phase' = "broken"
  /\ reader' = IF PassedOn THEN [reader EXCEPT !.ends = Append(@, "failed")] ELSE reader
  /\ UNCHANGED <<up, client, st, terminalSeen, prov, said>>

Next ==
  \/ ChunkArrives
  \/ ClaudeBegins \/ BlockStarts \/ BlockContinues \/ BlockStops \/ ClaudeFinishes
  \/ ResponsesSays \/ ItemAdded \/ ArgsArrive \/ ItemIsDone \/ ResponsesFinishes
  \/ GeminiChunk
  \/ TextPassesOn \/ TerminalPassesOn \/ DonePassesOn
  \/ UpstreamEnds \/ UpstreamBreaks

Spec == Init /\ [][Next]_vars

-----------------------------------------------------------------------------
(* What a client reads obeys its format, whatever the provider's format is *)
(* and however it cuts its answer into chunks: an item is opened once and  *)
(* with a key of its own, gets deltas and is closed only while it is open, *)
(* none is open at the end, and nothing follows the end.  But the message  *)
(* and the reasoning of the Responses API, once opened, may get deltas     *)
(* after they were closed (openai-responses.js:104 and then :212, :87 and  *)
(* then :147); the blocks of Claude Messages and the calls of the          *)
(* Responses API may not.                                                  *)
WellFramed == ~reader.bad

(* What has been said of thinking and text, and of a call's arguments, by  *)
(* the numbers of the pieces.                                              *)
TextIn(pieces) ==
  LET Takes(text, n) ==
        IF pieces[n].kind = "call" THEN text ELSE Append(text, [kind |-> pieces[n].kind, piece |-> n])
  IN  Fold(Takes, <<>>, [n \in DOMAIN pieces |-> n])

ArgsIn(pieces, c) ==
  LET Takes(args, n) == IF pieces[n].call = c THEN Append(args, n) ELSE args
  IN  Fold(Takes, <<>>, [n \in DOMAIN pieces |-> n])

(* Thinking and text reach the client at once and in order; at the end the *)
(* client knows every tool call and has its arguments, all of them, in     *)
(* order, and none of another call.                                        *)
NothingMixed ==
  /\ ~PassedOn => reader.heard = TextIn(said)
  /\ reader.ends # <<>> =>
       /\ reader.known = StartedCalls
       /\ \A c \in Calls : reader.args[c] = ArgsIn(said, c)

(* An answer the provider has finished is finished for the client, with a  *)
(* reason that tells of its tool calls; a provider of the Responses API,   *)
(* or a client of it on Chat Completions, has its answer finished also     *)
(* when the provider is cut off.                                           *)
FinishReachesClient ==
  LET closes == up = "responses" \/ (up = "openai" /\ client = "responses") IN
  /\ phase = "ended" /\ reader.begun /\ (prov.over # "no" \/ closes) => reader.ends # <<>>
  /\ phase # "broken" => Len(reader.ends) <= 1
  /\ \A i \in DOMAIN reader.ends :
       prov.over = "finished" /\ client # "responses" => (reader.ends[i] = "tools" <=> prov.started > 0)

=============================================================================
