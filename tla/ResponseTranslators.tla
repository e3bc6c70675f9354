-------------------------- MODULE ResponseTranslators --------------------------
(***************************************************************************)
(* The translators of streamed answers, one chunk of the upstream at a     *)
(* time:                                                                   *)
(*   open-sse/translator/index.js        translateResponse, initState      *)
(*   open-sse/translator/response/*.js   the hops to and from the chunks   *)
(*                                       of OpenAI Chat Completions        *)
(*                                                                         *)
(* Both hops of a translation work on one state object, so the fields of   *)
(* all of them are in one record.  A hop takes and returns a result: that  *)
(* record and what it has put out so far.  Texts are pieces told apart by  *)
(* a number; models, usage, names of tools and the repair of arguments are *)
(* left out.                                                               *)
(***************************************************************************)
EXTENDS Integers, Sequences, SequencesExt

CONSTANTS
  Calls,    \* the tool calls of an answer, by their ids: 1..n
  LastSlot  \* bound on the indexes of tool calls and of blocks

ASSUME TranslatorAssumption ==
  /\ LastSlot \in Nat
  /\ Calls \subseteq 1 .. LastSlot + 1

Slots == 0 .. LastSlot

(* The loops of the code: op over the elements of s, from the first.       *)
Fold(op(_, _), base, s) ==
  LET after[i \in 0 .. Len(s)] == IF i = 0 THEN base ELSE op(after[i - 1], s[i])
  IN  after[Len(s)]

Nothing == 0     \* no piece, no call
NoBlock == -1
NoTool == [call |-> Nothing, at |-> NoBlock]
Empty == [i \in Slots |-> <<>>]

(* The tags Claude's thinking is wrapped in on its way to the pivot. *)
OpenTag == -1
CloseTag == -2

-----------------------------------------------------------------------------
(* What a client is sent, in whatever format: an item (a block of Claude,  *)
(* an output item of the Responses API) is opened, gets deltas, is closed; *)
(* a chunk of Chat Completions has parts of text and entries of calls.     *)

Begin == [type |-> "begin"]
Open(k, kind, c) == [type |-> "open", key |-> k, kind |-> kind, call |-> c]
Delta(k, pieces) == [type |-> "delta", key |-> k, pieces |-> pieces]
Close(k) == [type |-> "close", key |-> k]
Part(kind, n) == [type |-> "part", kind |-> kind, piece |-> n]
Entry(t) == [type |-> "entry", tool |-> t]
End(reason) == [type |-> "end", reason |-> reason]

Block(i) == <<"block", i>>
Message == <<"msg", 0>>
Reasoning == <<"rs", 0>>
Function(c) == <<"fc", c>>

-----------------------------------------------------------------------------
(* The state of a stream *)

InitState ==
  [ begun |-> FALSE,                                  \* messageStartSent, started of the second hop
    started |-> FALSE,                                \* started of the Responses hop
    nextBlock |-> 0,                                  \* nextBlockIndex
    block |-> [k \in {"think", "text"} |-> NoBlock],  \* the open block of the kind
    toolCalls |-> [i \in Slots |-> NoTool],
    argBuf |-> Empty,                                 \* toolArgBuffers
    toolIndex |-> 0,                                  \* toolCallIndex
    finishSent |-> FALSE,                             \* finishReasonSent
    current |-> Nothing,                              \* currentToolCallId
    respIndex |-> [c \in Calls |-> NoBlock],          \* respToolChatIndex
    argsEmitted |-> {},                               \* respToolArgsEmitted
    thinkingBlock |-> NoBlock,                        \* inThinkingBlock, currentBlockIndex
    serverBlock |-> NoBlock,                          \* serverToolBlockIndex
    functionIndex |-> 0,
    inThinking |-> FALSE,
    reasoning |-> "none",                             \* reasoningId, reasoningDone
    message |-> "none",                               \* msgItemAdded, msgItemDone
    funcIds |-> [i \in Slots |-> Nothing],            \* funcCallIds
    funcAdded |-> {}, funcDone |-> {},
    completed |-> FALSE ]                             \* completedSent

Result(st) == [st |-> st, out |-> <<>>]
Emit(r, e) == [r EXCEPT !.out = Append(@, e)]

(* A chunk of Chat Completions; a tool entry has an index, an id or none,  *)
(* and a piece of arguments or none.                                       *)
Tool(i, c, piece) == [at |-> i, id |-> c, args |-> piece]
Chunk(think, text, tools, finish) == [think |-> think, text |-> text, tools |-> tools, finish |-> finish]
Thinks(n) == Chunk(n, Nothing, <<>>, "")
Says(n) == Chunk(Nothing, n, <<>>, "")
Uses(t) == Chunk(Nothing, Nothing, <<t>>, "")
Finishes(reason) == Chunk(Nothing, Nothing, <<>>, reason)

-----------------------------------------------------------------------------
(* openai-to-claude.js *)

MessageStart(r) == IF r.st.begun THEN r ELSE [Emit(r, Begin) EXCEPT !.st.begun = TRUE]

(* stopThinkingBlock, stopTextBlock *)
StopBlock(kind, r) ==
  IF r.st.block[kind] = NoBlock THEN r
  ELSE [Emit(r, Close(Block(r.st.block[kind]))) EXCEPT !.st.block[kind] = NoBlock]

StopBlocks(r) == StopBlock("text", StopBlock("think", r))

StartBlock(kind, r) ==
  IF r.st.block[kind] # NoBlock THEN r
  ELSE [Emit(r, Open(Block(r.st.nextBlock), kind, Nothing))
          EXCEPT !.st.block[kind] = r.st.nextBlock, !.st.nextBlock = @ + 1]

BlockDelta(kind, other, n, r) ==
  IF n = Nothing THEN r
  ELSE LET q == StartBlock(kind, StopBlock(other, r))
       IN  Emit(q, Delta(Block(q.st.block[kind]), <<n>>))

(* A call opens its block once, also if its id comes with every chunk. *)
ToolStart(r, t) ==
  IF t.id = Nothing \/ r.st.toolCalls[t.at] # NoTool THEN r
  ELSE LET q == StopBlocks(r)
       IN  [Emit(q, Open(Block(q.st.nextBlock), "call", t.id))
              EXCEPT !.st.toolCalls[t.at] = [call |-> t.id, at |-> q.st.nextBlock], !.st.nextBlock = @ + 1]

ToolArgs(r, t) ==
  IF t.args = Nothing \/ r.st.toolCalls[t.at] = NoTool THEN r
  ELSE [r EXCEPT !.st.argBuf[t.at] = Append(@, t.args)]

(* The block with the number b, if it is one of a call. *)
StopTool(r, b) ==
  LET here == {i \in Slots : r.st.toolCalls[i].at = b}
      i == CHOOSE j \in here : TRUE
  IN  IF here = {} THEN r
      ELSE Emit(IF r.st.argBuf[i] = <<>> THEN r ELSE Emit(r, Delta(Block(b), r.st.argBuf[i])), Close(Block(b)))

(* A Map is walked in the order in which its keys were set, which is that  *)
(* of their blocks.                                                        *)
Opened(st) == [n \in 1 .. st.nextBlock |-> n - 1]

ClaudeFinish(reason, r) ==
  IF reason = "" THEN r
  ELSE Emit(Fold(StopTool, StopBlocks(r), Opened(r.st)), End(reason))

OpenAIToClaude(r, c) ==
  LET says == BlockDelta("text", "think", c.text, BlockDelta("think", "text", c.think, MessageStart(r)))
      UseTool(q, t) == ToolArgs(ToolStart(q, t), t)
  IN  ClaudeFinish(c.finish, Fold(UseTool, says, c.tools))

(* kiro-to-claude.js, the direct route, opens a block for every id. *)
KiroToolStart(r, t) ==
  IF t.id = Nothing THEN r
  ELSE LET q == StopBlocks(r)
       IN  [Emit(q, Open(Block(q.st.nextBlock), "call", t.id))
              EXCEPT !.st.toolCalls[t.at] = [call |-> t.id, at |-> q.st.nextBlock], !.st.nextBlock = @ + 1]

KiroToClaude(r, c) ==
  LET says == BlockDelta("text", "think", c.text, BlockDelta("think", "text", c.think, MessageStart(r)))
      UseTool(q, t) == ToolArgs(KiroToolStart(q, t), t)
  IN  ClaudeFinish(c.finish, Fold(UseTool, says, c.tools))

-----------------------------------------------------------------------------
(* openai-responses.js: to the Responses API *)

StartReasoning(r) ==
  IF r.st.reasoning # "none" THEN r
  ELSE [Emit(r, Open(Reasoning, "think", Nothing)) EXCEPT !.st.reasoning = "open"]

ReasoningDelta(n, r) == IF n = Nothing THEN r ELSE Emit(StartReasoning(r), Delta(Reasoning, <<n>>))

CloseReasoning(r) ==
  IF r.st.reasoning # "open" THEN r ELSE [Emit(r, Close(Reasoning)) EXCEPT !.st.reasoning = "done"]

EmitTextContent(n, r) ==
  Emit(IF r.st.message # "none" THEN r
       ELSE [Emit(r, Open(Message, "text", Nothing)) EXCEPT !.st.message = "open"],
       Delta(Message, <<n>>))

CloseMessage(r) ==
  IF r.st.message # "open" THEN r ELSE [Emit(r, Close(Message)) EXCEPT !.st.message = "done"]

(* The content of a chunk, in and around the tags of thinking. *)
EmitContent(n, r) ==
  CASE n = Nothing -> r
    [] n = OpenTag -> [StartReasoning(r) EXCEPT !.st.inThinking = TRUE]
    [] n = CloseTag -> [CloseReasoning(r) EXCEPT !.st.inThinking = FALSE]
    [] n > 0 /\ r.st.inThinking -> Emit(r, Delta(Reasoning, <<n>>))
    [] OTHER -> EmitTextContent(n, r)

EmitToolCall(r, t) ==
  LET c == IF t.id # Nothing THEN t.id ELSE r.st.funcIds[t.at]
      q == IF c = Nothing \/ t.at \in r.st.funcAdded THEN r
           ELSE [Emit(r, Open(Function(c), "call", c)) EXCEPT !.st.funcIds[t.at] = c, !.st.funcAdded = @ \cup {t.at}]
  IN  IF t.args = Nothing \/ t.at \notin q.st.funcAdded THEN q ELSE Emit(q, Delta(Function(c), <<t.args>>))

CloseToolCall(r, i) ==
  IF r.st.funcIds[i] = Nothing \/ i \in r.st.funcDone THEN r
  ELSE [Emit(r, Close(Function(r.st.funcIds[i]))) EXCEPT !.st.funcDone = @ \cup {i}]

SendCompleted(r) == IF r.st.completed THEN r ELSE [Emit(r, End("completed")) EXCEPT !.st.completed = TRUE]

CloseAll(r) ==
  SendCompleted(Fold(CloseToolCall, CloseReasoning(CloseMessage(r)), [n \in 1 .. LastSlot + 1 |-> n - 1]))

(* Thinking between tags returns before the tools and the finish. *)
OpenAIToResponses(r, c) ==
  LET begun == MessageStart(r)
      says == EmitContent(c.text, ReasoningDelta(c.think, begun))
      used == IF c.tools = <<>> THEN says ELSE Fold(EmitToolCall, CloseMessage(says), c.tools)
  IN  IF c.text > 0 /\ begun.st.inThinking THEN says
      ELSE IF c.finish = "" THEN used ELSE CloseAll(used)

FlushEvents(st) == IF st.completed THEN Result(st) ELSE CloseAll(Result(st))

-----------------------------------------------------------------------------
(* A client of Chat Completions gets the chunks of the pivot; it reads the *)
(* entries of a tool call by their index.                                  *)
SendChunk(r, c) ==
  LET Say(kind, n, q) == IF n = Nothing THEN q ELSE Emit(q, Part(kind, n))
      Use(q, t) == Emit(q, Entry(t))
      said == Fold(Use, Say("text", c.text, Say("think", c.think, MessageStart(r))), c.tools)
  IN  IF c.finish = "" THEN said ELSE Emit(said, End(c.finish))

-----------------------------------------------------------------------------
(* claude-to-openai.js: events [type, index, kind, call, piece] *)

ClaudeToOpenAI(e, st) ==
  LET r == Result(st)
      tool == st.toolCalls[e.index]
      served == e.index = st.serverBlock
  IN  CASE e.type = "message_start" -> Emit([r EXCEPT !.st.toolIndex = 0], Chunk(Nothing, Nothing, <<>>, ""))
        [] e.type = "start" /\ e.kind = "server" -> [r EXCEPT !.st.serverBlock = e.index]
        [] e.type = "start" /\ e.kind = "think" -> Emit([r EXCEPT !.st.thinkingBlock = e.index], Says(OpenTag))
        [] e.type = "start" /\ e.kind = "call" ->
             Emit([r EXCEPT !.st.toolCalls[e.index] = [call |-> e.call, at |-> st.toolIndex], !.st.toolIndex = @ + 1],
                  Uses(Tool(st.toolIndex, e.call, Nothing)))
        [] e.type = "delta" /\ ~served /\ e.kind = "text" -> Emit(r, Says(e.piece))
        [] e.type = "delta" /\ ~served /\ e.kind = "think" -> Emit(r, Thinks(e.piece))
        [] e.type = "delta" /\ ~served /\ e.kind = "call" /\ tool # NoTool ->
             Emit(r, Uses(Tool(tool.at, tool.call, e.piece)))
        [] e.type = "stop" /\ served -> [r EXCEPT !.st.serverBlock = NoBlock]
        [] e.type = "stop" /\ ~served /\ e.index = st.thinkingBlock ->
             Emit([r EXCEPT !.st.thinkingBlock = NoBlock], Says(CloseTag))
        [] e.type = "message_delta" -> Emit([r EXCEPT !.st.finishSent = TRUE], Finishes(e.kind))
        [] e.type = "message_stop" /\ ~st.finishSent ->
             Emit([r EXCEPT !.st.finishSent = TRUE],
                  Finishes(IF \E i \in Slots : st.toolCalls[i] # NoTool THEN "tools" ELSE "stop"))
        [] OTHER -> r

-----------------------------------------------------------------------------
(* openai-responses.js: from the Responses API, events [type, call, piece] *)

ComputeFinishReason(st) == IF st.toolIndex > 0 \/ st.current # Nothing THEN "tools" ELSE "stop"

LastIndex(st) == IF st.toolIndex > 1 THEN st.toolIndex - 1 ELSE 0

(* Mutant: arguments go to the call that was opened last. *)
IndexByPosition(st, c) == LastIndex(st)

(* The item's index, and the last one's for an item that is not known. *)
IndexOf(st, c) == IF st.respIndex[c] # NoBlock THEN st.respIndex[c] ELSE LastIndex(st)

Added(c, st) ==
  LET new == st.respIndex[c] = NoBlock
      i == IF new THEN st.toolIndex ELSE st.respIndex[c]
  IN  Emit(Result([st EXCEPT !.current = c, !.respIndex[c] = i, !.toolIndex = IF new THEN @ + 1 ELSE @]),
           Uses(Tool(i, c, Nothing)))

Args(c, n, st) ==
  Emit(Result([st EXCEPT !.argsEmitted = @ \cup {IndexOf(st, c)}]), Uses(Tool(IndexOf(st, c), Nothing, n)))

(* Complete arguments count only where no delta came before. *)
ItemDone(c, n, st) == IF IndexOf(st, c) \in st.argsEmitted THEN Result(st) ELSE Args(c, n, st)

FinishOnce(st) ==
  IF st.finishSent THEN Result(st)
  ELSE Emit(Result([st EXCEPT !.finishSent = TRUE]), Finishes(ComputeFinishReason(st)))

Failed(n, st) ==
  IF st.finishSent THEN Result(st)
  ELSE Emit(Result([st EXCEPT !.finishSent = TRUE]), Chunk(Nothing, n, <<>>, "stop"))

ResponsesToOpenAI(e, st0) ==
  LET st == [st0 EXCEPT !.started = TRUE] IN
  CASE e.type = "text" -> Emit(Result(st), Says(e.piece))
    [] e.type = "think" -> Emit(Result(st), Thinks(e.piece))
    [] e.type = "added" -> Added(e.call, st)
    [] e.type = "args" -> Args(e.call, e.piece, st)
    [] e.type = "done" -> ItemDone(e.call, e.piece, st)
    [] e.type = "completed" -> FinishOnce(st)
    [] e.type = "failed" -> Failed(e.piece, st)
    [] OTHER -> Result(st)

-----------------------------------------------------------------------------
(* gemini-to-openai.js: events [parts, finish]; a call comes whole *)

(* Mutant: the calls are noted in the map the second hop uses. *)
GeminiPartInTheMap(r, p) ==
  CASE p.kind = "text" -> Emit(r, Says(p.piece))
    [] p.kind = "think" -> Emit(r, Thinks(p.piece))
    [] p.kind = "call" ->
         Emit([r EXCEPT !.st.functionIndex = @ + 1,
                        !.st.toolCalls[r.st.functionIndex] = [call |-> p.call, at |-> r.st.functionIndex]],
              Uses(Tool(r.st.functionIndex, p.call, p.piece)))

GeminiPart(r, p) ==
  CASE p.kind = "text" -> Emit(r, Says(p.piece))
    [] p.kind = "think" -> Emit(r, Thinks(p.piece))
    [] p.kind = "call" ->
         Emit([r EXCEPT !.st.functionIndex = @ + 1], Uses(Tool(r.st.functionIndex, p.call, p.piece)))

GeminiToOpenAI(e, st) ==
  LET parts == Fold(GeminiPart, Result(st), e.parts)
      reason == IF parts.st.functionIndex > 0 THEN "tools" ELSE "stop"
  IN  IF e.finish THEN Emit(parts, Finishes(reason)) ELSE parts

-----------------------------------------------------------------------------
(* translateResponse *)

ToOpenAI(up, e, st) ==
  CASE up \in {"openai", "kiro"} -> Emit(Result(st), e)
    [] up = "claude" -> ClaudeToOpenAI(e, st)
    [] up = "responses" -> ResponsesToOpenAI(e, st)
    [] up = "gemini" -> GeminiToOpenAI(e, st)

FromOpenAI(client, r, c) ==
  CASE client = "claude" -> OpenAIToClaude(r, c)
    [] client = "responses" -> OpenAIToResponses(r, c)
    [] client = "openai" -> SendChunk(r, c)

Translate(up, client, e, st) ==
  IF up = "kiro" /\ client = "claude" THEN KiroToClaude(Result(st), e)
  ELSE LET pivot == ToOpenAI(up, e, st)
           Second(r, c) == FromOpenAI(client, r, c)
       IN  Fold(Second, Result(pivot.st), pivot.out)

(* Mutant: only a client of the Responses API has its answer closed. *)
FlushNoChunk(up, client, st) ==
  IF up = "openai" /\ client = "responses" THEN FlushEvents(st) ELSE Result(st)

(* A stream's end is the chunk null.  Only the Responses hop makes a chunk *)
(* of it, and only a chunk, or null itself where there is no first hop,    *)
(* reaches the second hop.                                                 *)
Flush(up, client, st) ==
  CASE up = "responses" /\ st.started ->
         LET pivot == FinishOnce(st)
             Second(r, c) == FromOpenAI(client, r, c)
         IN  Fold(Second, Result(pivot.st), pivot.out)
    [] up = "openai" /\ client = "responses" -> FlushEvents(st)
    [] OTHER -> Result(st)

=============================================================================
