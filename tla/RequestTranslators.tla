--------------------------- MODULE RequestTranslators ---------------------------
(***************************************************************************)
(* The translators of requests: the conversation a client sends, in the    *)
(* format of the provider.                                                 *)
(*   open-sse/translator/index.js        translateRequest                  *)
(*   open-sse/translator/request/*.js    the hops to and from the messages *)
(*                                       of OpenAI Chat Completions        *)
(*   open-sse/translator/concerns        toolCall.js, kiroConversation.js  *)
(*   open-sse/translator/formats         claude.js, gemini.js, openai.js   *)
(*   open-sse/utils/kiroSessionReplay.js the first message of a session    *)
(*                                                                         *)
(* A message has a role and blocks: words, the use of a tool, the result   *)
(* of one.  In Chat Completions a result is a message with the role tool,  *)
(* in Claude's format a block of a user's message, in the Responses API    *)
(* every block is an item of its own.  Words and results are pieces told   *)
(* apart by a number; images, names, thinking and the system prompt are    *)
(* left out, and the ids in one conversation are distinct.                 *)
(***************************************************************************)
EXTENDS Integers, Sequences, SequencesExt

CONSTANT
  Unusable   \* calls whose tool is not declared or whose input does not parse

NoPiece == 0
NoUse == 0
Unknown == << >>   \* a session that has no start yet

Words(n) == [type |-> "words", use |-> NoUse, piece |-> n]
Use(c) == [type |-> "use", use |-> c, piece |-> NoPiece]
Answer(c, n) == [type |-> "answer", use |-> c, piece |-> n]

Turn(role, blocks) == [role |-> role, blocks |-> blocks]
Reply(c, n) == Turn("tool", <<Answer(c, n)>>)

OfType(types, m) == SelectSeq(m.blocks, LAMBDA b : b.type \in types)
NotOfType(types, m) == SelectSeq(m.blocks, LAMBDA b : b.type \notin types)
Has(type, m) == \E i \in DOMAIN m.blocks : m.blocks[i].type = type
UsesOf(m) == {m.blocks[i].use : i \in {j \in DOMAIN m.blocks : m.blocks[j].type = "use"}}
AnswersOf(m) == {m.blocks[i].use : i \in {j \in DOMAIN m.blocks : m.blocks[j].type = "answer"}}

(* Empty words are dropped wherever blocks are made of them. *)
Spoken(blocks) == SelectSeq(blocks, LAMBDA b : b.type = "words" => b.piece # NoPiece)
SideOf(m) == IF m.role \in {"assistant", "model"} THEN "assistant" ELSE "user"

(* One message of each run of messages with one role. *)
MergeSides(join(_, _), msgs) ==
  FoldLeft(LAMBDA acc, m : IF acc # <<>> /\ Last(acc).role = m.role
                           THEN [acc EXCEPT ![Len(acc)] = join(@, m)]
                           ELSE Append(acc, m),
           <<>>, msgs)
Joined(a, b) == [a EXCEPT !.blocks = @ \o b.blocks]

-----------------------------------------------------------------------------
(* concerns/toolCall.js: if none of the calls of a message is answered by  *)
(* the next one, all are, emptily.                                         *)

HasToolResults(m, uses) == m.role # "assistant" /\ AnswersOf(m) \cap uses # {}

(* Mutant: the last message is repaired, the others are not. *)
FixOnlyTheLast(msgs) ==
  FlattenSeq([i \in DOMAIN msgs |->
    <<msgs[i]>> \o
    (IF i = Len(msgs) - 1 /\ ~HasToolResults(msgs[i + 1], UsesOf(msgs[i]))
     THEN LET uses == OfType({"use"}, msgs[i]) IN [j \in DOMAIN uses |-> Reply(uses[j].use, NoPiece)]
     ELSE <<>>)])

FixMissingToolResponses(msgs) ==
  FlattenSeq([i \in DOMAIN msgs |->
    <<msgs[i]>> \o
    (IF i < Len(msgs) /\ ~HasToolResults(msgs[i + 1], UsesOf(msgs[i]))
     THEN LET uses == OfType({"use"}, msgs[i]) IN [j \in DOMAIN uses |-> Reply(uses[j].use, NoPiece)]
     ELSE <<>>)])

-----------------------------------------------------------------------------
(* request/claude-to-openai.js *)

ConvertClaudeMessage(m) ==
  LET words == OfType({"words"}, m)
      answers == OfType({"answer"}, m)
  IN  IF m.role = "tool" THEN <<Turn("user", <<Words(m.blocks[1].piece)>>)>>
      ELSE IF answers # <<>>
      THEN [i \in DOMAIN answers |-> Reply(answers[i].use, answers[i].piece)]
             \o (IF words # <<>> THEN <<Turn("user", words)>> ELSE <<>>)
      ELSE IF Has("use", m) THEN <<Turn("assistant", words \o OfType({"use"}, m))>>
      ELSE <<Turn(m.role, words)>>

(* The last of the replies that follow message i without a gap. *)
LastReply(msgs, i) ==
  CHOOSE j \in i..Len(msgs) :
    /\ \A k \in (i + 1)..j : msgs[k].role = "tool"
    /\ j = Len(msgs) \/ msgs[j + 1].role # "tool"

(* Every call that none of those replies answers is answered after them.   *)
FixMissingToolResponsesOpenAI(msgs) ==
  FlattenSeq([j \in DOMAIN msgs |->
    LET heads == {i \in 1..j : msgs[i].role = "assistant" /\ LastReply(msgs, i) = j}
        missing(i) == SelectSeq(OfType({"use"}, msgs[i]),
                                LAMBDA u : \A k \in (i + 1)..j : u.use \notin AnswersOf(msgs[k]))
    IN  <<msgs[j]>> \o
        (IF heads = {} THEN <<>>
         ELSE LET lost == missing(CHOOSE i \in heads : TRUE) IN [k \in DOMAIN lost |-> Reply(lost[k].use, NoPiece)])])

ClaudeToPivot(msgs) ==
  FixMissingToolResponsesOpenAI(FlattenSeq([i \in DOMAIN msgs |-> ConvertClaudeMessage(msgs[i])]))

-----------------------------------------------------------------------------
(* request/openai-to-claude.js: uses end a message, results get one of     *)
(* their own.                                                              *)

FlushMessage(acc) ==
  IF acc.parts = <<>> THEN acc
  ELSE [acc EXCEPT !.out = Append(@, Turn(acc.role, acc.parts)), !.parts = <<>>]

AddToClaude(acc, msg) ==
  LET m == [msg EXCEPT !.blocks = Spoken(@)]
      others == NotOfType({"answer"}, m)
      flushed == IF Has("answer", m) \/ acc.role # SideOf(m) THEN FlushMessage(acc) ELSE acc
  IN  IF Has("answer", m)
      THEN [out |-> Append(flushed.out, Turn("user", OfType({"answer"}, m))),
            role |-> IF others = <<>> THEN acc.role ELSE SideOf(m),
            parts |-> flushed.parts \o others]
      ELSE LET added == [flushed EXCEPT !.role = SideOf(m), !.parts = @ \o m.blocks] IN
           IF Has("use", m) THEN FlushMessage(added) ELSE added

PivotToClaude(msgs) ==
  FlushMessage(FoldLeft(AddToClaude, [out |-> <<>>, role |-> "none", parts |-> <<>>], msgs)).out

-----------------------------------------------------------------------------
(* formats/claude.js: what every request to an endpoint of Claude's format *)
(* goes through                                                            *)

(* A reply of Chat Completions has words, no blocks. *)
HasValidContent(m) ==
  IF m.role = "tool" THEN m.blocks[1].piece # NoPiece
  ELSE Spoken(m.blocks) # <<>>

(* Words after a use are dropped; messages of one role are merged, results *)
(* first.                                                                  *)
WithoutWordsAfterUse(m) ==
  LET uses == {i \in DOMAIN m.blocks : m.blocks[i].type = "use"} IN
  IF m.role # "assistant" THEN m
  ELSE [m EXCEPT !.blocks = FlattenSeq([i \in DOMAIN @ |->
          IF @[i].type = "words" /\ \E j \in uses : j < i THEN <<>> ELSE <<@[i]>>])]

JoinResultsFirst(a, b) ==
  LET both == Joined(a, b) IN [both EXCEPT !.blocks = OfType({"answer"}, both) \o NotOfType({"answer"}, both)]

FixToolUseOrdering(msgs) ==
  MergeSides(JoinResultsFirst, [i \in DOMAIN msgs |-> WithoutWordsAfterUse(msgs[i])])

PrepareClaudeRequest(msgs) ==
  FixToolUseOrdering(FlattenSeq([i \in DOMAIN msgs |->
    IF HasValidContent(msgs[i]) \/ (i = Len(msgs) /\ msgs[i].role = "assistant") THEN <<msgs[i]>> ELSE <<>>]))

-----------------------------------------------------------------------------
(* formats/openai.js *)
FilterToOpenAIFormat(msgs) ==
  SelectSeq(msgs, LAMBDA m : m.role = "tool" \/ Has("use", m) \/ Spoken(m.blocks) # <<>>)

-----------------------------------------------------------------------------
(* request/openai-responses.js, both ways.  The calls of a turn are        *)
(* separate items; they are gathered until another item comes.             *)

ResponsesToPivot(items) ==
  LET gather(acc, item) ==
        IF Has("use", item) /\ acc # <<>> /\ Has("use", Last(acc))
        THEN [acc EXCEPT ![Len(acc)] = Joined(@, item)]
        ELSE Append(acc, item)
  IN  FoldLeft(gather, <<>>, items)

PivotToResponses(msgs) ==
  FlattenSeq([i \in DOMAIN msgs |->
    LET m == msgs[i]
        words == OfType({"words"}, m)
        rest == NotOfType({"words"}, m)
    IN  (IF words = <<>> THEN <<>> ELSE <<Turn(m.role, words)>>)
          \o [j \in DOMAIN rest |-> Turn(m.role, <<rest[j]>>)]])

-----------------------------------------------------------------------------
(* request/openai-to-gemini.js: the results of a message's calls are       *)
(* looked up in the whole conversation and follow it.                      *)

Response(msgs, c) ==
  LET found == {i \in DOMAIN msgs : msgs[i].role = "tool" /\ c \in AnswersOf(msgs[i])}
  IN  IF found = {} THEN Answer(c, NoPiece) ELSE msgs[CHOOSE i \in found : TRUE].blocks[1]

HasResponse(msgs, c) == \E i \in DOMAIN msgs : msgs[i].role = "tool" /\ c \in AnswersOf(msgs[i])

GeminiContents(msgs, i) ==
  LET m == msgs[i]
      uses == OfType({"use"}, m)
      parts == Spoken(m.blocks)
      said(role, ps) == IF ps = <<>> THEN <<>> ELSE <<Turn(role, ps)>>
      responds == i < Len(msgs) \/ \E c \in UsesOf(m) : HasResponse(msgs, c)
  IN  CASE m.role = "tool" -> <<>>
        [] m.role = "user" -> said("user", m.blocks)
        [] m.role = "assistant" ->
             said("model", parts)
               \o (IF responds THEN said("user", [j \in DOMAIN uses |-> Response(msgs, uses[j].use)]) ELSE <<>>)

NormalizeGeminiContents(contents) ==
  LET out == MergeSides(Joined, contents) IN
  IF out # <<>> /\ out[1].role # "user" THEN <<Turn("user", <<>>)>> \o out ELSE out

PivotToGemini(msgs) == NormalizeGeminiContents(FlattenSeq([i \in DOMAIN msgs |-> GeminiContents(msgs, i)]))

-----------------------------------------------------------------------------
(* request/openai-to-kiro.js, claude-to-kiro.js: turns of one side; uses   *)
(* end a turn.  The last one is the current message.                       *)

FlushPending(acc) ==
  IF acc.role = "none" THEN acc
  ELSE [out |-> Append(acc.out, Turn(acc.role, acc.blocks)), role |-> "none", blocks |-> <<>>]

AddToKiro(acc, msg) ==
  LET m == [msg EXCEPT !.role = SideOf(msg), !.blocks = Spoken(@)]
      flushed == IF acc.role # m.role THEN FlushPending(acc) ELSE acc
      added == [flushed EXCEPT !.role = m.role, !.blocks = @ \o m.blocks]
  IN  IF Has("use", m) THEN FlushPending(added) ELSE added

KiroTurns(msgs) == FlushPending(FoldLeft(AddToKiro, [out |-> <<>>, role |-> "none", blocks |-> <<>>], msgs)).out

(* utils/kiroSessionReplay.js: the first message of a session is sent as   *)
(* it was, whatever the client sends later; if it has no place, it gets    *)
(* one in front.  The result: the turns, and the session's start.          *)

(* Mutant: results in the first message do not keep it from being replaced. *)
CanReplaceAnyStart(history) == history # <<>> /\ history[1].role = "user"

CanReplaceSessionStart(history) ==
  history # <<>> /\ history[1].role = "user" /\ ~Has("answer", history[1])

ReplaySessionStart(turns, start) ==
  LET history == Front(turns)
      current == Last(turns)
      inFront == IF history = <<>> THEN <<start[1], Turn("assistant", <<>>)>> ELSE <<start[1]>> \o history
      replayed == IF CanReplaceSessionStart(history) THEN [history EXCEPT ![1] = start[1]] ELSE inFront
      nothing == Turn("user", <<>>)
  IN  IF start # Unknown THEN [turns |-> Append(replayed, current), start |-> start]
      ELSE IF CanReplaceSessionStart(history) THEN [turns |-> turns, start |-> <<history[1]>>]
      ELSE IF \E i \in DOMAIN history : history[i].role = "user"
      THEN [turns |-> <<nothing>> \o turns, start |-> <<nothing>>]
      ELSE [turns |-> turns, start |-> <<current>>]

(* concerns/kiroConversation.js: turns alternate; a call is kept with its  *)
(* result in the next turn, or else told in words, as is a result without  *)
(* its call.                                                               *)
NormalizeTurns(turns) ==
  LET merged == MergeSides(Joined, turns)
      led == IF merged # <<>> /\ merged[1].role = "assistant" THEN <<Turn("user", <<>>)>> \o merged ELSE merged
  IN  IF led = <<>> \/ Last(led).role = "assistant" THEN Append(led, Turn("user", <<>>)) ELSE led

ToldIn(blocks, told(_)) == [k \in DOMAIN blocks |-> IF told(blocks[k]) THEN [blocks[k] EXCEPT !.type = "told"] ELSE blocks[k]]

CanonicalizeKiroConversation(turns) ==
  LET t == NormalizeTurns(turns)
      kept(i) == IF i \in 2..(Len(t) - 1) THEN (UsesOf(t[i]) \cap AnswersOf(t[i + 1])) \ Unusable ELSE {}
  IN  [i \in DOMAIN t |->
        [t[i] EXCEPT !.blocks = ToldIn(@, LAMBDA b : \/ b.type = "use" /\ b.use \notin kept(i)
                                                     \/ b.type = "answer" /\ b.use \notin kept(i - 1))]]

-----------------------------------------------------------------------------
(* translateRequest.  The start of a session matters to Kiro alone. *)

ToPivot(client, msgs) ==
  CASE client = "claude" -> ClaudeToPivot(msgs)
    [] client = "responses" -> ResponsesToPivot(msgs)
    [] client = "openai" -> msgs

FromPivot(up, msgs) ==
  CASE up = "claude" -> PivotToClaude(msgs)
    [] up = "responses" -> PivotToResponses(msgs)
    [] up = "gemini" -> PivotToGemini(msgs)
    [] up = "openai" -> msgs

TranslateRequest(client, up, chat, start) ==
  LET (* Kiro's repair is its own; the Responses API has no messages. *)
      msgs == IF up = "kiro" \/ client = "responses" THEN chat ELSE FixMissingToolResponses(chat)
      hops == IF client = up THEN msgs ELSE FromPivot(up, ToPivot(client, msgs))
      kiro == ReplaySessionStart(KiroTurns(IF client = "claude" THEN msgs ELSE ToPivot(client, msgs)), start)
  IN  CASE up = "kiro" -> [kiro EXCEPT !.turns = CanonicalizeKiroConversation(@)]
        [] up = "openai" -> [turns |-> FilterToOpenAIFormat(hops), start |-> start]
        [] up = "claude" -> [turns |-> PrepareClaudeRequest(hops), start |-> start]
        [] OTHER -> [turns |-> hops, start |-> start]

=============================================================================
