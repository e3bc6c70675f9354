--------------------------- MODULE RequestTranslation ---------------------------
(***************************************************************************)
(* A conversation and the requests that carry it to a provider.  The       *)
(* client (external) keeps the conversation: the user speaks, the model    *)
(* answers with words and calls of tools, the client answers all, some or  *)
(* none of them, goes on, sends again, edits or compacts what was said.    *)
(* The router (RequestTranslators) translates the whole of it each time,   *)
(* and remembers nothing but the start of a session with Kiro.             *)
(***************************************************************************)
EXTENDS RequestTranslators, FiniteSets

CONSTANTS
  Routes,    \* pairs of formats: the client's, the provider's
  MaxTurns,  \* bound on what is said
  MaxCalls,  \* calls in one answer of the model
  MaxRewrites

ASSUME RequestAssumption ==
  /\ Routes \subseteq {"openai", "claude", "responses"} \X {"openai", "claude", "responses", "gemini", "kiro"}
  /\ MaxTurns \in Nat /\ MaxCalls \in Nat /\ MaxRewrites \in Nat

VARIABLES
  sourceFormat, targetFormat,
  chat,         \* the conversation, in the client's format
  turns,        \* what has been said so far: numbers the pieces
  calls,        \* the calls made so far
  sessionStart, \* sessionStartStore, of this session: << >> or the first message
  rewrites,     \* how often the client has rewritten what was said
  request       \* the conversation as last sent, << >> after it has changed

requestVars == <<sourceFormat, targetFormat, chat, turns, calls, sessionStart, rewrites, request>>

ChatInit ==
  /\ \E r \in Routes : sourceFormat = r[1] /\ targetFormat = r[2]
  /\ chat = <<>> /\ turns = 0 /\ calls = 0
  /\ sessionStart = Unknown
  /\ rewrites = 0
  /\ request = <<>>

Side(m) == [m EXCEPT !.role = SideOf(m)]
Sides(conversation) == MergeSides(Joined, [i \in DOMAIN conversation |-> Side(conversation[i])])

ChatTypeOK ==
  /\ <<sourceFormat, targetFormat>> \in Routes
  /\ turns \in 0..MaxTurns /\ calls \in 0..(MaxTurns * MaxCalls)
  /\ Len(sessionStart) <= 1
  /\ rewrites \in 0..MaxRewrites
  /\ \A i \in DOMAIN chat : chat[i].role \in {"user", "assistant", "tool"} /\ chat[i].blocks # <<>>

-----------------------------------------------------------------------------
(* The client *)

Fresh == turns + 1
Say(messages) ==
  /\ turns < MaxTurns /\ turns' = Fresh
  /\ chat' = chat \o messages
  /\ request' = <<>>
  /\ UNCHANGED <<sourceFormat, targetFormat, sessionStart, rewrites>>

(* Blocks of one turn, as the format has them. *)
AsMessages(role, blocks) ==
  IF sourceFormat = "responses" \/ role = "tool"
  THEN [i \in DOMAIN blocks |-> Turn(role, <<blocks[i]>>)]
  ELSE <<Turn(role, blocks)>>

UserSays ==
  /\ Say(AsMessages("user", <<Words(Fresh)>>))
  /\ UNCHANGED calls

Sendable == chat # <<>> /\ SideOf(Last(chat)) = "user"

ModelAnswers ==
  /\ Sendable
  /\ \E n \in 0..MaxCalls, speaks \in BOOLEAN :
       /\ n > 0 \/ speaks
       /\ Say(AsMessages("assistant", (IF speaks THEN <<Words(Fresh)>> ELSE <<>>) \o [i \in 1..n |-> Use(calls + i)]))
       /\ calls' = calls + n

Pending == UsesOf(Last(Sides(chat)))

(* The results of some of the calls, in any order; a client of Claude's    *)
(* format may add words to them.                                           *)
ClientAnswers ==
  /\ chat # <<>> /\ Pending # {}
  /\ \E s \in {t \in UNION {[1..n -> Pending] : n \in 1..Cardinality(Pending)} :
                 \A i, j \in DOMAIN t : t[i] = t[j] => i = j},
        adds \in BOOLEAN :
       LET results == [i \in DOMAIN s |-> Answer(s[i], MaxTurns + s[i])] IN
       /\ adds => sourceFormat = "claude"
       /\ Say(IF sourceFormat = "claude"
              THEN <<Turn("user", results \o (IF adds THEN <<Words(Fresh)>> ELSE <<>>))>>
              ELSE AsMessages("tool", results))
  /\ UNCHANGED calls

(* The client edits or compacts the beginning, or drops it. *)
Rewrites ==
  /\ rewrites < MaxRewrites
  /\ \E k \in 1..(Len(chat) - 1) :
       LET rest == SubSeq(chat, k + 1, Len(chat)) IN
       \/ chat' = rest /\ UNCHANGED turns
       \/ /\ turns < MaxTurns /\ turns' = Fresh
          /\ chat' = <<Turn("user", <<Words(Fresh)>>)>> \o rest
  /\ rewrites' = rewrites + 1
  /\ request' = <<>>
  /\ UNCHANGED <<sourceFormat, targetFormat, calls, sessionStart>>

-----------------------------------------------------------------------------
(* The router *)

Sends ==
  /\ Sendable
  /\ LET r == TranslateRequest(sourceFormat, targetFormat, chat, sessionStart) IN
     /\ request' = r.turns
     /\ sessionStart' = r.start
  /\ UNCHANGED <<sourceFormat, targetFormat, chat, turns, calls, rewrites>>

(* The start of a session is dropped after two hours, when the store is    *)
(* full or the process restarts, and replaced when model or system prompt  *)
(* change.                                                                 *)
SessionExpires ==
  /\ sessionStart # Unknown
  /\ sessionStart' = Unknown
  /\ request' = <<>>
  /\ UNCHANGED <<sourceFormat, targetFormat, chat, turns, calls, rewrites>>

ChatNext == UserSays \/ ModelAnswers \/ ClientAnswers \/ Rewrites \/ Sends \/ SessionExpires

ChatSpec == ChatInit /\ [][ChatNext]_requestVars

-----------------------------------------------------------------------------
(* What can be wrong with the calls and results of a conversation *)

Faults(conversation) ==
  LET s == Sides(conversation)
      uses(i) == IF i \in DOMAIN s THEN UsesOf(s[i]) ELSE {}
  IN  UNION { (IF uses(i - 1) \cap AnswersOf(s[i]) = {} /\ uses(i - 1) # {} THEN {"unanswered"} ELSE {})
                \cup (IF uses(i - 1) \cap AnswersOf(s[i]) \notin {{}, uses(i - 1)} THEN {"in part"} ELSE {})
                \cup (IF AnswersOf(s[i]) \subseteq uses(i - 1) THEN {} ELSE {"orphan"})
              : i \in {j \in DOMAIN s : s[j].role = "user"} }

(* What the translation mends, whichever way it goes. *)
Mended ==
  CASE targetFormat \in {"gemini", "kiro"} -> {"unanswered", "in part", "orphan"}
    [] sourceFormat = "claude" /\ targetFormat \in {"openai", "responses"} -> {"unanswered", "in part"}
    [] sourceFormat = "openai" -> {"unanswered"}
    [] OTHER -> {}

BlocksOf(conversation) == FlattenSeq([i \in DOMAIN conversation |-> conversation[i].blocks])
Once(type, conversation) ==
  LET bs == SelectSeq(BlocksOf(conversation), LAMBDA b : b.type = type) IN
  \A i, j \in DOMAIN bs : bs[i].use = bs[j].use => i = j
ResultsFirst(conversation) ==
  \A m \in ToSet(Sides(conversation)) : \A i, j \in DOMAIN m.blocks :
    m.blocks[i].type = "words" /\ m.blocks[j].type = "answer" => j < i

(* A provider refuses a conversation in which a call of a tool is not      *)
(* answered by the next turn, or a result has no call before it.  Unless   *)
(* the client's own conversation has a fault that this way does not mend,  *)
(* every call is sent once, and answered once, right behind it.            *)
EveryCallIsPaired ==
  request # <<>> /\ Faults(chat) \subseteq Mended =>
    /\ Faults(request) = {}
    /\ Once("use", request) /\ Once("answer", request)
    /\ targetFormat \in {"openai", "claude", "gemini"} => ResultsFirst(request)

(* Claude, Gemini and Kiro take turns; Kiro and Gemini begin with a        *)
(* user's, and Kiro ends with one.                                         *)
TurnsAlternate ==
  request # <<>> =>
    /\ targetFormat \in {"claude", "gemini", "kiro"} =>
         \A i \in 1..(Len(request) - 1) : request[i].role # request[i + 1].role
    /\ targetFormat \in {"gemini", "kiro"} => request[1].role = "user"
    /\ targetFormat = "kiro" => Last(request).role = "user"

(* What a provider is sent is a conversation it accepts: its calls are      *)
(* answered where they must be, and its turns are in order.  The           *)
(* translators' repairs (fixMissingToolResponses, fixToolUseOrdering,      *)
(* reconcileToolPair) must add up to it, whatever the client had said.     *)
RequestIsWellFormed == EveryCallIsPaired /\ TurnsAlternate

PiecesOf(conversation) == {b.piece : b \in ToSet(BlocksOf(conversation))} \ {NoPiece}
WordsIn(conversation) ==
  LET w == SelectSeq(BlocksOf(conversation), LAMBDA b : b.type = "words" /\ b.piece # NoPiece) IN [i \in DOMAIN w |-> w[i].piece]
Orphans == {MaxTurns + c : c \in UNION {AnswersOf(m) : m \in ToSet(chat)} \ UNION {UsesOf(m) : m \in ToSet(chat)}}

(* What is lost by intention: Gemini is not sent results without a call,   *)
(* and Kiro gets the first turn of a session, unless it has results, as it *)
(* was when it began.                                                      *)
LeftOut ==
  CASE targetFormat = "gemini" -> Orphans
    [] targetFormat = "kiro" /\ sessionStart # Unknown /\ ~Has("answer", Sides(chat)[1]) ->
         PiecesOf(<<Sides(chat)[1]>>) \ PiecesOf(sessionStart)
    [] OTHER -> {}

(* Words, calls and results all reach the provider, words in their order,  *)
(* and nothing else is sent as if it had been said.                        *)
NothingIsLost ==
  request # <<>> =>
    /\ PiecesOf(chat) \ LeftOut \subseteq PiecesOf(request)
    /\ PiecesOf(request) \subseteq PiecesOf(chat) \cup PiecesOf(sessionStart)
    /\ UNION {UsesOf(m) : m \in ToSet(chat)} \subseteq {b.use : b \in ToSet(BlocksOf(request))}
    /\ targetFormat # "kiro" => WordsIn(request) = WordsIn(chat)

(* The direct route from Claude's format to Kiro's "is lossless"           *)
(* (translator/index.js:85): everything that was said reaches Kiro.        *)
KiroIsToldEverything ==
  request # <<>> /\ targetFormat = "kiro" => PiecesOf(chat) \subseteq PiecesOf(request)

=============================================================================
