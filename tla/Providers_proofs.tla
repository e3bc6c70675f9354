--------------------------- MODULE Providers_proofs ---------------------------
(***************************************************************************)
(* Proofs about the two modules of one provider each.  KiroIntegrity: for  *)
(* any set of tool calls and any number of events.  AntigravityQuota: for  *)
(* any requests, models and reset times and any lengths of the intervals.  *)
(*                                                                         *)
(* What a judged attempt says is decided by stop alone, the one reason     *)
(* that is left of all reasons heard, so the argument is about the merge:  *)
(* stop is one of the reasons and none is more severe (StopRules).  With   *)
(* it, the three properties follow from what CleanVerdict computes, which  *)
(* JudgedRules keeps true of every attempt that has been read to its end.  *)
(*                                                                         *)
(* The breaker's properties relate what it counts to what has happened:    *)
(* StrikeRules says that behind every strike is a refusal no older than    *)
(* the window's start, BlockRules that the cache and the blocks agree.     *)
(***************************************************************************)
EXTENDS KiroIntegrity, AntigravityQuota, TLAPS

(* The parts of the inductive invariant, besides type correctness. *)
StopRules ==
  /\ stop = "none" => reasons = {}
  /\ stop # "none" => stop \in reasons
  /\ \A r \in reasons : Severity(r) <= Severity(stop)

ReadRules ==
  /\ text # <<>> => emitted
  /\ \A t \in Tools : tools[t] # "absent" => sawTool

JudgedRules ==
  /\ eof => verdict = CleanVerdict
  /\ verdict = "complete" => eof
  /\ phase = "reading" => ~eof /\ verdict = "none"
  /\ phase \in {"retrying", "failed"} => verdict # "complete"
  /\ phase = "answered" => verdict = "complete" /\ finish = FinishReason

IInv == TypeOK /\ StopRules /\ ReadRules /\ JudgedRules

-----------------------------------------------------------------------------
(* What appending and merging do. *)

LEMMA SeverityIsNat ==
  ASSUME NEW r \in StopReasons \cup {"none"}
  PROVE  Severity(r) \in 1..6
BY DEF Severity, StopReasons, Truncations

LEMMA MergeType ==
  ASSUME NEW c \in StopReasons \cup {"none"}, NEW r \in StopReasons
  PROVE  Merge(c, r) \in {c, r} \ {"none"}
BY DEF Merge, StopReasons, Truncations

LEMMA MergeIsWorst ==
  ASSUME NEW c \in StopReasons \cup {"none"}, NEW r \in StopReasons
  PROVE  /\ Severity(r) <= Severity(Merge(c, r))
         /\ c # "none" => Severity(c) <= Severity(Merge(c, r))
<1>1. Severity(c) \in 1..6 /\ Severity(r) \in 1..6
  BY SeverityIsNat
<1>2. CASE c = "none" \/ Severity(r) > Severity(c)
  <2>1. Merge(c, r) = r
    BY <1>2 DEF Merge
  <2> QED BY <1>1, <1>2, <2>1
<1>3. CASE ~(c = "none" \/ Severity(r) > Severity(c))
  <2>1. Merge(c, r) = c
    BY <1>3 DEF Merge
  <2> QED BY <1>1, <1>3, <2>1
<1> QED BY <1>2, <1>3

LEMMA AppendPieceType ==
  ASSUME NEW h \in Buffered, NEW p \in Pieces
  PROVE  AppendPiece(h, p) \in Buffered
BY DEF AppendPiece, Buffered, Pieces, Objects

LEMMA FinishReasonType == FinishReason \in {"stop", "length", "tool_calls"}
BY DEF FinishReason

Verdicts == {"none", "complete", "terminal_stop", "upstream_error", "invalid_tool",
             "retryable_stop", "missing_terminal", "ellipsis", "short_final"}

LEMMA CleanVerdictType == CleanVerdict \in Verdicts \ {"none"}
BY DEF CleanVerdict, StopFault, Verdicts

-----------------------------------------------------------------------------
(* The groups of actions, by what they leave alone. *)

LEMMA NothingRead ==
  /\ <<>> \in Seq({"real", "dots", "intent"}) /\ <<>> \in Seq({"real", "dots"})
  /\ NoCalls \in [Tools -> Buffered]
  /\ 0 \in 0..MaxEvents
BY KiroAssumption DEF NoCalls, Buffered

LEMMA InitIInv == Init => IInv
<1> SUFFICES ASSUME Init PROVE IInv
  OBVIOUS
<1>1. TypeOK
  BY NothingRead DEF Init, TypeOK
<1>2. StopRules /\ ReadRules /\ JudgedRules
  BY DEF Init, StopRules, ReadRules, JudgedRules, NoCalls
<1> QED BY <1>1, <1>2 DEF IInv

LEMMA HearKeepsJudgedRules ==
  ASSUME JudgedRules, Hear
  PROVE  JudgedRules' /\ phase' = "reading" /\ heard' = heard + 1 /\ heard < MaxEvents
BY DEF JudgedRules, Hear, gate

(* An event that leaves the tools and the stop reasons alone. *)
LEMMA SpokenEvent ==
  ASSUME IInv, Hear, UNCHANGED <<calls, stops>>,
         text' \in Seq({"real", "dots", "intent"}), reasoning' \in Seq({"real", "dots"}),
         hidden' \in BOOLEAN, emitted' \in BOOLEAN,
         text' # <<>> => emitted'
  PROVE  IInv'
<1>1. JudgedRules' /\ heard' \in 0..MaxEvents
  BY HearKeepsJudgedRules, KiroAssumption DEF IInv, TypeOK
<1>2. TypeOK'
  BY <1>1 DEF IInv, TypeOK, Hear, gate, calls, stops
<1>3. StopRules'
  BY DEF IInv, StopRules, calls, stops, Severity
<1>4. ReadRules'
  BY DEF IInv, ReadRules, calls, stops
<1> QED BY <1>1, <1>2, <1>3, <1>4 DEF IInv

LEMMA TextStep ==
  ASSUME IInv, NEW p \in {"real", "dots", "intent"}, Text(p)
  PROVE  IInv'
<1>1. text' \in Seq({"real", "dots", "intent"})
  BY DEF IInv, TypeOK, Text
<1>2. emitted' \in BOOLEAN /\ (text' # <<>> => emitted')
  BY DEF IInv, TypeOK, ReadRules, Text
<1> QED BY <1>1, <1>2, SpokenEvent DEF Text, IInv, TypeOK

LEMMA ThinkingStep ==
  ASSUME IInv, NEW o \in BOOLEAN, Thinking(o)
  PROVE  IInv'
<1>1. emitted' \in BOOLEAN /\ (text' # <<>> => emitted')
  BY DEF IInv, TypeOK, ReadRules, Thinking
<1> QED BY <1>1, SpokenEvent DEF Thinking, IInv, TypeOK

LEMMA ReasoningStep ==
  ASSUME IInv, NEW p \in {"real", "dots"}, Reasoning(p)
  PROVE  IInv'
<1>1. reasoning' \in Seq({"real", "dots"})
  BY DEF IInv, TypeOK, Reasoning
<1> QED BY <1>1, SpokenEvent DEF Reasoning, IInv, TypeOK

LEMMA CodeStep ==
  ASSUME IInv, NEW p \in {"real", "dots", "intent"}, Code(p)
  PROVE  IInv'
<1>1. text' \in Seq({"real", "dots", "intent"})
  BY DEF IInv, TypeOK, Code
<1> QED BY <1>1, SpokenEvent DEF Code, IInv, TypeOK

LEMMA ToolStep ==
  ASSUME IInv, NEW t \in Tools, NEW p \in Pieces, ToolPiece(t, p)
  PROVE  IInv'
<1> USE DEF ToolPiece
<1>1. JudgedRules' /\ heard' \in 0..MaxEvents
  BY HearKeepsJudgedRules, KiroAssumption DEF IInv, TypeOK
<1>2. tools[t] \in Buffered
  BY DEF IInv, TypeOK
<1>3. tools' \in [Tools -> Buffered]
  <2>1. CASE Throws(tools[t], p)
    BY <1>2, <2>1 DEF IInv, TypeOK, Buffered
  <2>2. CASE ~Throws(tools[t], p)
    BY <1>2, <2>2, AppendPieceType DEF IInv, TypeOK
  <2> QED BY <2>1, <2>2
<1>4. toolError' \in BOOLEAN
  BY DEF IInv, TypeOK, Throws
<1>5. TypeOK'
  BY <1>1, <1>3, <1>4 DEF IInv, TypeOK, Hear, gate, said, stops
<1>6. StopRules'
  BY DEF IInv, StopRules, stops, Severity
<1>7. ReadRules'
  BY DEF IInv, ReadRules, said
<1> QED BY <1>1, <1>5, <1>6, <1>7 DEF IInv

LEMMA StopStep ==
  ASSUME IInv, NEW r \in StopReasons, StopIs(r)
  PROVE  IInv'
<1> USE DEF StopIs
<1>1. JudgedRules' /\ heard' \in 0..MaxEvents
  BY HearKeepsJudgedRules, KiroAssumption DEF IInv, TypeOK
<1>2. stop \in StopReasons \cup {"none"} /\ reasons \subseteq StopReasons
  BY DEF IInv, TypeOK
<1>3. stop' \in {stop, r} \ {"none"}
  BY <1>2, MergeType
<1>4. TypeOK'
  BY <1>1, <1>2, <1>3 DEF IInv, TypeOK, Hear, gate, said, calls
<1>5. StopRules'
  <2>1. stop' \in reasons'
    BY <1>2, <1>3 DEF IInv, StopRules
  <2>2. ASSUME NEW q \in reasons' PROVE Severity(q) <= Severity(stop')
    <3>1. CASE q = r
      BY <1>2, <3>1, MergeIsWorst
    <3>2. CASE q \in reasons
      <4>1. stop # "none" /\ Severity(q) <= Severity(stop)
        BY <3>2 DEF IInv, StopRules
      <4>2. Severity(stop) <= Severity(stop')
        BY <1>2, <4>1, MergeIsWorst
      <4>3. Severity(q) \in 1..6 /\ Severity(stop) \in 1..6 /\ Severity(stop') \in 1..6
        BY <1>2, <1>3, <3>2, SeverityIsNat
      <4> QED BY <4>1, <4>2, <4>3
    <3> QED BY <3>1, <3>2
  <2>3. (\A q \in reasons : Severity(q) <= Severity(stop))'
    BY <2>2 DEF Severity
  <2> QED BY <1>3, <2>1, <2>3 DEF StopRules
<1>6. ReadRules'
  BY DEF IInv, ReadRules, said, calls
<1> QED BY <1>1, <1>4, <1>5, <1>6 DEF IInv

-----------------------------------------------------------------------------
(* From the end of the stream on, what has been read stays as it is. *)

LEMMA SettledVerdict ==
  ASSUME UNCHANGED <<said, calls, stops>>
  PROVE  CleanVerdict' = CleanVerdict /\ FinishReason' = FinishReason
BY DEF said, calls, stops, CleanVerdict, FinishReason, Fails, Kept, StopFault, Declared, Final,
       Output, Disposition, Calls, Dropped, NothingSaid, EllipsisOnly, FutureAction

LEMMA SettledRules ==
  ASSUME IInv, UNCHANGED <<said, calls, stops>>
  PROVE  StopRules' /\ ReadRules'
BY DEF IInv, StopRules, ReadRules, said, calls, stops, Severity

LEMMA EndStep ==
  ASSUME IInv, End
  PROVE  IInv'
<1> USE DEF End, CleanEnd, ErrorFrame, Broken, TooLong, Silence, Judge
<1>1. UNCHANGED <<said, calls, stops, repair, attempt, finish, heard>> /\ phase' = "judged"
  OBVIOUS
<1>2. StopRules' /\ ReadRules'
  BY <1>1, SettledRules
<1>3. /\ verdict' \in Verdicts /\ eof' \in BOOLEAN
      /\ eof' => verdict' = CleanVerdict
      /\ verdict' = "complete" => eof'
  <2>1. eof = FALSE
    BY DEF IInv, TypeOK, JudgedRules
  <2>2. CASE CleanEnd
    BY <2>2, CleanVerdictType
  <2>3. CASE ErrorFrame \/ Broken \/ TooLong \/ Silence
    <3>1. verdict' \in Verdicts \ {"complete"}
      BY <2>3 DEF Verdicts
    <3>2. eof' = FALSE
      BY <2>1, <2>3
    <3> QED BY <3>1, <3>2
  <2> QED BY <2>2, <2>3
<1>4. JudgedRules'
  BY <1>1, <1>3, SettledVerdict DEF JudgedRules
<1>5. TypeOK'
  BY <1>1, <1>3 DEF IInv, TypeOK, Verdicts, said, calls, stops
<1> QED BY <1>2, <1>4, <1>5 DEF IInv

LEMMA RecoverStep ==
  ASSUME IInv, Recover \/ RetryRefused \/ Abort
  PROVE  IInv'
<1>1. UNCHANGED <<said, calls, stops, repair, attempt, verdict, heard, eof>>
  BY DEF Recover, Release, Fail, Retry, RetryRefused, Abort, gate
<1>2. StopRules' /\ ReadRules'
  BY <1>1, SettledRules
<1>3. phase' \in {"answered", "failed", "retrying", "aborted"} /\ finish' \in {finish, FinishReason}
  BY DEF Recover, Release, Fail, Retry, RetryRefused, Abort, gate
<1>4. /\ phase' \in {"retrying", "failed"} => verdict # "complete"
      /\ phase' = "answered" => verdict = "complete" /\ finish' = FinishReason
  BY DEF IInv, JudgedRules, Recover, Release, Fail, Retry, RetryRefused, Abort, gate
<1>5. JudgedRules'
  BY <1>1, <1>3, <1>4, SettledVerdict DEF IInv, JudgedRules
<1>6. TypeOK'
  BY <1>1, <1>3, FinishReasonType DEF IInv, TypeOK, said, calls, stops
<1> QED BY <1>2, <1>5, <1>6 DEF IInv

LEMMA RereadStep ==
  ASSUME IInv, RetryAnswers
  PROVE  IInv'
<1> USE DEF RetryAnswers, Reread
<1>1. TypeOK'
  BY NothingRead DEF IInv, TypeOK
<1>2. StopRules' /\ ReadRules' /\ JudgedRules'
  BY DEF StopRules, ReadRules, JudgedRules, NoCalls
<1> QED BY <1>1, <1>2 DEF IInv

LEMMA NextIInv == IInv /\ [Next]_vars => IInv'
<1> SUFFICES ASSUME IInv, [Next]_vars PROVE IInv'
  OBVIOUS
<1>1. CASE Event
  <2>1. ASSUME NEW p \in {"real", "dots", "intent"}, Text(p) \/ Code(p) PROVE IInv'
    BY <2>1, TextStep, CodeStep
  <2>2. ASSUME NEW t \in Tools, NEW p \in Pieces, ToolPiece(t, p) PROVE IInv'
    BY <2>2, ToolStep
  <2>3. ASSUME MessageStop PROVE IInv'
    BY <2>3, StopStep DEF MessageStop, StopReasons
  <2>4. ASSUME NEW r \in StopReasons, Metadata(r) PROVE IInv'
    BY <2>4, StopStep DEF Metadata
  <2> QED BY <1>1, <2>1, <2>2, <2>3, <2>4, ThinkingStep, ReasoningStep DEF Event
<1>2. CASE End
  BY <1>2, EndStep
<1>3. CASE Recover \/ RetryRefused \/ Abort
  BY <1>3, RecoverStep
<1>4. CASE RetryAnswers
  BY <1>4, RereadStep
<1>5. CASE UNCHANGED vars
  <2>1. UNCHANGED <<said, calls, stops, gate, phase, heard, eof>>
    BY <1>5 DEF vars
  <2>2. StopRules' /\ ReadRules'
    BY <2>1, SettledRules
  <2>3. JudgedRules'
    BY <2>1, SettledVerdict DEF IInv, JudgedRules, gate
  <2>4. TypeOK'
    BY <2>1 DEF IInv, TypeOK, said, calls, stops, gate
  <2> QED BY <2>2, <2>3, <2>4 DEF IInv
<1> QED BY <1>1, <1>2, <1>3, <1>4, <1>5 DEF Next

THEOREM SpecIInv == Spec => []IInv
<1>1. Init => IInv
  BY InitIInv
<1>2. IInv /\ [Next]_vars => IInv'
  BY NextIInv
<1> QED BY <1>1, <1>2, PTL DEF Spec

-----------------------------------------------------------------------------
(* What the judgement guarantees. *)

LEMMA CallsWereSeen ==
  ASSUME ReadRules, Calls # {}
  PROVE  sawTool
BY DEF ReadRules, Calls, Usable

LEMMA RefusalFails ==
  ASSUME IInv, "refusal" \in reasons
  PROVE  CleanVerdict # "complete"
<1>1. stop \in StopReasons \cup {"none"} /\ Severity("refusal") <= Severity(stop)
  BY DEF IInv, TypeOK, StopRules
<1>2. stop = "refusal"
  BY <1>1 DEF Severity, StopReasons, Truncations
<1>3. Fails(Declared, emitted)
  BY <1>2 DEF Fails, Bad, Declared, Disposition, Kept, Truncations
<1> QED BY <1>3 DEF CleanVerdict, StopFault

LEMMA TextIsKept ==
  ASSUME IInv, reasons \subseteq {"end_turn", "tool_use"} \cup Truncations,
         NEW i \in DOMAIN text, text[i] = "real"
  PROVE  CleanVerdict = "complete"
<1>1. text # <<>> /\ emitted
  BY DEF IInv, TypeOK, ReadRules
<1>2. stop \in {"none", "end_turn", "tool_use"} \cup Truncations
  BY DEF IInv, StopRules
<1>3. ~Fails(Declared, emitted) /\ ~Fails(Final, Output)
  BY <1>1, <1>2 DEF Fails, Bad, Kept, Declared, Final, Output, Disposition, Truncations
<1>4. ~NothingSaid
  BY <1>1 DEF NothingSaid
<1>5. ~EllipsisOnly
  BY <1>1 DEF EllipsisOnly
<1>6. ~FutureAction
  BY DEF FutureAction
<1> QED BY <1>3, <1>4, <1>5, <1>6 DEF CleanVerdict

LEMMA CallIsKept ==
  ASSUME IInv, reasons \subseteq {"end_turn", "tool_use"}, Calls # {}
  PROVE  CleanVerdict = "complete"
<1>1. sawTool
  BY CallsWereSeen DEF IInv
<1>2. stop \in {"none", "end_turn", "tool_use"}
  BY DEF IInv, StopRules
<1>3. ~Fails(Declared, emitted) /\ ~Fails(Final, Output)
  BY <1>1, <1>2 DEF Fails, Bad, Declared, Final, Disposition
<1> QED BY <1>3 DEF CleanVerdict

LEMMA AnswerIsTold ==
  ASSUME IInv, CleanVerdict = "complete"
  PROVE  /\ FinishReason = "length" <=> reasons \cap Truncations # {}
         /\ FinishReason = "tool_calls" => Calls # {}
<1>1. ~Fails(Declared, emitted)
  BY DEF CleanVerdict, StopFault
<1>2. stop \in StopReasons \cup {"none"} /\ reasons \subseteq StopReasons
  BY DEF IInv, TypeOK
<1>3. stop \notin {"refusal", "cancelled", "other", "malformed"}
  BY <1>1 DEF Fails, Bad, Kept, Declared, Disposition, Truncations
<1>4. stop \in Truncations => FinishReason = "length"
  <2>1. CASE stop = "max_tokens" /\ Calls = {}
    BY <2>1 DEF FinishReason, Kept, Final, Disposition, Truncations
  <2>2. CASE stop = "max_tokens" /\ Calls # {}
    <3>1. sawTool /\ Declared = "incomplete"
      BY <2>2, CallsWereSeen DEF IInv, Declared, Disposition
    <3>2. emitted
      BY <1>1, <3>1 DEF Fails, Bad, Kept
    <3> QED BY <2>2, <3>2 DEF FinishReason, Kept, Final, Output, Disposition, Truncations
  <2>3. CASE stop = "context_window_exceeded"
    <3>1. emitted
      BY <1>1, <2>3 DEF Fails, Bad, Kept, Declared, Disposition
    <3> QED BY <2>3, <3>1 DEF FinishReason, Kept, Final, Output, Disposition, Truncations
  <2> QED BY <2>1, <2>2, <2>3 DEF Truncations
<1>5. stop \notin Truncations => FinishReason # "length"
  BY <1>2, <1>3 DEF FinishReason, Kept, Final, Disposition, StopReasons, Truncations
<1>6. stop \in Truncations => stop \in reasons
  BY DEF IInv, StopRules, Truncations
<1>7. ASSUME NEW r \in reasons \cap Truncations PROVE stop \in Truncations
  <2>1. Severity(r) <= Severity(stop)
    BY DEF IInv, StopRules
  <2>2. stop # "none"
    BY DEF IInv, StopRules
  <2> QED BY <1>2, <1>3, <2>1, <2>2 DEF Severity, StopReasons, Truncations
<1>8. FinishReason = "tool_calls" => Calls # {}
  BY DEF FinishReason
<1> QED BY <1>4, <1>5, <1>6, <1>7, <1>8

-----------------------------------------------------------------------------
(* Type correctness. *)
THEOREM SpecTypeOK == Spec => []TypeOK
<1>1. IInv => TypeOK
  BY DEF IInv
<1> QED BY <1>1, SpecIInv, PTL

(* An attempt that named a refusal is never an answer, in whatever order   *)
(* its stop reasons arrived.                                               *)
THEOREM SpecRefusalStaysPrivate == Spec => []RefusalStaysPrivate
<1>1. IInv => RefusalStaysPrivate
  BY RefusalFails DEF IInv, JudgedRules, RefusalStaysPrivate
<1> QED BY <1>1, SpecIInv, PTL

(* Text with a result and complete tool calls are kept. *)
THEOREM SpecUsableTurnIsKept == Spec => []UsableTurnIsKept
<1>1. ASSUME IInv, UsableTurn PROVE phase \notin {"retrying", "failed"}
  <2>1. CleanVerdict = "complete"
    BY <1>1, TextIsKept, CallIsKept DEF UsableTurn
  <2> QED BY <1>1, <2>1 DEF IInv, JudgedRules, UsableTurn
<1>2. IInv => UsableTurnIsKept
  BY <1>1 DEF UsableTurnIsKept
<1> QED BY <1>2, SpecIInv, PTL

(* An answer tells that it was cut if and only if it was. *)
THEOREM SpecTruncationIsTold == Spec => []TruncationIsTold
<1>1. ASSUME IInv, phase = "answered"
      PROVE  /\ finish = "length" <=> reasons \cap Truncations # {}
             /\ finish = "tool_calls" => Calls # {}
  <2>1. CleanVerdict = "complete" /\ finish = FinishReason
    BY <1>1 DEF IInv, JudgedRules
  <2> QED BY <1>1, <2>1, AnswerIsTold
<1>2. IInv => TruncationIsTold
  BY <1>1 DEF TruncationIsTold
<1> QED BY <1>2, SpecIInv, PTL

-----------------------------------------------------------------------------
(* The quota of an Antigravity account                                     *)

(* The parts of the inductive invariant, besides type correctness. *)
RequestsHaveModels == \A r \in Requests : pc[r] # "idle" => model[r] \in Models

BlockRules ==
  /\ \A m \in Models : cache[m].ours => cache[m].kind = "none"
  /\ BlockIsInTheCache

StrikeRules ==
  \A m \in Models :
    /\ strikes[m].count <= Len(recent[m]) /\ Len(recent[m]) <= Threshold - 1
    /\ \A i \in 1..strikes[m].count : recent[m][i] <= strikes[m].age

CallsAreRefreshes == sinceRefresh = sinceCall

QInv == QuotaTypeOK /\ RequestsHaveModels /\ BlockRules /\ StrikeRules /\ CallsAreRefreshes

LEMMA ElementOfSeqAt ==
  ASSUME NEW S, NEW s \in Seq(S), NEW i \in 1..Len(s)
  PROVE  s[i] \in S
OBVIOUS

(* The newest k of a sequence with one element put in front.               *)
LEMMA KeepNewest ==
  ASSUME NEW S, NEW x \in S, NEW s \in Seq(S), NEW k \in Nat, k <= Len(s) + 1
  PROVE  /\ SubSeq(<<x>> \o s, 1, k) \in Seq(S)
         /\ Len(SubSeq(<<x>> \o s, 1, k)) = k
         /\ \A i \in 1..k : SubSeq(<<x>> \o s, 1, k)[i] = IF i = 1 THEN x ELSE s[i - 1]
<1> DEFINE u == <<x>> \o s
<1>1. u \in Seq(S) /\ Len(u) = Len(s) + 1 /\ \A i \in 1..Len(u) : u[i] = IF i = 1 THEN x ELSE s[i - 1]
  OBVIOUS
<1> HIDE DEF u
<1>2. SubSeq(u, 1, k) \in Seq(S) /\ Len(SubSeq(u, 1, k)) = k /\ \A i \in 1..k : SubSeq(u, 1, k)[i] = u[i]
  BY <1>1
<1>3. QED
  BY <1>1, <1>2 DEF u

(* A refusal is remembered in front of the others of its model.            *)
LEMMA RefusedStep ==
  ASSUME QuotaTypeOK, StrikeRules, NEW m \in Models, Refused(m)
  PROVE  /\ recent' \in [Models -> Seq(0..Window + 1)]
         /\ \A n \in Models : n # m => recent'[n] = recent[n]
         /\ Len(recent'[m]) = IF Len(recent[m]) < Threshold - 1 THEN Len(recent[m]) + 1 ELSE Threshold - 1
         /\ \A i \in 1..Len(recent'[m]) : recent'[m][i] = IF i = 1 THEN 0 ELSE recent[m][i - 1]
<1> DEFINE k == IF Len(recent[m]) < Threshold - 1 THEN Len(recent[m]) + 1 ELSE Threshold - 1
<1>1. /\ recent[m] \in Seq(0..Window + 1) /\ 0 \in 0..Window + 1
      /\ k \in Nat /\ k <= Len(recent[m]) + 1
  BY QuotaAssumption DEF QuotaTypeOK, StrikeRules
<1>2. recent' = [recent EXCEPT ![m] = SubSeq(<<0>> \o recent[m], 1, k)]
  BY DEF Refused
<1> HIDE DEF k
<1>3. /\ SubSeq(<<0>> \o recent[m], 1, k) \in Seq(0..Window + 1)
      /\ Len(SubSeq(<<0>> \o recent[m], 1, k)) = k
      /\ \A i \in 1..k : SubSeq(<<0>> \o recent[m], 1, k)[i] = IF i = 1 THEN 0 ELSE recent[m][i - 1]
  <2> DEFINE S == 0..Window + 1
  <2> HIDE DEF S
  <2>1. recent[m] \in Seq(S) /\ 0 \in S
    BY <1>1 DEF S
  <2>2. SubSeq(<<0>> \o recent[m], 1, k) \in Seq(S)
    BY <1>1, <2>1, KeepNewest
  <2>3. /\ Len(SubSeq(<<0>> \o recent[m], 1, k)) = k
        /\ \A i \in 1..k : SubSeq(<<0>> \o recent[m], 1, k)[i] = IF i = 1 THEN 0 ELSE recent[m][i - 1]
    BY <1>1, <2>1, KeepNewest
  <2>4. QED
    BY <2>2, <2>3 DEF S
<1> DEFINE t == SubSeq(<<0>> \o recent[m], 1, k)
<1> HIDE DEF t
<1>4. recent' = [recent EXCEPT ![m] = t] /\ t \in Seq(0..Window + 1) /\ Len(t) = k
      /\ \A i \in 1..k : t[i] = IF i = 1 THEN 0 ELSE recent[m][i - 1]
  BY <1>2, <1>3 DEF t
<1>5. QED
  BY <1>4 DEF k, QuotaTypeOK

-----------------------------------------------------------------------------
LEMMA InitQInv == QuotaInit => QInv
<1> SUFFICES ASSUME QuotaInit PROVE QInv
  OBVIOUS
<1>1. /\ NoBlock \in NoBlock..Block /\ Interval \in 0..Interval
      /\ Absent \in [kind : {"absent", "left", "none"}, until : Nat, ours : BOOLEAN]
      /\ None \in [count : 0..Threshold - 1, age : 0..Window + 1]
      /\ <<>> \in Seq(0..Window + 1)
  BY QuotaAssumption DEF NoBlock, Absent, None
<1>3. QuotaTypeOK
  BY <1>1 DEF QuotaInit, QuotaTypeOK
<1>4. RequestsHaveModels /\ BlockRules /\ CallsAreRefreshes
  BY DEF QuotaInit, RequestsHaveModels, BlockRules, BlockIsInTheCache, CallsAreRefreshes, NoBlock, Absent
<1>2. StrikeRules
  BY QuotaAssumption DEF QuotaInit, StrikeRules, None
<1>5. QED
  BY <1>2, <1>3, <1>4 DEF QInv

(* What a step must leave alone for a part of the invariant to stay.       *)
LEMMA BlocksKept == BlockRules /\ UNCHANGED <<cache, blocks>> => BlockRules'
BY DEF BlockRules, BlockIsInTheCache

LEMMA StrikesKept == StrikeRules /\ UNCHANGED <<strikes, recent>> => StrikeRules'
BY DEF StrikeRules

(* Requests on their way to a verdict. *)
LEMMA FlightStep ==
  ASSUME QInv, NEW r \in Requests,
         (\E m \in Models : Select(r, m)) \/ OtherFailure(r) \/ Succeeds(r) \/ Join(r) \/ Reuse(r)
  PROVE  QInv'
<1>1. /\ UNCHANGED <<quota, breaker, recent, sinceCall>>
      /\ \/ \E m \in Models : model' = [model EXCEPT ![r] = m]
         \/ model' = [model EXCEPT ![r] = NoModel] /\ pc' = [pc EXCEPT ![r] = "idle"]
         \/ UNCHANGED model /\ pc[r] # "idle"
      /\ \E to \in {"idle", "flying", "clearing", "waiting", "judging"} : pc' = [pc EXCEPT ![r] = to]
      /\ \E a \in {"cache", "null"} : answer' = [answer EXCEPT ![r] = a] \/ UNCHANGED answer
  BY DEF Select, OtherFailure, Succeeds, Join, Reuse, Moves, Leaves
<1>2. /\ pc' \in [Requests -> {"idle", "flying", "clearing", "waiting", "judging"}]
      /\ answer' \in [Requests -> {"cache", "null"}]
      /\ model' \in [Requests -> Models \cup {NoModel}]
  <2>1. /\ pc \in [Requests -> {"idle", "flying", "clearing", "waiting", "judging"}]
        /\ answer \in [Requests -> {"cache", "null"}]
        /\ model \in [Requests -> Models \cup {NoModel}]
    BY DEF QInv, QuotaTypeOK
  <2>2. pc' \in [Requests -> {"idle", "flying", "clearing", "waiting", "judging"}]
    BY <1>1, <2>1
  <2>3. answer' \in [Requests -> {"cache", "null"}]
    BY <1>1, <2>1
  <2>4. model' \in [Requests -> Models \cup {NoModel}]
    BY <1>1, <2>1
  <2>5. QED
    BY <2>2, <2>3, <2>4
<1>3. QuotaTypeOK'
  BY <1>1, <1>2 DEF QInv, QuotaTypeOK, quota, breaker
<1>4. RequestsHaveModels'
  BY <1>1 DEF QInv, QuotaTypeOK, RequestsHaveModels
<1>5. BlockRules' /\ StrikeRules' /\ CallsAreRefreshes'
  BY <1>1, BlocksKept, StrikesKept DEF QInv, CallsAreRefreshes, quota, breaker
<1>6. QED
  BY <1>3, <1>4, <1>5 DEF QInv

LEMMA StartRefreshStep ==
  ASSUME QInv, NEW r \in Requests, StartRefresh(r)
  PROVE  QInv'
<1>1. QuotaTypeOK' /\ RequestsHaveModels' /\ CallsAreRefreshes'
  BY QuotaAssumption DEF StartRefresh, Moves, QInv, QuotaTypeOK, RequestsHaveModels, CallsAreRefreshes, breaker
<1>2. BlockRules' /\ StrikeRules'
  BY BlocksKept, StrikesKept DEF StartRefresh, QInv, breaker
<1>3. QED
  BY <1>1, <1>2 DEF QInv

(* A success takes the block, and the entry the breaker made for it.       *)
LEMMA ClearStrikesStep ==
  ASSUME QInv, NEW r \in Requests, ClearStrikes(r)
  PROVE  QInv'
<1> DEFINE m == model[r]
<1>1. m \in Models
  BY DEF ClearStrikes, Leaves, Moves, QInv, RequestsHaveModels
<1>2. /\ strikes' = [strikes EXCEPT ![m] = None] /\ recent' = [recent EXCEPT ![m] = <<>>]
      /\ blocks' = [blocks EXCEPT ![m] = NoBlock]
      /\ cache' = IF cache[m] = Synthesized(blocks[m]) THEN [cache EXCEPT ![m] = Absent] ELSE cache
      /\ pc' = [pc EXCEPT ![r] = "idle"] /\ model' = [model EXCEPT ![r] = NoModel]
      /\ answer' = [answer EXCEPT ![r] = "null"]
      /\ UNCHANGED <<sinceRefresh, fetching, sinceCall>>
  BY DEF ClearStrikes, Leaves, Moves
<1> HIDE DEF m
<1>3. QuotaTypeOK' /\ RequestsHaveModels' /\ CallsAreRefreshes'
  BY <1>1, <1>2, QuotaAssumption DEF QInv, QuotaTypeOK, RequestsHaveModels, CallsAreRefreshes, None, NoBlock, Absent
<1>4. BlockRules'
  <2>1. blocks[m] > 0 => cache[m] = Synthesized(blocks[m])
    BY <1>1 DEF QInv, QuotaTypeOK, BlockRules, BlockIsInTheCache, Synthesized
  <2>2. cache'[m] = Absent \/ (cache'[m] = cache[m] /\ ~ (blocks[m] > 0))
    BY <1>1, <1>2, <2>1 DEF QInv, QuotaTypeOK
  <2>3. \A n \in Models : n # m => cache'[n] = cache[n] /\ blocks'[n] = blocks[n]
    BY <1>2 DEF QInv, QuotaTypeOK
  <2>4. blocks'[m] = NoBlock
    BY <1>1, <1>2 DEF QInv, QuotaTypeOK
  <2>5. QED
    BY <1>1, <2>2, <2>3, <2>4 DEF QInv, BlockRules, BlockIsInTheCache, Absent, NoBlock
<1>5. StrikeRules'
  BY <1>1, <1>2, QuotaAssumption, SMTT(30) DEF QInv, QuotaTypeOK, StrikeRules, None
<1>6. QED
  BY <1>3, <1>4, <1>5 DEF QInv

LEMMA SynthesizedFields ==
  ASSUME NEW t
  PROVE  Synthesized(t).kind = "none" /\ Synthesized(t).until = t /\ Synthesized(t).ours
BY DEF Synthesized

(* A reading never carries the breaker's mark, and a running block gets it *)
(* back.                                                                   *)
LEMMA RefreshStep ==
  ASSUME QInv, Refresh
  PROVE  QInv'
<1>1. /\ \A n \in Requests : pc'[n] # "idle" => pc[n] # "idle"
      /\ pc' \in [Requests -> {"idle", "flying", "clearing", "waiting", "judging"}]
      /\ answer' \in [Requests -> {"cache", "null"}]
  BY DEF Refresh, RefreshFails, RefreshEnds, Deliver, QInv, QuotaTypeOK
<1>2. fetching' = FALSE /\ UNCHANGED <<sinceRefresh, strikes, model, recent, sinceCall>>
  BY DEF Refresh, RefreshFails, RefreshEnds, breaker
<1>3. StrikeRules' /\ CallsAreRefreshes' /\ RequestsHaveModels'
  BY <1>1, <1>2, StrikesKept DEF QInv, CallsAreRefreshes, RequestsHaveModels
<1>4. CASE RefreshFails
  <2>1. BlockRules'
    BY <1>4, BlocksKept DEF RefreshFails, QInv, breaker
  <2>2. QuotaTypeOK'
    BY <1>1, <1>2, <1>4 DEF RefreshFails, QInv, QuotaTypeOK, breaker
  <2>3. QED
    BY <1>3, <2>1, <2>2 DEF QInv
<1>5. ASSUME NEW readings \in [Models -> Upstream], RefreshEnds(readings)
      PROVE  QInv'
  <2>1. \A n \in Models : readings[n] \in [kind : {"absent", "left", "none"}, until : Nat, ours : BOOLEAN] /\ ~ readings[n].ours
    <3>1. \A u \in Upstream : u \in [kind : {"absent", "left", "none"}, until : Nat, ours : BOOLEAN] /\ ~ u.ours
      <4> TAKE u \in Upstream
      <4>1. CASE u = Absent
        BY <4>1 DEF Absent
      <4>2. CASE u = Left
        BY <4>2 DEF Left
      <4>3. ASSUME NEW t \in Resets, u = Exhausted(t)
            PROVE  u \in [kind : {"absent", "left", "none"}, until : Nat, ours : BOOLEAN] /\ ~ u.ours
        BY <4>3, QuotaAssumption DEF Exhausted
      <4>4. QED
        BY <4>1, <4>2, <4>3 DEF Upstream
    <3>2. QED
      BY <3>1
  <2>2. /\ cache' = [n \in Models |-> IF blocks[n] > 0 THEN Synthesized(blocks[n]) ELSE readings[n]]
        /\ blocks' = [n \in Models |-> IF blocks[n] = 0 THEN NoBlock ELSE blocks[n]]
    BY <1>5 DEF RefreshEnds, ApplyActiveStrikeBlocks
  <2>3. ASSUME NEW n \in Models
        PROVE  /\ blocks[n] \in NoBlock..Block
               /\ blocks[n] > 0 => cache'[n] = Synthesized(blocks[n]) /\ blocks'[n] = blocks[n]
               /\ ~ (blocks[n] > 0) => /\ cache'[n] = readings[n] /\ blocks'[n] = NoBlock
    BY <2>2 DEF QInv, QuotaTypeOK, NoBlock
  <2>4. ASSUME NEW n \in Models
        PROVE  /\ blocks'[n] \in NoBlock..Block
               /\ cache'[n] \in [kind : {"absent", "left", "none"}, until : Nat, ours : BOOLEAN]
    <3>1. CASE blocks[n] > 0
      <4>1. blocks[n] \in Nat /\ cache'[n] = [kind |-> "none", until |-> blocks[n], ours |-> TRUE]
        BY <2>3, <3>1, QuotaAssumption DEF Synthesized, NoBlock
      <4>2. QED
        BY <2>3, <3>1, <4>1
    <3>2. CASE ~ (blocks[n] > 0)
      BY <2>1, <2>3, <3>2, QuotaAssumption DEF NoBlock
    <3>3. QED
      BY <3>1, <3>2
  <2>5. QuotaTypeOK'
    BY <1>1, <1>2, <2>2, <2>4 DEF QInv, QuotaTypeOK
  <2>6. BlockRules'
    <3>1. ASSUME NEW n \in Models
          PROVE  /\ cache'[n].ours => cache'[n].kind = "none"
                 /\ blocks'[n] > 0 <=> cache'[n].ours /\ cache'[n].until > 0
                 /\ cache'[n].ours /\ cache'[n].until > 0 => cache'[n].until = blocks'[n]
      <4>1. CASE blocks[n] > 0
        <5>1. /\ cache'[n].kind = "none" /\ cache'[n].until = blocks[n] /\ cache'[n].ours
              /\ blocks'[n] = blocks[n]
          BY <2>3, <4>1, SynthesizedFields
        <5>2. QED
          BY <4>1, <5>1
      <4>2. CASE ~ (blocks[n] > 0)
        <5>1. ~ cache'[n].ours /\ ~ (blocks'[n] > 0)
          BY <2>1, <2>3, <4>2 DEF NoBlock
        <5>2. QED
          BY <5>1
      <4>3. QED
        BY <4>1, <4>2
    <3>2. QED
      BY <3>1 DEF BlockRules, BlockIsInTheCache
  <2>7. QED
    BY <1>3, <2>5, <2>6 DEF QInv
<1>6. QED
  BY <1>4, <1>5 DEF Refresh

(* One more strike, and one more refusal remembered behind it.             *)
LEMMA CountedStep ==
  ASSUME QInv, NEW r \in Requests, Counted(r)
  PROVE  QInv'
<1> DEFINE m == model[r]
<1>1. m \in Models
  BY DEF Counted, Leaves, Moves, QInv, RequestsHaveModels
<1>2. /\ strikes' = [strikes EXCEPT ![m] = Strike(m)] /\ Refused(m) /\ Strike(m).count < Threshold
      /\ pc' = [pc EXCEPT ![r] = "idle"] /\ model' = [model EXCEPT ![r] = NoModel]
      /\ answer' = [answer EXCEPT ![r] = "null"]
      /\ UNCHANGED <<quota, blocks, sinceCall>>
  BY DEF Counted, Leaves, Moves
<1> HIDE DEF m
<1>3. /\ strikes[m] \in [count : 0..Threshold - 1, age : 0..Window + 1]
      /\ strikes[m].count \in 0..Threshold - 1 /\ strikes[m].age \in 0..Window + 1
      /\ recent[m] \in Seq(0..Window + 1) /\ Len(recent[m]) \in Nat
  BY <1>1 DEF QInv, QuotaTypeOK
<1>4. /\ Strike(m) \in [count : 1..Threshold - 1, age : 0..Window + 1]
      /\ \/ Strike(m).count = strikes[m].count + 1 /\ Strike(m).age = strikes[m].age
         \/ Strike(m).count = 1 /\ Strike(m).age = 0
  <2>1. CASE strikes[m].count > 0 /\ strikes[m].age <= Window
    <3>1. Strike(m) = [strikes[m] EXCEPT !.count = @ + 1]
      BY <2>1 DEF Strike
    <3>2. Strike(m) = [count |-> strikes[m].count + 1, age |-> strikes[m].age]
      BY <1>3, <3>1
    <3>3. Strike(m).count = strikes[m].count + 1 /\ Strike(m).age = strikes[m].age
      BY <3>2
    <3>4. strikes[m].count + 1 \in 1..Threshold - 1
      BY <1>2, <1>3, <3>3, QuotaAssumption
    <3>5. QED
      BY <1>3, <3>2, <3>3, <3>4
  <2>2. CASE ~ (strikes[m].count > 0 /\ strikes[m].age <= Window)
    <3>1. Strike(m) = [count |-> 1, age |-> 0]
      BY <2>2 DEF Strike
    <3>2. QED
      BY <1>2, <3>1, QuotaAssumption
  <2>3. QED
    BY <2>1, <2>2
<1>5. /\ recent' \in [Models -> Seq(0..Window + 1)]
      /\ \A n \in Models : n # m => recent'[n] = recent[n]
      /\ Len(recent'[m]) = IF Len(recent[m]) < Threshold - 1 THEN Len(recent[m]) + 1 ELSE Threshold - 1
      /\ \A i \in 1..Len(recent'[m]) : recent'[m][i] = IF i = 1 THEN 0 ELSE recent[m][i - 1]
  BY <1>1, <1>2, RefusedStep DEF QInv
<1>6. strikes' \in [Models -> [count : 0..Threshold - 1, age : 0..Window + 1]]
  BY <1>1, <1>2, <1>4 DEF QInv, QuotaTypeOK
<1>7. QuotaTypeOK' /\ RequestsHaveModels' /\ CallsAreRefreshes' /\ BlockRules'
  BY <1>2, <1>5, <1>6, BlocksKept DEF QInv, QuotaTypeOK, RequestsHaveModels, CallsAreRefreshes, quota
<1>8. StrikeRules'
  <2>1. /\ strikes'[m] = Strike(m) /\ Strike(m).count \in 1..Threshold - 1 /\ Strike(m).age \in Nat
        /\ \A n \in Models : n # m => strikes'[n] = strikes[n]
    BY <1>1, <1>2, <1>4 DEF QInv, QuotaTypeOK
  <2>2. /\ strikes[m].count <= Len(recent[m]) /\ Len(recent[m]) <= Threshold - 1
        /\ \A i \in 1..strikes[m].count : recent[m][i] <= strikes[m].age
    BY <1>1 DEF QInv, StrikeRules
  <2>3. Strike(m).count <= Len(recent'[m]) /\ Len(recent'[m]) <= Threshold - 1
    BY <1>3, <1>4, <1>5, <2>1, <2>2, QuotaAssumption, SMTT(30)
  <2>4. ASSUME NEW i \in 1..Strike(m).count PROVE recent'[m][i] <= Strike(m).age
    <3>1. i \in 1..Len(recent'[m])
      BY <1>3, <1>5, <2>1, <2>3, QuotaAssumption
    <3>2. CASE i = 1
      BY <1>5, <2>1, <3>1, <3>2
    <3>3. CASE i # 1
      <4>1. i - 1 \in 1..strikes[m].count /\ Strike(m).age = strikes[m].age
        BY <1>3, <1>4, <2>1, <3>3
      <4>2. recent'[m][i] = recent[m][i - 1]
        BY <1>5, <3>1, <3>3
      <4>3. QED
        BY <2>2, <4>1, <4>2
    <3>4. QED
      BY <3>2, <3>3
  <2>5. QED
    BY <1>5, <2>1, <2>3, <2>4 DEF QInv, StrikeRules
<1>9. QED
  BY <1>7, <1>8 DEF QInv

(* The block and the entry in the cache are written together.              *)
LEMMA StrikesOutStep ==
  ASSUME QInv, NEW r \in Requests, StrikesOut(r)
  PROVE  QInv'
<1> DEFINE m == model[r]
<1>1. m \in Models
  BY DEF StrikesOut, Leaves, Moves, QInv, RequestsHaveModels
<1>2. /\ strikes' = [strikes EXCEPT ![m] = None] /\ recent' = [recent EXCEPT ![m] = <<>>]
      /\ cache' = [cache EXCEPT ![m] = Synthesized(Block)] /\ blocks' = [blocks EXCEPT ![m] = Block]
      /\ pc' = [pc EXCEPT ![r] = "idle"] /\ model' = [model EXCEPT ![r] = NoModel]
      /\ answer' = [answer EXCEPT ![r] = "null"]
      /\ UNCHANGED <<sinceRefresh, fetching, sinceCall>>
  BY DEF StrikesOut, Leaves, Moves
<1> HIDE DEF m
<1>3. QuotaTypeOK' /\ RequestsHaveModels' /\ CallsAreRefreshes'
  BY <1>1, <1>2, QuotaAssumption DEF QInv, QuotaTypeOK, RequestsHaveModels, CallsAreRefreshes, None, NoBlock, Synthesized
<1>4. BlockRules'
  <2>1. /\ cache'[m].kind = "none" /\ cache'[m].until = Block /\ cache'[m].ours = TRUE /\ blocks'[m] = Block
        /\ \A n \in Models : n # m => cache'[n] = cache[n] /\ blocks'[n] = blocks[n]
    BY <1>1, <1>2 DEF QInv, QuotaTypeOK, Synthesized
  <2>2. QED
    BY <2>1, QuotaAssumption DEF QInv, BlockRules, BlockIsInTheCache
<1>5. StrikeRules'
  BY <1>1, <1>2, QuotaAssumption, SMTT(30) DEF QInv, QuotaTypeOK, StrikeRules, None
<1>6. QED
  BY <1>3, <1>4, <1>5 DEF QInv

LEMMA UsedUpStep ==
  ASSUME QInv, NEW r \in Requests, UsedUp(r)
  PROVE  QInv'
<1> DEFINE m == model[r]
<1>1. m \in Models
  BY DEF UsedUp, Leaves, Moves, QInv, RequestsHaveModels
<1>2. /\ strikes' = [strikes EXCEPT ![m] = None]
      /\ recent' = [recent EXCEPT ![m] = <<>>] \/ Refused(m)
      /\ pc' = [pc EXCEPT ![r] = "idle"] /\ model' = [model EXCEPT ![r] = NoModel]
      /\ answer' = [answer EXCEPT ![r] = "null"]
      /\ UNCHANGED <<quota, blocks, sinceCall>>
  BY DEF UsedUp, Leaves, Moves
<1> HIDE DEF m
<1>3. /\ recent' \in [Models -> Seq(0..Window + 1)]
      /\ \A n \in Models : n # m => recent'[n] = recent[n]
      /\ Len(recent'[m]) <= Threshold - 1
  <2>1. CASE recent' = [recent EXCEPT ![m] = <<>>]
    BY <1>1, <2>1, QuotaAssumption DEF QInv, QuotaTypeOK
  <2>2. CASE Refused(m)
    <3>1. Len(recent[m]) \in Nat
      BY <1>1 DEF QInv, QuotaTypeOK
    <3>2. QED
      BY <1>1, <2>2, <3>1, RefusedStep, QuotaAssumption DEF QInv
  <2>3. QED
    BY <1>2, <2>1, <2>2
<1>4. QuotaTypeOK' /\ RequestsHaveModels' /\ CallsAreRefreshes' /\ BlockRules'
  <2>1. None \in [count : 0..Threshold - 1, age : 0..Window + 1]
    BY QuotaAssumption DEF None
  <2>2. strikes' \in [Models -> [count : 0..Threshold - 1, age : 0..Window + 1]]
    BY <1>2, <2>1 DEF QInv, QuotaTypeOK
  <2>3. RequestsHaveModels' /\ CallsAreRefreshes' /\ BlockRules'
    BY <1>2, BlocksKept DEF QInv, QuotaTypeOK, RequestsHaveModels, CallsAreRefreshes, quota
  <2>4. QuotaTypeOK'
    BY <1>2, <1>3, <2>2 DEF QInv, QuotaTypeOK, quota
  <2>5. QED
    BY <2>3, <2>4
<1>5. StrikeRules'
  <2>1. /\ strikes'[m].count = 0 /\ \A n \in Models : n # m => strikes'[n] = strikes[n]
        /\ recent'[m] \in Seq(0..Window + 1)
    BY <1>1, <1>2, <1>3 DEF QInv, QuotaTypeOK, None
  <2>2. QED
    BY <1>3, <2>1 DEF QInv, StrikeRules
<1>6. QED
  BY <1>4, <1>5 DEF QInv

(* Time passes for a block and its entry alike, and for a window and the   *)
(* refusals in it.                                                         *)
LEMMA TickStep ==
  ASSUME QInv, Tick
  PROVE  QInv'
<1>1. UNCHANGED <<fetching, pc, model, answer>>
  BY DEF Tick, requests
<1>2. /\ sinceRefresh' \in 0..Interval /\ sinceCall' \in 0..Interval /\ CallsAreRefreshes'
  BY QuotaAssumption DEF Tick, Older, QInv, QuotaTypeOK, CallsAreRefreshes
<1>3. /\ cache' = [m \in Models |-> [cache[m] EXCEPT !.until = Down(@)]]
      /\ blocks' = [m \in Models |-> Down(blocks[m])]
      /\ strikes' = [m \in Models |->
           IF strikes[m] = None THEN None ELSE [strikes[m] EXCEPT !.age = Older(@, Window + 1)]]
      /\ recent' = [m \in Models |-> [i \in DOMAIN recent[m] |-> Older(recent[m][i], Window + 1)]]
  BY DEF Tick
<1>4. ASSUME NEW m \in Models
      PROVE  /\ cache'[m] \in [kind : {"absent", "left", "none"}, until : Nat, ours : BOOLEAN]
             /\ cache'[m].kind = cache[m].kind /\ cache'[m].ours = cache[m].ours
             /\ cache'[m].until = Down(cache[m].until)
             /\ blocks'[m] \in NoBlock..Block /\ blocks'[m] = Down(blocks[m])
  <2>1. cache[m] \in [kind : {"absent", "left", "none"}, until : Nat, ours : BOOLEAN] /\ blocks[m] \in NoBlock..Block
    BY DEF QInv, QuotaTypeOK
  <2>2. cache'[m] = [cache[m] EXCEPT !.until = Down(@)] /\ blocks'[m] = Down(blocks[m])
    BY <1>3
  <2>3. Down(cache[m].until) \in Nat
    BY <2>1 DEF Down
  <2>4. Down(blocks[m]) \in NoBlock..Block
    BY <2>1, QuotaAssumption DEF Down, NoBlock
  <2>5. QED
    BY <2>1, <2>2, <2>3, <2>4
<1>5. ASSUME NEW m \in Models
      PROVE  /\ strikes'[m] \in [count : 0..Threshold - 1, age : 0..Window + 1]
             /\ strikes'[m].count = strikes[m].count
             /\ strikes[m].count > 0 => strikes'[m].age = Older(strikes[m].age, Window + 1)
  <2>1. strikes[m] \in [count : 0..Threshold - 1, age : 0..Window + 1]
    BY DEF QInv, QuotaTypeOK
  <2>2. CASE strikes[m] = None
    BY <1>3, <2>1, <2>2 DEF None
  <2>3. CASE strikes[m] # None
    <3>1. strikes'[m] = [strikes[m] EXCEPT !.age = Older(@, Window + 1)]
      BY <1>3, <2>3
    <3>2. Older(strikes[m].age, Window + 1) \in 0..Window + 1
      BY <2>1, QuotaAssumption DEF Older
    <3>3. QED
      BY <2>1, <3>1, <3>2
  <2>4. QED
    BY <2>2, <2>3
<1>6. ASSUME NEW m \in Models
      PROVE  /\ recent'[m] \in Seq(0..Window + 1) /\ Len(recent'[m]) = Len(recent[m])
             /\ \A i \in 1..Len(recent[m]) : /\ recent[m][i] \in 0..Window + 1
                                             /\ recent'[m][i] = Older(recent[m][i], Window + 1)
  <2>1. recent[m] \in Seq(0..Window + 1) /\ DOMAIN recent[m] = 1..Len(recent[m]) /\ Len(recent[m]) \in Nat
    BY DEF QInv, QuotaTypeOK
  <2>2. recent'[m] = [i \in 1..Len(recent[m]) |-> Older(recent[m][i], Window + 1)]
    BY <1>3, <2>1
  <2>3. \A i \in 1..Len(recent[m]) : recent[m][i] \in 0..Window + 1 /\ Older(recent[m][i], Window + 1) \in 0..Window + 1
    BY <2>1, QuotaAssumption DEF Older
  <2>4. QED
    BY <2>1, <2>2, <2>3
<1>7. QuotaTypeOK'
  <2>1. /\ cache' \in [Models -> [kind : {"absent", "left", "none"}, until : Nat, ours : BOOLEAN]]
        /\ blocks' \in [Models -> NoBlock..Block]
    BY <1>3, <1>4
  <2>2. /\ strikes' \in [Models -> [count : 0..Threshold - 1, age : 0..Window + 1]]
        /\ recent' \in [Models -> Seq(0..Window + 1)]
    BY <1>3, <1>5, <1>6
  <2>3. QED
    BY <1>1, <1>2, <2>1, <2>2 DEF QInv, QuotaTypeOK
<1>8. BlockRules'
  <2>1. ASSUME NEW m \in Models
        PROVE  /\ cache[m].ours => cache[m].kind = "none"
               /\ blocks[m] > 0 <=> cache[m].ours /\ cache[m].until > 0
               /\ cache[m].ours /\ cache[m].until > 0 => cache[m].until = blocks[m]
               /\ cache[m].until \in Nat /\ blocks[m] \in Int
    BY DEF QInv, BlockRules, BlockIsInTheCache, QuotaTypeOK, NoBlock
  <2>2. ASSUME NEW m \in Models
        PROVE  /\ cache'[m].ours => cache'[m].kind = "none"
               /\ blocks'[m] > 0 <=> cache'[m].ours /\ cache'[m].until > 0
               /\ cache'[m].ours /\ cache'[m].until > 0 => cache'[m].until = blocks'[m]
    BY <1>4, <2>1 DEF Down
  <2>3. QED
    BY <2>2 DEF BlockRules, BlockIsInTheCache
<1>9. StrikeRules'
  <2> SUFFICES ASSUME NEW m \in Models
               PROVE  /\ strikes'[m].count <= Len(recent'[m]) /\ Len(recent'[m]) <= Threshold - 1
                      /\ \A i \in 1..strikes'[m].count : recent'[m][i] <= strikes'[m].age
    BY DEF StrikeRules
  <2>1. /\ strikes[m].count <= Len(recent[m]) /\ Len(recent[m]) <= Threshold - 1
        /\ \A i \in 1..strikes[m].count : recent[m][i] <= strikes[m].age
        /\ strikes[m].count \in Nat /\ strikes[m].age \in 0..Window + 1 /\ Len(recent[m]) \in Nat
    BY DEF QInv, StrikeRules, QuotaTypeOK
  <2>2. ASSUME NEW i \in 1..strikes[m].count PROVE recent'[m][i] <= strikes'[m].age
    <3>1. i \in 1..Len(recent[m]) /\ strikes[m].count > 0
      BY <2>1
    <3>2. /\ recent'[m][i] = Older(recent[m][i], Window + 1) /\ recent[m][i] \in 0..Window + 1
          /\ strikes'[m].age = Older(strikes[m].age, Window + 1)
          /\ recent[m][i] <= strikes[m].age
      BY <1>5, <1>6, <2>1, <3>1
    <3>3. QED
      BY <2>1, <3>2, QuotaAssumption, SMTT(30) DEF Older
  <2>3. QED
    BY <1>5, <1>6, <2>1, <2>2
<1>10. QED
  BY <1>1, <1>2, <1>7, <1>8, <1>9 DEF QInv, RequestsHaveModels

LEMMA NextQInv == QInv /\ [QuotaNext]_quotaVars => QInv'
<1> SUFFICES ASSUME QInv, [QuotaNext]_quotaVars PROVE QInv'
  OBVIOUS
<1>1. ASSUME NEW r \in Requests, Request(r) PROVE QInv'
  BY <1>1, FlightStep, StartRefreshStep, ClearStrikesStep, CountedStep, StrikesOutStep, UsedUpStep
     DEF Request, JudgeRefusal
<1>2. CASE UNCHANGED quotaVars
  <2>1. BlockRules' /\ StrikeRules'
    BY <1>2, BlocksKept, StrikesKept DEF QInv, quotaVars, quota, breaker
  <2>2. QED
    BY <1>2, <2>1 DEF QInv, QuotaTypeOK, RequestsHaveModels, CallsAreRefreshes, quotaVars, quota, breaker, requests
<1>3. QED
  BY <1>1, <1>2, RefreshStep, TickStep DEF QuotaNext

THEOREM SpecQInv == QuotaSpec => []QInv
<1>1. QED
  BY InitQInv, NextQInv, PTL DEF QuotaSpec

(* Counts stay below the threshold, ages and blocks within their bounds,   *)
(* and what a refresh writes is a reading.                                 *)
THEOREM SpecQuotaTypeOK == QuotaSpec => []QuotaTypeOK
<1>1. QInv => QuotaTypeOK
  BY DEF QInv
<1>2. QED
  BY <1>1, SpecQInv, PTL

(* The cache that selection reads says what the breaker blocks, and        *)
(* forgets it with the block, whatever refreshes and successes come        *)
(* between.                                                                *)
THEOREM SpecBlockIsInTheCache == QuotaSpec => []BlockIsInTheCache
<1>1. QInv => BlockIsInTheCache
  BY DEF QInv, BlockRules
<1>2. QED
  BY <1>1, SpecQInv, PTL

(* A block is the answer to Threshold refusals within one window, with no  *)
(* success and no block among them.                                        *)
THEOREM SpecBlockIsEarned == QuotaSpec => BlockIsEarned
<1> DEFINE Earned(m) ==
      blocks[m] < blocks'[m] =>
        Len(recent[m]) = Threshold - 1 /\ \A i \in DOMAIN recent[m] : recent[m][i] <= Window
<1>1. QInv /\ [QuotaNext]_quotaVars => [\A m \in Models : Earned(m)]_quotaVars
  <2> SUFFICES ASSUME QInv, QuotaNext, NEW m \in Models, blocks[m] < blocks'[m]
               PROVE  Len(recent[m]) = Threshold - 1 /\ \A i \in DOMAIN recent[m] : recent[m][i] <= Window
    OBVIOUS
  <2>1. blocks \in [Models -> NoBlock..Block] /\ \A n \in Models : blocks[n] \in Int /\ NoBlock <= blocks[n]
    BY QuotaAssumption DEF QInv, QuotaTypeOK, NoBlock
  <2>2. ~ Refresh
    BY <2>1 DEF Refresh, RefreshFails, RefreshEnds, breaker, NoBlock
  <2>3. ~ Tick
    BY <2>1 DEF Tick, Down
  <2>4. PICK r \in Requests : Request(r)
    BY <2>2, <2>3 DEF QuotaNext
  <2>5. ~ ClearStrikes(r)
    <3>1. ClearStrikes(r) => blocks' = [blocks EXCEPT ![model[r]] = NoBlock]
      BY DEF ClearStrikes
    <3>2. NoBlock \in Int /\ blocks[m] \in Int /\ NoBlock <= blocks[m]
      BY <2>1 DEF NoBlock
    <3>3. QED
      BY <2>1, <3>1, <3>2
  <2>6. StrikesOut(r) /\ model[r] = m
    <3>1. StrikesOut(r)
      BY <2>1, <2>4, <2>5 DEF Request, JudgeRefusal, Select, OtherFailure, Succeeds, Join, Reuse, StartRefresh,
         Counted, UsedUp, breaker
    <3>2. QED
      BY <2>1, <3>1 DEF StrikesOut
  <2>7. /\ strikes[m].count \in 0..Threshold - 1 /\ strikes[m].age \in Nat
        /\ recent[m] \in Seq(0..Window + 1) /\ DOMAIN recent[m] = 1..Len(recent[m]) /\ Len(recent[m]) \in Nat
        /\ strikes[m].count <= Len(recent[m]) /\ Len(recent[m]) <= Threshold - 1
        /\ \A i \in 1..strikes[m].count : recent[m][i] <= strikes[m].age
        /\ \A i \in 1..Len(recent[m]) : recent[m][i] \in Nat
    <3>1. /\ strikes[m].count \in 0..Threshold - 1 /\ strikes[m].age \in Nat
          /\ recent[m] \in Seq(0..Window + 1)
      BY DEF QInv, QuotaTypeOK
    <3>2. \A i \in 1..Len(recent[m]) : recent[m][i] \in Nat
      <4> DEFINE S == 0..Window + 1
      <4>1. S \subseteq Nat
        OBVIOUS
      <4>2. recent[m] \in Seq(S)
        BY <3>1
      <4> HIDE DEF S
      <4>3. \A i \in 1..Len(recent[m]) : recent[m][i] \in S
        BY <4>2, ElementOfSeqAt
      <4>4. QED
        BY <4>1, <4>3
    <3>3. QED
      BY <3>1, <3>2 DEF QInv, StrikeRules
  <2>8. Strike(m).count >= Threshold
    BY <2>6 DEF StrikesOut
  <2>9. CASE strikes[m].count > 0 /\ strikes[m].age <= Window
    <3>1. strikes[m].count = Threshold - 1
      <4>1. Strike(m).count = strikes[m].count + 1
        BY <2>9 DEF Strike, QInv, QuotaTypeOK
      <4>2. QED
        BY <2>7, <2>8, <4>1, QuotaAssumption
    <3>2. Len(recent[m]) = Threshold - 1 /\ \A i \in 1..Len(recent[m]) : recent[m][i] <= strikes[m].age
      BY <2>7, <3>1, QuotaAssumption
    <3>3. QED
      BY <2>7, <2>9, <3>2, QuotaAssumption, SMTT(30)
  <2>10. CASE ~ (strikes[m].count > 0 /\ strikes[m].age <= Window)
    <3>1. Threshold = 1
      <4>1. Strike(m).count = 1
        BY <2>10 DEF Strike
      <4>2. QED
        BY <2>8, <4>1, QuotaAssumption
    <3>2. QED
      BY <2>7, <3>1
  <2>11. QED
    BY <2>9, <2>10
<1>2. QED
  BY <1>1, SpecQInv, PTL DEF QuotaSpec, BlockIsEarned

(* The quota API is asked at most once per interval, whether it answers or *)
(* not.                                                                    *)
THEOREM SpecOneCallPerInterval == QuotaSpec => OneCallPerInterval
<1>1. QInv /\ [QuotaNext]_quotaVars => [~fetching /\ fetching' => sinceCall = Interval]_quotaVars
  <2> SUFFICES ASSUME QInv, QuotaNext, ~fetching, fetching' PROVE sinceCall = Interval
    OBVIOUS
  <2>1. PICK r \in Requests : Request(r)
    BY DEF QuotaNext, Refresh, RefreshFails, RefreshEnds, Tick
  <2>2. StartRefresh(r)
    BY <2>1 DEF Request, JudgeRefusal, Select, OtherFailure, Succeeds, ClearStrikes, Join, Reuse,
       Counted, StrikesOut, UsedUp, quota
  <2>3. QED
    BY <2>2, QuotaAssumption DEF StartRefresh, QInv, QuotaTypeOK, CallsAreRefreshes
<1>2. QED
  BY <1>1, SpecQInv, PTL DEF QuotaSpec, OneCallPerInterval

=============================================================================
