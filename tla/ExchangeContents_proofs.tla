------------------------ MODULE ExchangeContents_proofs ------------------------
(***************************************************************************)
(* Theorems about Exchange: a client reads what the provider has said, in  *)
(* order and each piece under its own kind and call, and the end of an     *)
(* answer reaches it, for any tool calls, pairs of formats and length of   *)
(* the answer.                                                             *)
(*                                                                         *)
(* The account of an answer is what the provider has said so far: its      *)
(* texts in order, the calls it has begun and the arguments of each.       *)
(* Conveyed says that the second hop has told the client that account, and *)
(* Noted what the first hop has to remember of the provider to be able to: *)
(* which block or item is open, which call it is, what arguments it has    *)
(* passed on.  A chunk of the provider adds one piece to the account, the  *)
(* first hop makes chunks that say that piece, and the second one tells    *)
(* the client what they say.  Where the answer is passed on as it comes,   *)
(* the client has its texts, and no call is ever told of (PassesTexts).    *)
(***************************************************************************)
EXTENDS Exchange_proofs

-----------------------------------------------------------------------------
(* What the provider has said                                              *)

(* Two loops whose rounds agree.                                           *)
LEMMA RoundsAgree ==
  ASSUME NEW n \in Nat, NEW f, NEW g, f[0] = g[0], \A i \in 1 .. n : f[i - 1] = g[i - 1] => f[i] = g[i]
  PROVE  f[n] = g[n]
<1> DEFINE D == [i \in 0 .. n |-> {f[i]}]
<1>1. /\ n \in 0 .. n /\ 0 \in 0 .. n
      /\ \A i \in 1 .. n : i \in 0 .. n /\ i - 1 \in 0 .. n
  OBVIOUS
<1>2. \A i \in 0 .. n : D[i] = {f[i]}
  OBVIOUS
<1> HIDE DEF D
<1>3. g[0] \in D[0] /\ \A i \in 1 .. n : g[i - 1] \in D[i - 1] => g[i] \in D[i]
  BY <1>1, <1>2
<1>4. \A i \in 0 .. n : g[i] \in D[i]
  BY <1>3, Kept
<1>5. QED
  BY <1>1, <1>2, <1>4

Pieces == [kind : Kinds, call : Nat]

LEMMA PieceFacts ==
  ASSUME NEW kind \in Kinds, NEW c \in Nat
  PROVE  Piece(kind, c) \in Pieces /\ Piece(kind, c).kind = kind /\ Piece(kind, c).call = c
BY DEF Piece, Pieces

LEMMA SaidFacts ==
  ASSUME NEW w \in Saids
  PROVE  /\ w \in Seq(Pieces) /\ Len(w) \in Nat /\ DOMAIN w = 1 .. Len(w)
         /\ \A i \in 1 .. Len(w) : w[i].kind \in Kinds /\ w[i].call \in Nat
<1>1. w \in Seq(Pieces)
  BY DEF Saids, Pieces
<1>2. \A i \in 1 .. Len(w) : w[i] \in Pieces
  BY <1>1
<1>3. QED
  BY <1>1, <1>2 DEF Pieces

LEMMA SaidMore ==
  ASSUME NEW w \in Saids, NEW kind \in Kinds, NEW c \in Nat
  PROVE  LET v == Append(w, Piece(kind, c)) IN
         /\ v \in Saids /\ Len(v) = Len(w) + 1 /\ \A i \in 1 .. Len(w) : v[i] = w[i]
         /\ v[Len(w) + 1].kind = kind /\ v[Len(w) + 1].call = c
<1> DEFINE p == Piece(kind, c)
<1>1. p \in Pieces /\ p.kind = kind /\ p.call = c
  BY PieceFacts
<1>2. w \in Seq(Pieces)
  BY SaidFacts
<1> HIDE DEF p
<1>3. /\ Append(w, p) \in Seq(Pieces) /\ Len(Append(w, p)) = Len(w) + 1
      /\ \A i \in 1 .. Len(w) : Append(w, p)[i] = w[i]
      /\ Append(w, p)[Len(w) + 1] = p
  BY <1>1, <1>2, AppendedIs
<1> DEFINE v == Append(w, p)
<1> HIDE DEF v
<1>4. /\ v \in Saids /\ Len(v) = Len(w) + 1 /\ \A i \in 1 .. Len(w) : v[i] = w[i]
      /\ v[Len(w) + 1].kind = kind /\ v[Len(w) + 1].call = c
  BY <1>1, <1>3 DEF Saids, Pieces, v
<1>5. QED
  BY <1>4, Zenon DEF v, p

Hears(w, x, n) == IF w[n].kind = "call" THEN x ELSE Append(x, [kind |-> w[n].kind, piece |-> n])
Gets(w, c, x, n) == IF w[n].call = c THEN Append(x, n) ELSE x

LEMMA HearsTyped ==
  ASSUME NEW w \in Saids, NEW n \in 1 .. Len(w), NEW x \in Heards
  PROVE  Hears(w, x, n) \in Heards
<1> DEFINE S == [kind : Kinds, piece : Int]
           h == [kind |-> w[n].kind, piece |-> n]
<1>1. h \in S
  BY SaidFacts
<1>2. x \in Seq(S)
  BY DEF Heards
<1> HIDE DEF S, h
<1>3. Append(x, h) \in Seq(S)
  BY <1>1, <1>2
<1>4. QED
  BY <1>2, <1>3 DEF Hears, Heards, S, h

LEMMA GetsTyped ==
  ASSUME NEW w \in Saids, NEW n \in 1 .. Len(w), NEW c, NEW x \in Seq(Int)
  PROVE  Gets(w, c, x, n) \in Seq(Int)
<1>1. n \in Int
  BY SaidFacts
<1>2. Append(x, n) \in Seq(Int)
  BY <1>1
<1>3. QED
  BY <1>2 DEF Gets

LEMMA InOrder ==
  ASSUME NEW w \in Saids, NEW s, s = [n \in DOMAIN w |-> n]
  PROVE  Len(s) = Len(w) /\ \A i \in 1 .. Len(w) : s[i] = i
<1>1. Len(w) \in Nat /\ DOMAIN w = 1 .. Len(w)
  BY SaidFacts
<1>2. s = [n \in 1 .. Len(w) |-> n]
  BY <1>1
<1>3. QED
  BY <1>1, <1>2

LEMMA TextRuns ==
  ASSUME NEW w \in Saids
  PROVE  \E g : /\ TextIn(w) = g[Len(w)] /\ g[0] = <<>>
                /\ \A i \in 1 .. Len(w) : g[i] = Hears(w, g[i - 1], i)
                /\ g[Len(w)] \in Heards
<1> DEFINE n == Len(w)
           s == [i \in DOMAIN w |-> i]
           step == [i \in 1 .. n |-> [x \in Heards |-> Hears(w, x, i)]]
           D == [i \in 0 .. n |-> Heards]
           R(f) == f = [i \in 0 .. Len(s) |-> IF i = 0 THEN <<>> ELSE
                          IF w[s[i]].kind = "call" THEN f[i - 1] ELSE Append(f[i - 1], [kind |-> w[s[i]].kind, piece |-> s[i]])]
<1>1. n \in Nat
  BY SaidFacts
<1>2. Len(s) = n /\ \A i \in 1 .. n : s[i] = i
  BY InOrder
<1>3. \A i \in 1 .. n : \A x \in Heards : step[i][x] = Hears(w, x, i) /\ Hears(w, x, i) \in Heards
  BY HearsTyped
<1>4. \A i \in 1 .. n : D[i - 1] = Heards /\ D[i] = Heards
  BY <1>1
<1>5. D[0] = Heards /\ <<>> \in Heards
  BY <1>1 DEF Heards
<1> HIDE DEF n, s, step, D
<1>6. \A i \in 1 .. n : \A x \in D[i - 1] : step[i][x] \in D[i]
  BY <1>3, <1>4
<1>7. PICK f : Loop(f, n, <<>>, step) /\ \A i \in 0 .. n : f[i] \in D[i]
  BY <1>1, <1>5, <1>6, LoopRuns
<1>8. \A i \in 0 .. n : f[i] \in Heards
  BY <1>7 DEF D
<1>9. R(f)
  <2>1. ASSUME NEW i \in 0 .. n, i # 0
        PROVE  step[i][f[i - 1]] = IF w[s[i]].kind = "call" THEN f[i - 1]
                                   ELSE Append(f[i - 1], [kind |-> w[s[i]].kind, piece |-> s[i]])
    <3>1. i \in 1 .. n /\ i - 1 \in 0 .. n
      BY <1>1, <2>1
    <3>2. step[i][f[i - 1]] = Hears(w, f[i - 1], i) /\ s[i] = i
      BY <1>2, <1>3, <1>8, <3>1
    <3>3. QED
      BY <3>2 DEF Hears
  <2>2. [i \in 0 .. n |-> IF i = 0 THEN <<>> ELSE step[i][f[i - 1]]]
          = [i \in 0 .. n |-> IF i = 0 THEN <<>> ELSE
                          IF w[s[i]].kind = "call" THEN f[i - 1] ELSE Append(f[i - 1], [kind |-> w[s[i]].kind, piece |-> s[i]])]
    BY <2>1
  <2>3. QED
    BY <1>2, <1>7, <2>2 DEF Loop
<1>10. PICK g : R(g) /\ TextIn(w) = g[Len(s)]
  <2>1. \E h : R(h)
    BY <1>9
  <2>2. QED
    BY <2>1 DEF TextIn, Fold, s
<1>11. g[0] = <<>> /\ \A i \in 1 .. n : g[i] = Hears(w, g[i - 1], i)
  <2>1. g[0] = <<>>
    BY <1>1, <1>2, <1>10
  <2>2. ASSUME NEW i \in 1 .. n PROVE g[i] = Hears(w, g[i - 1], i)
    <3>1. i \in 0 .. n /\ i # 0 /\ s[i] = i
      BY <1>1, <1>2
    <3>2. g[i] = IF w[s[i]].kind = "call" THEN g[i - 1] ELSE Append(g[i - 1], [kind |-> w[s[i]].kind, piece |-> s[i]])
      BY <1>2, <1>10, <3>1
    <3>3. QED
      BY <3>1, <3>2 DEF Hears
  <2>3. QED
    BY <2>1, <2>2
<1>12. g[0] \in D[0] /\ \A i \in 1 .. n : g[i - 1] \in D[i - 1] => g[i] \in D[i]
  BY <1>3, <1>4, <1>5, <1>11
<1>13. \A i \in 0 .. n : g[i] \in D[i]
  BY <1>1, <1>12, Kept
<1>14. g[n] \in Heards
  BY <1>1, <1>13 DEF D
<1>15. QED
  BY <1>2, <1>10, <1>11, <1>14 DEF n

LEMMA ArgsRun ==
  ASSUME NEW w \in Saids, NEW c
  PROVE  \E g : /\ ArgsIn(w, c) = g[Len(w)] /\ g[0] = <<>>
                /\ \A i \in 1 .. Len(w) : g[i] = Gets(w, c, g[i - 1], i)
                /\ g[Len(w)] \in Seq(Int)
<1> DEFINE n == Len(w)
           s == [i \in DOMAIN w |-> i]
           step == [i \in 1 .. n |-> [x \in Seq(Int) |-> Gets(w, c, x, i)]]
           D == [i \in 0 .. n |-> Seq(Int)]
           R(f) == f = [i \in 0 .. Len(s) |-> IF i = 0 THEN <<>> ELSE
                          IF w[s[i]].call = c THEN Append(f[i - 1], s[i]) ELSE f[i - 1]]
<1>1. n \in Nat
  BY SaidFacts
<1>2. Len(s) = n /\ \A i \in 1 .. n : s[i] = i
  BY InOrder
<1>3. \A i \in 1 .. n : \A x \in Seq(Int) : step[i][x] = Gets(w, c, x, i) /\ Gets(w, c, x, i) \in Seq(Int)
  BY GetsTyped
<1>4. \A i \in 1 .. n : D[i - 1] = Seq(Int) /\ D[i] = Seq(Int)
  BY <1>1
<1>5. D[0] = Seq(Int) /\ <<>> \in Seq(Int)
  BY <1>1
<1> HIDE DEF n, s, step, D
<1>6. \A i \in 1 .. n : \A x \in D[i - 1] : step[i][x] \in D[i]
  BY <1>3, <1>4
<1>7. PICK f : Loop(f, n, <<>>, step) /\ \A i \in 0 .. n : f[i] \in D[i]
  BY <1>1, <1>5, <1>6, LoopRuns
<1>8. \A i \in 0 .. n : f[i] \in Seq(Int)
  BY <1>7 DEF D
<1>9. R(f)
  <2>1. ASSUME NEW i \in 0 .. n, i # 0
        PROVE  step[i][f[i - 1]] = IF w[s[i]].call = c THEN Append(f[i - 1], s[i]) ELSE f[i - 1]
    <3>1. i \in 1 .. n /\ i - 1 \in 0 .. n
      BY <1>1, <2>1
    <3>2. step[i][f[i - 1]] = Gets(w, c, f[i - 1], i) /\ s[i] = i
      BY <1>2, <1>3, <1>8, <3>1
    <3>3. QED
      BY <3>2 DEF Gets
  <2>2. [i \in 0 .. n |-> IF i = 0 THEN <<>> ELSE step[i][f[i - 1]]]
          = [i \in 0 .. n |-> IF i = 0 THEN <<>> ELSE
                          IF w[s[i]].call = c THEN Append(f[i - 1], s[i]) ELSE f[i - 1]]
    BY <2>1
  <2>3. QED
    BY <1>2, <1>7, <2>2 DEF Loop
<1>10. PICK g : R(g) /\ ArgsIn(w, c) = g[Len(s)]
  <2>1. \E h : R(h)
    BY <1>9
  <2>2. QED
    BY <2>1 DEF ArgsIn, Fold, s
<1>11. g[0] = <<>> /\ \A i \in 1 .. n : g[i] = Gets(w, c, g[i - 1], i)
  <2>1. g[0] = <<>>
    BY <1>1, <1>2, <1>10
  <2>2. ASSUME NEW i \in 1 .. n PROVE g[i] = Gets(w, c, g[i - 1], i)
    <3>1. i \in 0 .. n /\ i # 0 /\ s[i] = i
      BY <1>1, <1>2
    <3>2. g[i] = IF w[s[i]].call = c THEN Append(g[i - 1], s[i]) ELSE g[i - 1]
      BY <1>2, <1>10, <3>1
    <3>3. QED
      BY <3>1, <3>2 DEF Gets
  <2>3. QED
    BY <2>1, <2>2
<1>12. g[0] \in D[0] /\ \A i \in 1 .. n : g[i - 1] \in D[i - 1] => g[i] \in D[i]
  BY <1>3, <1>4, <1>5, <1>11
<1>13. \A i \in 0 .. n : g[i] \in D[i]
  BY <1>1, <1>12, Kept
<1>14. g[n] \in Seq(Int)
  BY <1>1, <1>13 DEF D
<1>15. QED
  BY <1>2, <1>10, <1>11, <1>14 DEF n

(* One more piece.                                                         *)
LEMMA TextMore ==
  ASSUME NEW w \in Saids, NEW kind \in Kinds, NEW c \in Nat
  PROVE  /\ TextIn(w) \in Heards
         /\ TextIn(Append(w, Piece(kind, c))) = IF kind = "call" THEN TextIn(w) ELSE Append(TextIn(w), [kind |-> kind, piece |-> Len(w) + 1])
<1> DEFINE v == Append(w, Piece(kind, c))
<1> DEFINE n == Len(w)
<1>1. n \in Nat
  BY SaidFacts
<1>2. /\ v \in Saids /\ Len(v) = Len(w) + 1 /\ \A i \in 1 .. Len(w) : v[i] = w[i]
      /\ v[Len(w) + 1].kind = kind /\ v[Len(w) + 1].call = c
  <2> DEFINE z == Append(w, Piece(kind, c))
  <2>1. /\ z \in Saids /\ Len(z) = Len(w) + 1 /\ \A i \in 1 .. Len(w) : z[i] = w[i]
        /\ z[Len(w) + 1].kind = kind /\ z[Len(w) + 1].call = c
    BY SaidMore, Zenon
  <2>2. QED
    BY <2>1 DEF v
<1> HIDE DEF v
<1>3. PICK f : /\ TextIn(w) = f[n] /\ f[0] = <<>> /\ \A i \in 1 .. n : f[i] = Hears(w, f[i - 1], i)
               /\ f[n] \in Heards
  BY TextRuns
<1>4. PICK g : /\ TextIn(v) = g[Len(v)] /\ g[0] = <<>>
               /\ \A i \in 1 .. Len(v) : g[i] = Hears(v, g[i - 1], i)
               /\ g[Len(v)] \in Heards
  <2>1. v \in Saids
    BY <1>2
  <2> QED
    BY <2>1, TextRuns, Zenon
<1> DEFINE m == n + 1
<1>a. Len(v) = m /\ m \in 1 .. Len(v) /\ m - 1 = n
  BY <1>1, <1>2
<1> HIDE DEF n, m
<1>5. \A i \in 1 .. n : i \in 1 .. Len(v)
  BY <1>1, <1>a DEF m
<1>6. \A i \in 1 .. n : f[i - 1] = g[i - 1] => f[i] = g[i]
  BY <1>2, <1>3, <1>4, <1>5 DEF Hears, n
<1>7. f[n] = g[n]
  <2>1. f[0] = g[0]
    BY <1>3, <1>4
  <2> QED
    BY <1>1, <1>6, <2>1, RoundsAgree, Zenon
<1>9. TextIn(v) = Hears(v, f[n], m)
  <2>1. g[m] = Hears(v, g[m - 1], m)
    BY <1>4, <1>a
  <2> QED
    BY <1>4, <1>a, <1>7, <2>1
<1>10. QED
  BY <1>2, <1>3, <1>9 DEF Hears, n, m, v

LEMMA ArgsMore ==
  ASSUME NEW w \in Saids, NEW kind \in Kinds, NEW c \in Nat, NEW d
  PROVE  /\ ArgsIn(w, d) \in Seq(Int)
         /\ ArgsIn(Append(w, Piece(kind, c)), d) = IF c = d THEN Append(ArgsIn(w, d), Len(w) + 1) ELSE ArgsIn(w, d)
<1> DEFINE v == Append(w, Piece(kind, c))
<1> DEFINE n == Len(w)
<1>1. n \in Nat
  BY SaidFacts
<1>2. /\ v \in Saids /\ Len(v) = Len(w) + 1 /\ \A i \in 1 .. Len(w) : v[i] = w[i]
      /\ v[Len(w) + 1].kind = kind /\ v[Len(w) + 1].call = c
  <2> DEFINE z == Append(w, Piece(kind, c))
  <2>1. /\ z \in Saids /\ Len(z) = Len(w) + 1 /\ \A i \in 1 .. Len(w) : z[i] = w[i]
        /\ z[Len(w) + 1].kind = kind /\ z[Len(w) + 1].call = c
    BY SaidMore, Zenon
  <2>2. QED
    BY <2>1 DEF v
<1> HIDE DEF v
<1>3. PICK f : /\ ArgsIn(w, d) = f[n] /\ f[0] = <<>> /\ \A i \in 1 .. n : f[i] = Gets(w, d, f[i - 1], i)
               /\ f[n] \in Seq(Int)
  BY ArgsRun
<1>4. PICK g : /\ ArgsIn(v, d) = g[Len(v)] /\ g[0] = <<>>
               /\ \A i \in 1 .. Len(v) : g[i] = Gets(v, d, g[i - 1], i)
               /\ g[Len(v)] \in Seq(Int)
  <2>1. v \in Saids
    BY <1>2
  <2> QED
    BY <2>1, ArgsRun, Zenon
<1> DEFINE m == n + 1
<1>a. Len(v) = m /\ m \in 1 .. Len(v) /\ m - 1 = n
  BY <1>1, <1>2
<1> HIDE DEF n, m
<1>5. \A i \in 1 .. n : i \in 1 .. Len(v)
  BY <1>1, <1>a DEF m
<1>6. \A i \in 1 .. n : f[i - 1] = g[i - 1] => f[i] = g[i]
  BY <1>2, <1>3, <1>4, <1>5 DEF Gets, n
<1>7. f[n] = g[n]
  <2>1. f[0] = g[0]
    BY <1>3, <1>4
  <2> QED
    BY <1>1, <1>6, <2>1, RoundsAgree, Zenon
<1>9. ArgsIn(v, d) = Gets(v, d, f[n], m)
  <2>1. g[m] = Gets(v, d, g[m - 1], m)
    BY <1>4, <1>a
  <2> QED
    BY <1>4, <1>a, <1>7, <2>1
<1>10. QED
  BY <1>2, <1>3, <1>9 DEF Gets, n, m, v

LEMMA NothingSaid ==
  TextIn(<<>>) = <<>> /\ \A c : ArgsIn(<<>>, c) = <<>>
<1>1. <<>> \in Saids /\ Len(<<>>) = 0
  BY DEF Saids
<1>2. TextIn(<<>>) = <<>>
  BY <1>1, TextRuns
<1>3. ASSUME NEW c PROVE ArgsIn(<<>>, c) = <<>>
  BY <1>1, ArgsRun
<1>4. QED
  BY <1>2, <1>3

(* Arguments are given only of pieces of the call.                         *)
LEMMA ArgsGiven ==
  ASSUME NEW w \in Saids, NEW c, \A i \in 1 .. Len(w) : w[i].call # c
  PROVE  ArgsIn(w, c) = <<>>
<1> DEFINE n == Len(w)
           f == [i \in 0 .. n |-> <<>>]
<1>1. n \in Nat
  BY SaidFacts
<1>2. PICK g : /\ ArgsIn(w, c) = g[n] /\ g[0] = <<>> /\ \A i \in 1 .. n : g[i] = Gets(w, c, g[i - 1], i)
  BY ArgsRun
<1>3. /\ \A i \in 1 .. n : f[i] = <<>> /\ f[i - 1] = <<>>
      /\ f[0] = <<>> /\ f[n] = <<>>
  BY <1>1
<1>4. \A i \in 1 .. n : w[i].call # c
  OBVIOUS
<1> HIDE DEF n, f
<1>5. \A i \in 1 .. n : f[i - 1] = g[i - 1] => f[i] = g[i]
  BY <1>2, <1>3, <1>4 DEF Gets
<1>6. f[n] = g[n]
  BY <1>1, <1>2, <1>3, <1>5, RoundsAgree
<1>7. QED
  BY <1>2, <1>3, <1>6

-----------------------------------------------------------------------------
(* The account of an answer                                                *)

CallsKnown(p) == {c \in Calls : c <= p.started}
Knows(p1, p, c) == CallsKnown(p1) = CallsKnown(p) \cup {c}
ArgsOf(w) == [c \in Calls |-> ArgsIn(w, c)]
Account(p, w) == [heard |-> TextIn(w), known |-> CallsKnown(p), args |-> ArgsOf(w)]

LEMMA ArgsOfFacts ==
  ASSUME NEW w \in Saids
  PROVE  ArgsOf(w) \in [Calls -> Seq(Int)] /\ \A c \in Calls : ArgsOf(w)[c] = ArgsIn(w, c)
<1>1. ASSUME NEW c PROVE ArgsIn(w, c) \in Seq(Int)
  BY <1>1, ArgsMore DEF Kinds
<1>2. QED
  BY <1>1 DEF ArgsOf

LEMMA AccountPiece ==
  ASSUME NEW w \in Saids, NEW kind \in {"think", "text"}, NEW p, NEW p1, p1.started = p.started
  PROVE  Account(p1, Append(w, Piece(kind, Nothing))) = AddPiece(Account(p, w), kind, Len(w) + 1)
<1> DEFINE v == Append(w, Piece(kind, Nothing))
           n == Len(w) + 1
           h == [kind |-> kind, piece |-> n]
<1>1. n > 0 /\ kind \in Kinds /\ kind # "call" /\ Nothing \in Nat
  BY SaidFacts DEF Kinds, Nothing
<1>2. TextIn(v) = Append(TextIn(w), h)
  BY <1>1, TextMore
<1>3. ASSUME NEW c \in Calls PROVE ArgsIn(v, c) = ArgsIn(w, c)
  <2>1. Nothing # c
    BY CallsAreSlots
  <2>2. ArgsIn(v, c) = IF Nothing = c THEN Append(ArgsIn(w, c), n) ELSE ArgsIn(w, c)
    BY <1>1, ArgsMore
  <2>3. QED
    BY <2>1, <2>2
<1> HIDE DEF v, n, h
<1>4. ArgsOf(v) = ArgsOf(w)
  BY <1>3 DEF ArgsOf
<1>5. CallsKnown(p1) = CallsKnown(p)
  BY DEF CallsKnown
<1> DEFINE A == Account(p, w)
           x == Append(TextIn(w), h)
<1>6. A = [heard |-> TextIn(w), known |-> CallsKnown(p), args |-> ArgsOf(w)]
  BY DEF Account
<1>7. Account(p1, v) = [heard |-> x, known |-> CallsKnown(p), args |-> ArgsOf(w)]
  BY <1>2, <1>4, <1>5 DEF Account
<1> HIDE DEF A
<1>8. AddPiece(A, kind, n) = [heard |-> x, known |-> CallsKnown(p), args |-> ArgsOf(w)]
  <2>1. AddPiece(A, kind, n) = [A EXCEPT !.heard = x]
    BY <1>1, <1>6 DEF AddPiece, h
  <2> HIDE DEF x
  <2>2. QED
    BY <1>6, <2>1
<1>9. QED
  BY <1>7, <1>8 DEF v, n, A

(* A call that is named, or given arguments, or both.                      *)
LEMMA AccountCall ==
  ASSUME NEW w \in Saids, NEW c \in Calls, NEW p, NEW p1, Knows(p1, p, c),
         NEW t, t.at = c - 1
  PROVE  /\ t.args = Nothing => Account(p1, w) = AddCall(Account(p, w), t)
         /\ t.args = Len(w) + 1 => Account(p1, Append(w, Piece("call", c))) = AddCall(Account(p, w), t)
<1> DEFINE v == Append(w, Piece("call", c))
           n == Len(w) + 1
           args == ArgsOf(w)
           g == Given(args, c, <<n>>)
           A == Account(p, w)
<1>1. n # Nothing /\ "call" \in Kinds /\ c \in Nat /\ t.at + 1 = c /\ n \in Int
  BY SaidFacts, CallsAreSlots DEF Kinds, Nothing
<1>2. TextIn(v) = TextIn(w)
  BY <1>1, TextMore
<1>3. ASSUME NEW d \in Calls
      PROVE  ArgsIn(v, d) = IF c = d THEN Append(ArgsIn(w, d), n) ELSE ArgsIn(w, d)
  BY <1>1, ArgsMore
<1>4. args \in [Calls -> Seq(Int)] /\ \A d \in Calls : args[d] = ArgsIn(w, d)
  BY ArgsOfFacts
<1> HIDE DEF v, n, args
<1>5. g \in [Calls -> Seq(Int)] /\ g[c] = Append(args[c], n) /\ \A d \in Calls : d # c => g[d] = args[d]
  BY <1>1, <1>4, GivenOne
<1> HIDE DEF g
<1>6. ArgsOf(v) = g
  <2>1. \A d \in Calls : ArgsIn(v, d) = g[d]
    BY <1>3, <1>4, <1>5
  <2>2. g = [d \in Calls |-> g[d]]
    BY <1>5
  <2>3. QED
    BY <2>1, <2>2 DEF ArgsOf
<1>7. A = [heard |-> TextIn(w), known |-> CallsKnown(p), args |-> args]
  BY DEF Account, args
<1> HIDE DEF A
<1>8. ASSUME t.args = Nothing PROVE Account(p1, w) = AddCall(A, t)
  <2>1. AddCall(A, t) = [heard |-> TextIn(w), known |-> CallsKnown(p) \cup {c}, args |-> args]
    <3>1. AddCall(A, t) = [A EXCEPT !.known = @ \cup {c}, !.args = @]
      BY <1>1, <1>8 DEF AddCall
    <3>2. QED
      BY <1>7, <3>1
  <2>2. Account(p1, w) = [heard |-> TextIn(w), known |-> CallsKnown(p) \cup {c}, args |-> args]
    BY DEF Account, args, Knows
  <2>3. QED
    BY <2>1, <2>2
<1>9. ASSUME t.args = n PROVE Account(p1, v) = AddCall(A, t)
  <2>1. t.args # Nothing
    BY <1>1, <1>9
  <2>2. AddCall(A, t) = [heard |-> TextIn(w), known |-> CallsKnown(p) \cup {c}, args |-> g]
    <3>1. AddCall(A, t) = [A EXCEPT !.known = @ \cup {c}, !.args = Given(@, c, <<n>>)]
      BY <1>1, <1>9, <2>1 DEF AddCall
    <3>2. QED
      BY <1>7, <3>1 DEF g
  <2>3. Account(p1, v) = [heard |-> TextIn(w), known |-> CallsKnown(p) \cup {c}, args |-> g]
    BY <1>2, <1>6 DEF Account, Knows
  <2>4. QED
    BY <2>2, <2>3
<1>10. QED
  BY <1>8, <1>9 DEF n, v, A

LEMMA OneIs ==
  ASSUME NEW S, NEW a \in S
  PROVE  <<a>> \in Seq(S) /\ Len(<<a>>) = 1 /\ <<a>>[1] = a
OBVIOUS

LEMMA ChunkParts ==
  ASSUME NEW n, NEW m, NEW tools, NEW reason, NEW c, c = Chunk(n, m, tools, reason)
  PROVE  c.think = n /\ c.text = m /\ c.tools = tools /\ c.finish = reason
BY DEF Chunk

LEMMA ChunkTyped ==
  ASSUME NEW n \in Int, NEW m \in Int, NEW tools \in Seq(ToolEntries), NEW reason \in Finishings,
         NEW c, c = Chunk(n, m, tools, reason)
  PROVE  c \in ChunksSaid
BY DEF Chunk, ChunksSaid

(* What chunks add.                                                        *)
LEMMA PlainAdds ==
  ASSUME NEW A, NEW n \in Int, NEW m \in Int, NEW reason
  PROVE  /\ AddChunk(A, Plain(n, m, reason)) = AddPiece(AddPiece(A, "think", n), "text", m)
         /\ n <= 0 => AddChunk(A, Plain(n, m, reason)) = AddPiece(A, "text", m)
         /\ m <= 0 => AddChunk(A, Plain(n, m, reason)) = AddPiece(A, "think", n)
         /\ n <= 0 /\ m <= 0 => AddChunk(A, Plain(n, m, reason)) = A
<1> DEFINE c == Plain(n, m, reason)
           B == AddPiece(AddPiece(A, "think", n), "text", m)
           none == <<>>
<1>1. c.think = n /\ c.text = m /\ c.tools = none
  BY DEF Plain, Chunk
<1>2. Len(none) = 0 /\ Len(none) \in {0, 1, 2}
  OBVIOUS
<1> HIDE DEF c, none
<1>3. AddChunk(A, c) = B
  <2>1. AddChunk(A, c) = AddCalls(B, none)
    BY <1>1 DEF AddChunk
  <2> HIDE DEF B
  <2>2. AddCalls(B, none) = B
    BY <1>2, CallsAddedAre
  <2>3. QED
    BY <2>1, <2>2
<1>4. /\ n <= 0 => AddPiece(A, "think", n) = A
      /\ \A C : m <= 0 => AddPiece(C, "text", m) = C
  BY DEF AddPiece
<1> HIDE DEF B
<1>5. QED
  BY <1>3, <1>4 DEF B, c

LEMMA UsesAdds ==
  ASSUME NEW A, NEW t
  PROVE  AddChunk(A, Uses(t)) = AddCall(A, t)
<1> DEFINE c == Uses(t)
           tools == <<t>>
<1>1. c.think = 0 /\ c.text = 0 /\ c.tools = tools
  BY DEF Uses, Chunk, Nothing
<1>2. Len(tools) = 1 /\ Len(tools) \in {0, 1, 2} /\ tools[1] = t
  OBVIOUS
<1> HIDE DEF c, tools
<1>3. AddPiece(AddPiece(A, "think", c.think), "text", c.text) = A
  BY <1>1 DEF AddPiece
<1>4. AddCalls(A, tools) = AddCall(A, t)
  BY <1>2, CallsAddedAre
<1>5. AddChunk(A, c) = AddCall(A, t)
  BY <1>1, <1>3, <1>4 DEF AddChunk
<1>6. QED
  BY <1>5 DEF c

LEMMA PlainIsTakeable ==
  ASSUME NEW A, NEW n \in Nat, NEW m \in Int, NEW reason \in Finishings
  PROVE  Takeable(A, Plain(n, m, reason))
<1> DEFINE c == Plain(n, m, reason)
           none == <<>>
<1>1. none \in Seq(ToolEntries) /\ Len(none) = 0 /\ 1 .. 0 = {}
  OBVIOUS
<1>2. c = Chunk(n, m, none, reason)
  BY DEF Plain
<1>3. n \in Int
  OBVIOUS
<1> HIDE DEF c, none
<1>4. c.think = n /\ c.tools = none /\ c \in ChunksSaid
  <2>1. c.think = n /\ c.tools = none
    BY <1>2, ChunkParts
  <2>2. c \in ChunksSaid
    BY <1>1, <1>2, <1>3, ChunkTyped
  <2>3. QED
    BY <2>1, <2>2
<1>5. FitIn(A, none)
  BY <1>1 DEF FitIn
<1>6. Takeable(A, c)
  BY <1>4, <1>5 DEF Takeable
<1>7. QED
  BY <1>6 DEF c

LEMMA UsesIsTakeable ==
  ASSUME NEW A, NEW t, FitsIn(A, t)
  PROVE  Takeable(A, Uses(t)) /\ Uses(t).finish = "" /\ Uses(t).text = 0
<1> DEFINE c == Uses(t)
           tools == <<t>>
<1>1. t \in ToolEntries
  BY DEF FitsIn
<1>2. tools \in Seq(ToolEntries) /\ Len(tools) = 1 /\ tools[1] = t
  BY <1>1, OneIs
<1>3. c = Chunk(Nothing, Nothing, tools, "")
  BY DEF Uses
<1>4. Nothing \in Int /\ Nothing \in Nat /\ "" \in Finishings /\ Nothing = 0 /\ 1 .. 1 = {1}
  BY DEF Nothing, Finishings
<1> HIDE DEF c, tools
<1>5. c.think = Nothing /\ c.text = Nothing /\ c.tools = tools /\ c.finish = "" /\ c \in ChunksSaid
  <2>1. c.think = Nothing /\ c.text = Nothing /\ c.tools = tools /\ c.finish = ""
    BY <1>3 DEF Chunk
  <2>2. c \in ChunksSaid
    BY <1>2, <1>3, <1>4, ChunkTyped
  <2>3. QED
    BY <2>1, <2>2
<1>6. FitIn(A, tools)
  BY <1>2, <1>4 DEF FitIn
<1>7. Takeable(A, c)
  BY <1>4, <1>5, <1>6 DEF Takeable
<1>8. QED
  BY <1>4, <1>5, <1>7 DEF c

-----------------------------------------------------------------------------
(* A stream whose client has been told what has been said                  *)

(* While the provider speaks, the client has what the second hop believes  *)
(* to have told it; then it has all of the answer, and its end.            *)
Conveyed ==
  /\ prov.over = "no" => Holds(client, st, reader, Account(prov, said))
  /\ prov.over # "no" =>
       /\ Conveys(reader, Account(prov, said))
       /\ \E reason \in Reasons :
            /\ reader.ends = <<reason>>
            /\ prov.over = "finished" /\ client # "responses" => reason = FinishReason

(* What the first hop has noted of the provider.                           *)
ClaudeAt(s, p) ==
  /\ s.serverBlock = IF p.kind = "server" THEN p.index ELSE NoBlock
  /\ s.thinkingBlock = IF p.kind = "think" THEN p.index ELSE NoBlock
  /\ p.kind = "call" => p.started \in Calls /\ s.toolCalls[p.index] = [call |-> p.started, at |-> p.started - 1]
  /\ (\E i \in Slots : s.toolCalls[i] # NoTool) <=> p.started > 0
  /\ p.over = "no" => ~ s.finishSent

ResponsesAt(s, p, w, q) ==
  /\ s.current # Nothing => p.started > 0
  /\ p.over = "no" => ~ s.finishSent
  /\ \A c \in Calls : c - 1 \in s.argsEmitted <=> \E i \in DOMAIN w : w[i].call = c
  /\ \A i \in DOMAIN w : w[i].call <= p.started
  /\ ~ s.started => ~ q.begun

Noted ==
  /\ up = "claude" => ClaudeAt(st, prov)
  /\ up = "responses" => ResponsesAt(st, prov, said, reader)

(* Only the thinking of Claude Messages is told between tags.              *)
Thoughtful(s, p) == client = "responses" /\ p.over = "no" /\ s.inThinking => up = "claude" /\ p.kind = "think"

Knowing == Talking /\ <<up, client>> \in Chains /\ ~ PassedOn /\ ~ Direct(up, client)

LEMMA KnowingFacts ==
  ASSUME Knowing
  PROVE  /\ up \in Formats /\ client \in Clients /\ up # client /\ ~ Direct(up, client)
         /\ reader \in Readers /\ st \in State /\ prov \in Providers /\ said \in Saids
         /\ Tells(up, client, st, reader, prov)
         /\ prov.over = "no" => Fits(client, st, reader, SlotsKnown(up, prov))
         /\ SlotsKnown(up, prov) \in SUBSET Slots
<1>1. up \in Formats /\ client \in Clients
  BY ChainIs DEF Knowing
<1>2. /\ reader \in Readers /\ st \in State /\ prov \in Providers /\ said \in Saids
      /\ Tells(up, client, st, reader, prov)
  BY DEF Knowing, Talking, StreamTyped
<1>3. SlotsKnown(up, prov) \in SUBSET Slots
  BY KnownAreSlots
<1>4. QED
  BY <1>1, <1>2, <1>3 DEF Knowing, PassedOn, Tells

(* An event of which the first hop makes the chunk c.                      *)
LEMMA OneArrives ==
  ASSUME Knowing, prov.over = "no", NEW A, Holds(client, st, reader, A),
         NEW e, Arrives(e), NEW t \in State, Same(client, st, t), NEW c,
         ToOpenAI(up, e, st) = OnePivot(t, c), Usable(client, c, SlotsKnown(up, prov)),
         Takeable(A, c), Suits(client, t, c)
  PROVE  /\ Leaves(client, t, st') /\ client' = client /\ up' = up
         /\ c.finish = "" => Holds(client, st', reader', AddChunk(A, c)) /\ StillThinks(client, t, c, st')
         /\ c.finish # "" => Ended(reader', Ending(client, c.finish), AddChunk(A, c))
<1> DEFINE N == SlotsKnown(up, prov)
           p == OnePivot(t, c)
           r == SecondHop(client, Result(t), p.out)
<1>1. /\ up \in Formats /\ client \in Clients /\ up # client /\ ~ Direct(up, client)
      /\ reader \in Readers /\ st \in State /\ Fits(client, st, reader, N) /\ N \in SUBSET Slots
  BY KnowingFacts
<1>2. c \in ChunksSaid
  BY DEF Takeable
<1>3. Sent(client, st, N, p) /\ p.st = t
  BY <1>2, SendsOne
<1>4. Translate(up, client, e, st) = r
  BY <1>1, <1>3, TranslateIs
<1>5. st' = r.st /\ reader' = After(reader, r.out) /\ up' = up /\ client' = client
  BY <1>4, ArrivesIs
<1>6. Learns(client, t, reader, A, c, r)
  <2> HIDE DEF N
  <2>1. r = SecondHop(client, Result(t), OnePivot(t, c).out)
    OBVIOUS
  <2> HIDE DEF r
  <2>2. QED
    BY <1>1, <2>1, OneSays DEF N
<1>7. Leaves(client, t, r.st)
  <2>1. r = SecondHop(client, Result(p.st), p.out)
    BY <1>3
  <2> HIDE DEF r, p, N
  <2>2. Leaves(client, p.st, r.st)
    BY <1>1, <1>3, <2>1, Arrival
  <2>3. QED
    BY <1>3, <2>2
<1> HIDE DEF r
<1>8. QED
  BY <1>5, <1>6, <1>7 DEF Learns

(* ... which says what has been said, and ends the answer if it is over.   *)
LEMMA OneConveyed ==
  ASSUME Knowing, prov.over = "no", Conveyed,
         NEW e, Arrives(e), NEW t \in State, Same(client, st, t), NEW c,
         ToOpenAI(up, e, st) = OnePivot(t, c), Usable(client, c, SlotsKnown(up, prov)),
         Takeable(Account(prov, said), c), Suits(client, t, c),
         Account(prov', said') = AddChunk(Account(prov, said), c),
         c.finish = "" <=> prov'.over = "no",
         prov'.over = "finished" => c.finish = FinishReason'
  PROVE  /\ Conveyed' /\ Leaves(client, t, st')
         /\ prov'.over = "no" => StillThinks(client, t, c, st')
<1> DEFINE A == Account(prov, said)
           B == AddChunk(A, c)
           reason == Ending(client, c.finish)
<1>1. Holds(client, st, reader, A)
  BY DEF Conveyed
<1>2. /\ Leaves(client, t, st') /\ client' = client
      /\ c.finish = "" => Holds(client, st', reader', B) /\ StillThinks(client, t, c, st')
      /\ c.finish # "" => Ended(reader', Ending(client, c.finish), B)
  <2> HIDE DEF A
  <2>1. QED
    BY <1>1, OneArrives DEF A
<1>3. Account(prov, said)' = B
  BY DEF Account
<1>4. c.finish \in Finishings
  BY DEF Takeable, ChunksSaid
<1>5. c.finish # "" => reason \in Reasons /\ (client # "responses" => reason = c.finish)
  BY <1>4 DEF Ending, Reasons, Finishings
<1> HIDE DEF A, B, reason
<1>6. prov'.over = "no" => Holds(client, st, reader, Account(prov, said))'
  BY <1>2, <1>3
<1>7. prov'.over # "no" =>
       /\ Conveys(reader', Account(prov, said)')
       /\ \E why \in Reasons :
            /\ reader'.ends = <<why>>
            /\ prov'.over = "finished" /\ client' # "responses" => why = FinishReason'
  BY <1>2, <1>3, <1>5 DEF Ended, reason
<1>8. Conveyed'
  BY <1>6, <1>7 DEF Conveyed
<1>9. QED
  BY <1>2, <1>8

(* An event of which the first hop makes nothing.                          *)
LEMMA NoneArrives ==
  ASSUME Knowing, NEW e, Arrives(e), NEW t \in State, ToOpenAI(up, e, st) = NoPivot(t)
  PROVE  st' = t /\ reader' = reader /\ client' = client /\ up' = up
<1> DEFINE r == SecondHop(client, Result(t), NoPivot(t).out)
           p == NoPivot(t)
<1>1. /\ up \in Formats /\ client \in Clients /\ up # client /\ ~ Direct(up, client)
      /\ reader \in Readers
  BY KnowingFacts
<1>2. p.st = t /\ p.out = <<>>
  BY DEF NoPivot
<1>3. Translate(up, client, e, st) = r
  BY <1>1, <1>2, TranslateIs
<1>4. r = Result(t) /\ Result(t).st = t /\ After(reader, Result(t).out) = reader
  BY <1>1, <1>2, NoArrival
<1> HIDE DEF r, p
<1>5. QED
  BY <1>3, <1>4, ArrivesIs

LEMMA NoneConveyed ==
  ASSUME Knowing, Conveyed, NEW e, Arrives(e), NEW t \in State, Same(client, st, t),
         ToOpenAI(up, e, st) = NoPivot(t),
         Account(prov', said') = Account(prov, said), prov'.over = prov.over, prov'.started = prov.started
  PROVE  Conveyed' /\ st' = t /\ reader' = reader
<1>1. st' = t /\ reader' = reader /\ client' = client
  BY NoneArrives
<1>2. Account(prov, said)' = Account(prov, said) /\ FinishReason' = FinishReason
  BY DEF Account, FinishReason
<1> DEFINE A == Account(prov, said)
<1> HIDE DEF A
<1>3. prov.over = "no" => Holds(client, t, reader, A)
  BY HasSame DEF Conveyed, A
<1>4. prov'.over = "no" => Holds(client, st, reader, Account(prov, said))'
  BY <1>1, <1>2, <1>3 DEF A
<1>5. prov'.over # "no" =>
       /\ Conveys(reader', Account(prov, said)')
       /\ \E reason \in Reasons :
            /\ reader'.ends = <<reason>>
            /\ prov'.over = "finished" /\ client' # "responses" => reason = FinishReason'
  BY <1>1, <1>2 DEF Conveyed
<1>6. QED
  BY <1>1, <1>4, <1>5 DEF Conveyed

-----------------------------------------------------------------------------
(* One chunk more                                                          *)

(* The client has been told, and the first hop has noted it.               *)
Informed == Conveyed /\ Noted /\ Thoughtful(st, prov)

LEMMA NaturalPlainIsUsable ==
  ASSUME NEW n \in Nat, NEW m \in Int, NEW reason \in Finishings, NEW cl, NEW N
  PROVE  Usable(cl, Plain(n, m, reason), N)
<1>1. n \in Int
  OBVIOUS
<1>2. QED
  BY <1>1, PlainFacts

(* A call is nothing between tags.                                         *)
LEMMA UsesSuit ==
  ASSUME NEW A, NEW x, FitsIn(A, x), NEW cl, NEW t, NEW u
  PROVE  Suits(cl, t, Uses(x)) /\ (StillThinks(cl, t, Uses(x), u) => (cl = "responses" /\ u.inThinking => t.inThinking))
<1> DEFINE c == Uses(x)
<1>1. c.text = 0
  BY UsesIsTakeable
<1> HIDE DEF c
<1>2. Suits(cl, t, c)
  BY <1>1 DEF Suits, TextFits, CloseTag
<1>3. c.text # OpenTag
  BY <1>1 DEF OpenTag
<1>4. QED
  BY <1>2, <1>3 DEF StillThinks, c

(* A chunk without entries of calls.                                       *)
LEMMA PlainConveyed ==
  ASSUME Knowing, prov.over = "no", Conveyed,
         NEW e, Arrives(e), NEW t \in State, Same(client, st, t),
         NEW n \in Nat, NEW m \in Int, NEW reason \in Finishings,
         ToOpenAI(up, e, st) = OnePivot(t, Plain(n, m, reason)),
         client = "claude" => m \in Nat,
         client = "responses" => m >= CloseTag /\ (m > 0 => ~ t.inThinking),
         Account(prov', said') = AddChunk(Account(prov, said), Plain(n, m, reason)),
         reason = "" <=> prov'.over = "no",
         prov'.over = "finished" => reason = FinishReason'
  PROVE  /\ Conveyed' /\ Leaves(client, t, st') /\ client' = client /\ up' = up
         /\ prov'.over = "no" /\ client = "responses" /\ st'.inThinking =>
              m = OpenTag \/ (t.inThinking /\ m # CloseTag)
<1> DEFINE c == Plain(n, m, reason)
           N == SlotsKnown(up, prov)
           A == Account(prov, said)
<1>1. c.text = m /\ c.finish = reason
  BY DEF Plain, Chunk
<1>2. Usable(client, c, N)
  BY NaturalPlainIsUsable, Zenon
<1>3. Takeable(A, c)
  <2> HIDE DEF A
  <2>1. QED
    BY PlainIsTakeable
<1>4. /\ ToOpenAI(up, e, st) = OnePivot(t, c) /\ Usable(client, c, SlotsKnown(up, prov))
      /\ Takeable(Account(prov, said), c) /\ Account(prov', said') = AddChunk(Account(prov, said), c)
  BY <1>2, <1>3
<1> HIDE DEF c, N, A
<1>5. Suits(client, t, c)
  BY <1>1 DEF Suits, TextFits
<1>6. c.finish = "" <=> prov'.over = "no"
  BY <1>1
<1>7. prov'.over = "finished" => c.finish = FinishReason'
  BY <1>1
<1>8. Conveyed' /\ Leaves(client, t, st') /\ (prov'.over = "no" => StillThinks(client, t, c, st'))
  BY <1>4, <1>5, <1>6, <1>7, OneConveyed
<1>9. client' = client /\ up' = up
  BY DEF Arrives
<1>10. QED
  BY <1>1, <1>8, <1>9 DEF StillThinks

(* A chunk with an entry of a call.                                        *)
LEMMA UsesConveyed ==
  ASSUME Knowing, prov.over = "no", Conveyed,
         NEW e, Arrives(e), NEW t \in State, Same(client, st, t),
         NEW x, FitsIn(Account(prov, said), x),
         ToOpenAI(up, e, st) = OnePivot(t, Uses(x)), Usable(client, Uses(x), SlotsKnown(up, prov)),
         Account(prov', said') = AddCall(Account(prov, said), x),
         prov'.over = "no"
  PROVE  /\ Conveyed' /\ Leaves(client, t, st') /\ client' = client /\ up' = up
         /\ client = "responses" /\ st'.inThinking => t.inThinking
<1> DEFINE c == Uses(x)
           A == Account(prov, said)
<1>1. Takeable(A, c) /\ c.finish = "" /\ c.text = 0
  <2> HIDE DEF A
  <2>1. FitsIn(A, x)
    BY DEF A
  <2>2. QED
    BY <2>1, UsesIsTakeable
<1>2. AddChunk(A, c) = AddCall(A, x)
  <2> HIDE DEF A
  <2>1. QED
    BY UsesAdds
<1>3. /\ ToOpenAI(up, e, st) = OnePivot(t, c) /\ Usable(client, c, SlotsKnown(up, prov))
      /\ Takeable(Account(prov, said), c) /\ Account(prov', said') = AddChunk(Account(prov, said), c)
  BY <1>1, <1>2
<1> HIDE DEF c, A
<1>4. Suits(client, t, c) /\ (StillThinks(client, t, c, st') => (client = "responses" /\ st'.inThinking => t.inThinking))
  BY UsesSuit, Zenon DEF c
<1>5. (c.finish = "" <=> prov'.over = "no") /\ (prov'.over = "finished" => c.finish = FinishReason')
  BY <1>1
<1>6. Conveyed' /\ Leaves(client, t, st') /\ (prov'.over = "no" => StillThinks(client, t, c, st'))
  BY <1>3, <1>4, <1>5, OneConveyed
<1>7. client' = client /\ up' = up
  BY DEF Arrives
<1>8. QED
  BY <1>4, <1>6, <1>7

LEMMA SameAccount ==
  ASSUME NEW p, NEW q, q.started = p.started, NEW w
  PROVE  Account(q, w) = Account(p, w)
<1>1. CallsKnown(q) = CallsKnown(p)
  BY DEF CallsKnown
<1>2. QED
  BY <1>1 DEF Account

LEMMA NothingAdded ==
  ASSUME NEW A, NEW m \in {Nothing, OpenTag, CloseTag}, NEW reason
  PROVE  AddChunk(A, Plain(Nothing, m, reason)) = A
<1>1. m \in Int /\ m <= 0 /\ Nothing \in Int /\ Nothing <= 0
  BY DEF Nothing, OpenTag, CloseTag
<1>2. QED
  BY <1>1, PlainAdds

(* A chunk of nothing leaves the account as it is.                         *)
LEMMA NothingAccounted ==
  ASSUME prov'.started = prov.started, said' = said, NEW m \in {Nothing, OpenTag, CloseTag}, NEW reason
  PROVE  Account(prov', said') = AddChunk(Account(prov, said), Plain(Nothing, m, reason))
<1> DEFINE A == Account(prov, said)
<1>1. Account(prov', said') = A
  BY SameAccount
<1> HIDE DEF A
<1>2. AddChunk(A, Plain(Nothing, m, reason)) = A
  BY NothingAdded
<1>3. QED
  BY <1>1, <1>2 DEF A

-----------------------------------------------------------------------------
(* What the first hop makes of the events of Claude Messages               *)

IndexReset(s) == [s EXCEPT !.toolIndex = 0]
ThinkingNoted(s, i) == [s EXCEPT !.thinkingBlock = i]
ServingNoted(s, i) == [s EXCEPT !.serverBlock = i]
FinishNoted(s) == [s EXCEPT !.finishSent = TRUE]
ToolNoted(s, i, c) ==
  [s EXCEPT !.toolCalls = [s.toolCalls EXCEPT ![i] = [call |-> c, at |-> s.toolIndex]], !.toolIndex = s.toolIndex + 1]

LEMMA NotedFacts ==
  ASSUME NEW s \in State, NEW i \in Int, NEW cl
  PROVE  /\ IndexReset(s) \in State /\ Same(cl, s, IndexReset(s)) /\ IndexReset(s).inThinking = s.inThinking
         /\ ThinkingNoted(s, i) \in State /\ Same(cl, s, ThinkingNoted(s, i)) /\ ThinkingNoted(s, i).inThinking = s.inThinking
         /\ ServingNoted(s, i) \in State /\ Same(cl, s, ServingNoted(s, i)) /\ ServingNoted(s, i).inThinking = s.inThinking
         /\ FinishNoted(s) \in State /\ Same(cl, s, FinishNoted(s)) /\ FinishNoted(s).inThinking = s.inThinking
<1>1. IndexReset(s) \in State /\ Same(cl, s, IndexReset(s)) /\ IndexReset(s).inThinking = s.inThinking
  BY DEF IndexReset, State, Same
<1>2. ThinkingNoted(s, i) \in State /\ Same(cl, s, ThinkingNoted(s, i)) /\ ThinkingNoted(s, i).inThinking = s.inThinking
  BY DEF ThinkingNoted, State, Same
<1>3. ServingNoted(s, i) \in State /\ Same(cl, s, ServingNoted(s, i)) /\ ServingNoted(s, i).inThinking = s.inThinking
  BY DEF ServingNoted, State, Same
<1>4. FinishNoted(s) \in State /\ Same(cl, s, FinishNoted(s)) /\ FinishNoted(s).inThinking = s.inThinking
  BY DEF FinishNoted, State, Same
<1>5. QED
  BY <1>1, <1>2, <1>3, <1>4

LEMMA ClaudeMakesOfStart ==
  ASSUME NEW s \in State, NEW e
  PROVE  /\ e.type = "message_start" => ClaudeToOpenAI(e, s) = OnePivot(IndexReset(s), Plain(Nothing, Nothing, ""))
         /\ e.type = "start" =>
              /\ e.kind = "think" => ClaudeToOpenAI(e, s) = OnePivot(ThinkingNoted(s, e.index), Plain(Nothing, OpenTag, ""))
              /\ e.kind = "text" => ClaudeToOpenAI(e, s) = NoPivot(s)
              /\ e.kind = "server" => ClaudeToOpenAI(e, s) = NoPivot(ServingNoted(s, e.index))
              /\ e.kind = "call" => ClaudeToOpenAI(e, s) = OnePivot(ToolNoted(s, e.index, e.call), Uses(Tool(s.toolIndex, e.call, Nothing)))
<1>1. ASSUME e.type = "message_start"
      PROVE  ClaudeToOpenAI(e, s) = OnePivot(IndexReset(s), Plain(Nothing, Nothing, ""))
  <2> DEFINE t == IndexReset(s)
  <2>1. ClaudeToOpenAI(e, s) = Emit([Result(s) EXCEPT !.st.toolIndex = 0], Chunk(Nothing, Nothing, <<>>, ""))
    BY <1>1 DEF ClaudeToOpenAI
  <2>2. [Result(s) EXCEPT !.st.toolIndex = 0] = Result(t)
    BY DEF Result, IndexReset
  <2> HIDE DEF t
  <2>3. Chunk(Nothing, Nothing, <<>>, "") = Plain(Nothing, Nothing, "")
    BY DEF Plain
  <2>4. QED
    BY <2>1, <2>2, <2>3, SendsIs DEF t
<1>2. ASSUME e.type = "start", e.kind = "think"
      PROVE  ClaudeToOpenAI(e, s) = OnePivot(ThinkingNoted(s, e.index), Plain(Nothing, OpenTag, ""))
  <2> DEFINE t == ThinkingNoted(s, e.index)
  <2>1. ClaudeToOpenAI(e, s) = Emit([Result(s) EXCEPT !.st.thinkingBlock = e.index], Says(OpenTag))
    BY <1>2 DEF ClaudeToOpenAI
  <2>2. [Result(s) EXCEPT !.st.thinkingBlock = e.index] = Result(t)
    BY DEF Result, ThinkingNoted
  <2>3. Says(OpenTag) = Plain(Nothing, OpenTag, "")
    BY PlainFacts
  <2> HIDE DEF t
  <2>4. QED
    BY <2>1, <2>2, <2>3, SendsIs DEF t
<1>3. ASSUME e.type = "start", e.kind = "text"
      PROVE  ClaudeToOpenAI(e, s) = NoPivot(s)
  BY <1>3 DEF ClaudeToOpenAI, Result, NoPivot
<1>4. ASSUME e.type = "start", e.kind = "server"
      PROVE  ClaudeToOpenAI(e, s) = NoPivot(ServingNoted(s, e.index))
  BY <1>4 DEF ClaudeToOpenAI, Result, NoPivot, ServingNoted
<1>5. ASSUME e.type = "start", e.kind = "call"
      PROVE  ClaudeToOpenAI(e, s) = OnePivot(ToolNoted(s, e.index, e.call), Uses(Tool(s.toolIndex, e.call, Nothing)))
  <2> DEFINE x == [call |-> e.call, at |-> s.toolIndex]
             i == e.index
             tools == [s.toolCalls EXCEPT ![i] = x]
             t1 == [s EXCEPT !.toolCalls = tools]
             t == ToolNoted(s, e.index, e.call)
             none == <<>>
  <2>1. ClaudeToOpenAI(e, s) =
          Emit([Result(s) EXCEPT !.st.toolCalls[e.index] = [call |-> e.call, at |-> s.toolIndex], !.st.toolIndex = @ + 1],
               Uses(Tool(s.toolIndex, e.call, Nothing)))
    BY <1>5 DEF ClaudeToOpenAI
  <2>2. Result(s) = [st |-> s, out |-> none] /\ Result(t) = [st |-> t, out |-> none]
    BY DEF Result
  <2>3. t = [t1 EXCEPT !.toolIndex = s.toolIndex + 1]
    BY DEF ToolNoted
  <2> HIDE DEF none, x, t, i
  <2>4. [[st |-> s, out |-> none] EXCEPT !.st.toolCalls[i] = x] = [st |-> t1, out |-> none]
    OBVIOUS
  <2>5. [[st |-> t1, out |-> none] EXCEPT !.st.toolIndex = s.toolIndex + 1] = [st |-> t, out |-> none]
    BY <2>3
  <2>6. [[st |-> s, out |-> none] EXCEPT !.st.toolCalls[i] = x, !.st.toolIndex = @ + 1] = [st |-> t, out |-> none]
    BY <2>4, <2>5, Zenon
  <2>7. [Result(s) EXCEPT !.st.toolCalls[e.index] = [call |-> e.call, at |-> s.toolIndex], !.st.toolIndex = @ + 1] = Result(t)
    BY <2>2, <2>6 DEF x, i
  <2>8. QED
    BY <2>1, <2>7, SendsIs DEF t
<1>6. QED
  BY <1>1, <1>2, <1>3, <1>4, <1>5

LEMMA ClaudeMakesOfDelta ==
  ASSUME NEW s, NEW e, e.type = "delta"
  PROVE  /\ e.index = s.serverBlock => ClaudeToOpenAI(e, s) = NoPivot(s)
         /\ e.index # s.serverBlock =>
              /\ e.kind = "text" => ClaudeToOpenAI(e, s) = OnePivot(s, Plain(Nothing, e.piece, ""))
              /\ e.kind = "think" => ClaudeToOpenAI(e, s) = OnePivot(s, Plain(e.piece, Nothing, ""))
              /\ e.kind = "call" /\ s.toolCalls[e.index] # NoTool =>
                   ClaudeToOpenAI(e, s) = OnePivot(s, Uses(Tool(s.toolCalls[e.index].at, s.toolCalls[e.index].call, e.piece)))
<1>1. ASSUME e.index = s.serverBlock PROVE ClaudeToOpenAI(e, s) = NoPivot(s)
  BY <1>1 DEF ClaudeToOpenAI, Result, NoPivot
<1>2. ASSUME e.index # s.serverBlock, e.kind = "text"
      PROVE  ClaudeToOpenAI(e, s) = OnePivot(s, Plain(Nothing, e.piece, ""))
  <2>1. ClaudeToOpenAI(e, s) = Emit(Result(s), Says(e.piece))
    BY <1>2 DEF ClaudeToOpenAI
  <2>2. QED
    BY <2>1, SendsIs, PlainFacts
<1>3. ASSUME e.index # s.serverBlock, e.kind = "think"
      PROVE  ClaudeToOpenAI(e, s) = OnePivot(s, Plain(e.piece, Nothing, ""))
  <2>1. ClaudeToOpenAI(e, s) = Emit(Result(s), Thinks(e.piece))
    BY <1>3 DEF ClaudeToOpenAI
  <2>2. QED
    BY <2>1, SendsIs, PlainFacts
<1>4. ASSUME e.index # s.serverBlock, e.kind = "call", s.toolCalls[e.index] # NoTool
      PROVE  ClaudeToOpenAI(e, s) = OnePivot(s, Uses(Tool(s.toolCalls[e.index].at, s.toolCalls[e.index].call, e.piece)))
  <2>1. ClaudeToOpenAI(e, s) = Emit(Result(s), Uses(Tool(s.toolCalls[e.index].at, s.toolCalls[e.index].call, e.piece)))
    BY <1>4 DEF ClaudeToOpenAI
  <2>2. QED
    BY <2>1, SendsIs
<1>5. QED
  BY <1>1, <1>2, <1>3, <1>4

LEMMA ClaudeMakesOfStop ==
  ASSUME NEW s \in State, NEW e
  PROVE  /\ e.type = "stop" =>
              /\ e.index = s.serverBlock => ClaudeToOpenAI(e, s) = NoPivot(ServingNoted(s, NoBlock))
              /\ e.index # s.serverBlock /\ e.index = s.thinkingBlock =>
                   ClaudeToOpenAI(e, s) = OnePivot(ThinkingNoted(s, NoBlock), Plain(Nothing, CloseTag, ""))
              /\ e.index # s.serverBlock /\ e.index # s.thinkingBlock => ClaudeToOpenAI(e, s) = NoPivot(s)
         /\ e.type = "message_delta" =>
              ClaudeToOpenAI(e, s) = OnePivot(FinishNoted(s), Plain(Nothing, Nothing, e.kind))
         /\ e.type = "message_stop" =>
              /\ s.finishSent => ClaudeToOpenAI(e, s) = NoPivot(s)
              /\ ~ s.finishSent =>
                   ClaudeToOpenAI(e, s) = OnePivot(FinishNoted(s),
                     Plain(Nothing, Nothing, IF \E i \in Slots : s.toolCalls[i] # NoTool THEN "tools" ELSE "stop"))
<1> DEFINE yes == TRUE
           f == [s EXCEPT !.finishSent = yes]
<1>1. [Result(s) EXCEPT !.st.finishSent = TRUE] = Result(f)
  <2> HIDE DEF yes
  <2>1. [Result(s) EXCEPT !.st.finishSent = yes] = Result(f)
    BY DEF Result
  <2>2. QED
    BY <2>1 DEF yes
<1>2. ASSUME e.type = "stop", e.index = s.serverBlock
      PROVE  ClaudeToOpenAI(e, s) = NoPivot(ServingNoted(s, NoBlock))
  BY <1>2 DEF ClaudeToOpenAI, Result, NoPivot, ServingNoted
<1>3. ASSUME e.type = "stop", e.index # s.serverBlock, e.index = s.thinkingBlock
      PROVE  ClaudeToOpenAI(e, s) = OnePivot(ThinkingNoted(s, NoBlock), Plain(Nothing, CloseTag, ""))
  <2> DEFINE t == ThinkingNoted(s, NoBlock)
  <2>1. ClaudeToOpenAI(e, s) = Emit([Result(s) EXCEPT !.st.thinkingBlock = NoBlock], Says(CloseTag))
    BY <1>3 DEF ClaudeToOpenAI
  <2>2. [Result(s) EXCEPT !.st.thinkingBlock = NoBlock] = Result(t)
    BY DEF Result, ThinkingNoted
  <2>3. Says(CloseTag) = Plain(Nothing, CloseTag, "")
    BY PlainFacts
  <2> HIDE DEF t
  <2>4. QED
    BY <2>1, <2>2, <2>3, SendsIs DEF t
<1>4. ASSUME e.type = "stop", e.index # s.serverBlock, e.index # s.thinkingBlock
      PROVE  ClaudeToOpenAI(e, s) = NoPivot(s)
  BY <1>4 DEF ClaudeToOpenAI, Result, NoPivot
<1> HIDE DEF f
<1>5. ASSUME e.type = "message_delta"
      PROVE  ClaudeToOpenAI(e, s) = OnePivot(f, Plain(Nothing, Nothing, e.kind))
  <2>1. ClaudeToOpenAI(e, s) = Emit([Result(s) EXCEPT !.st.finishSent = TRUE], Finishes(e.kind))
    BY <1>5 DEF ClaudeToOpenAI
  <2>2. QED
    BY <1>1, <2>1, SendsIs, PlainFacts
<1>6. ASSUME e.type = "message_stop", s.finishSent
      PROVE  ClaudeToOpenAI(e, s) = NoPivot(s)
  BY <1>6 DEF ClaudeToOpenAI, Result, NoPivot
<1>7. ASSUME e.type = "message_stop", ~ s.finishSent
      PROVE  ClaudeToOpenAI(e, s) =
               OnePivot(f, Plain(Nothing, Nothing, IF \E i \in Slots : s.toolCalls[i] # NoTool THEN "tools" ELSE "stop"))
  <2> DEFINE reason == IF \E i \in Slots : s.toolCalls[i] # NoTool THEN "tools" ELSE "stop"
  <2>1. ClaudeToOpenAI(e, s) = Emit([Result(s) EXCEPT !.st.finishSent = TRUE], Finishes(reason))
    BY <1>7 DEF ClaudeToOpenAI
  <2> HIDE DEF reason
  <2>2. ClaudeToOpenAI(e, s) = OnePivot(f, Plain(Nothing, Nothing, reason))
    BY <1>1, <2>1, SendsIs, PlainFacts
  <2>3. QED
    BY <2>2 DEF reason
<1>8. f = FinishNoted(s)
  BY DEF f, FinishNoted
<1>9. QED
  BY <1>2, <1>3, <1>4, <1>5, <1>6, <1>7, <1>8

-----------------------------------------------------------------------------
(* The events of Claude Messages and what the client knows                 *)

LEMMA ClaudeInforms ==
  ASSUME up = "claude", client # "claude", up' = up, client' = client, Conveyed',
         NEW t, Leaves(client, t, st'), ClaudeAt(t, prov'),
         client = "responses" /\ prov'.over = "no" /\ st'.inThinking => prov'.kind = "think"
  PROVE  Informed'
<1> DEFINE p1 == prov'
           s1 == st'
<1>1. ClaudeAt(s1, p1)
  <2>1. /\ s1.serverBlock = t.serverBlock /\ s1.thinkingBlock = t.thinkingBlock
        /\ s1.finishSent = t.finishSent /\ s1.toolCalls = t.toolCalls
    BY DEF Leaves, Frame
  <2>2. ClaudeAt(t, p1)
    OBVIOUS
  <2> HIDE DEF s1, p1
  <2>3. QED
    BY <2>1, <2>2 DEF ClaudeAt
<1>2. ClaudeAt(st, prov)'
  BY <1>1 DEF ClaudeAt
<1>3. Noted'
  BY <1>2 DEF Noted
<1>4. Thoughtful(st, prov)'
  BY DEF Thoughtful
<1>5. QED
  BY <1>3, <1>4 DEF Informed

LEMMA ClaudeKnowing ==
  ASSUME Knowing, Informed, Speaking({"claude"})
  PROVE  /\ up = "claude" /\ client # "claude" /\ client \in Clients /\ Conveyed
         /\ st \in State /\ prov \in Providers /\ said \in Saids
         /\ Next1 \in Nat /\ Next1 = Len(said) + 1 /\ Next1 > 0
         /\ SpeaksClaude(st, prov) /\ ClaudeAt(st, prov)
         /\ client = "responses" /\ prov.over = "no" /\ st.inThinking => prov.kind = "think"
         /\ \A e, s : ToOpenAI(up, e, s) = ClaudeToOpenAI(e, s)
<1>1. up = "claude" /\ client # "claude" /\ SpeaksClaude(st, prov)
  BY ClaudeStreams DEF Knowing
<1>2. st \in State /\ prov \in Providers /\ said \in Saids /\ client \in Clients
  BY KnowingFacts
<1>3. Len(said) \in Nat /\ Next1 = Len(said) + 1
  BY <1>2, SaidFacts DEF Next1
<1>4. Next1 \in Nat /\ Next1 > 0
  BY <1>3
<1>5. Conveyed /\ ClaudeAt(st, prov) /\ (client = "responses" /\ prov.over = "no" /\ st.inThinking => prov.kind = "think")
  BY <1>1 DEF Informed, Noted, Thoughtful
<1>6. \A e, s : ToOpenAI(up, e, s) = ClaudeToOpenAI(e, s)
  BY <1>1 DEF ToOpenAI
<1>7. QED
  BY <1>1, <1>2, <1>3, <1>4, <1>5, <1>6

LEMMA ClaudeTellsPlain ==
  ASSUME Knowing, Informed, Speaking({"claude"}), prov.over = "no",
         NEW e, Arrives(e), NEW t \in State, Same(client, st, t), t.inThinking = st.inThinking,
         NEW n \in Nat, NEW m \in Int, m >= CloseTag, NEW reason \in Finishings,
         ClaudeToOpenAI(e, st) = OnePivot(t, Plain(n, m, reason)),
         m > 0 => prov.kind # "think",
         Account(prov', said') = AddChunk(Account(prov, said), Plain(n, m, reason)),
         reason = "" <=> prov'.over = "no",
         prov'.over = "finished" => reason = FinishReason',
         ClaudeAt(t, prov'),
         m = OpenTag \/ (prov.kind = "think" /\ m # CloseTag) => prov'.kind = "think"
  PROVE  Informed'
<1>1. /\ up = "claude" /\ client # "claude" /\ Conveyed
      /\ client = "responses" /\ st.inThinking => prov.kind = "think"
      /\ ToOpenAI(up, e, st) = OnePivot(t, Plain(n, m, reason))
  BY ClaudeKnowing
<1>2. client = "responses" => m >= CloseTag /\ (m > 0 => ~ t.inThinking)
  BY <1>1
<1>3. /\ Conveyed' /\ Leaves(client, t, st') /\ client' = client /\ up' = up
      /\ prov'.over = "no" /\ client = "responses" /\ st'.inThinking =>
           m = OpenTag \/ (t.inThinking /\ m # CloseTag)
  BY <1>1, <1>2, PlainConveyed
<1>4. client = "responses" /\ prov'.over = "no" /\ st'.inThinking => prov'.kind = "think"
  BY <1>1, <1>3
<1>5. QED
  BY <1>1, <1>3, <1>4, ClaudeInforms

LEMMA ClaudeTellsCall ==
  ASSUME Knowing, Informed, Speaking({"claude"}), prov.over = "no",
         NEW e, Arrives(e), NEW t \in State, Same(client, st, t), t.inThinking = st.inThinking,
         NEW x, FitsIn(Account(prov, said), x), x.id # Nothing,
         ClaudeToOpenAI(e, st) = OnePivot(t, Uses(x)),
         Account(prov', said') = AddCall(Account(prov, said), x),
         prov'.over = "no", ClaudeAt(t, prov'), prov.kind # "think"
  PROVE  Informed'
<1>1. /\ up = "claude" /\ client # "claude" /\ Conveyed
      /\ client = "responses" /\ st.inThinking => prov.kind = "think"
      /\ ToOpenAI(up, e, st) = OnePivot(t, Uses(x))
  BY ClaudeKnowing
<1>2. Usable(client, Uses(x), SlotsKnown(up, prov))
  BY ChunkFacts DEF FitsIn
<1>3. /\ Conveyed' /\ Leaves(client, t, st') /\ client' = client /\ up' = up
      /\ client = "responses" /\ st'.inThinking => t.inThinking
  BY <1>1, <1>2, UsesConveyed
<1>4. client = "responses" /\ prov'.over = "no" /\ st'.inThinking => prov'.kind = "think"
  BY <1>1, <1>3
<1>5. QED
  BY <1>1, <1>3, <1>4, ClaudeInforms

LEMMA ClaudeTellsNothing ==
  ASSUME Knowing, Informed, Speaking({"claude"}),
         NEW e, Arrives(e), NEW t \in State, Same(client, st, t), t.inThinking = st.inThinking,
         ClaudeToOpenAI(e, st) = NoPivot(t),
         said' = said, prov'.over = prov.over, prov'.started = prov.started, ClaudeAt(t, prov'),
         prov.kind = "think" => prov'.kind = "think" \/ prov.over # "no"
  PROVE  Informed'
<1>1. /\ up = "claude" /\ client # "claude" /\ Conveyed
      /\ client = "responses" /\ prov.over = "no" /\ st.inThinking => prov.kind = "think"
      /\ ToOpenAI(up, e, st) = NoPivot(t)
  BY ClaudeKnowing
<1>2. Account(prov', said') = Account(prov, said)
  BY SameAccount
<1>3. Conveyed' /\ st' = t /\ reader' = reader
  BY <1>1, <1>2, NoneConveyed
<1>4. client' = client /\ up' = up
  BY DEF Arrives
<1>5. Leaves(client, t, st')
  BY <1>3 DEF Leaves, Frame
<1>6. client = "responses" /\ prov'.over = "no" /\ st'.inThinking => prov'.kind = "think"
  BY <1>1, <1>3
<1>7. QED
  BY <1>1, <1>3, <1>4, <1>5, <1>6, ClaudeInforms

LEMMA ClaudeBeginsConveyed ==
  ASSUME Knowing, Informed, ClaudeBegins
  PROVE  Informed'
<1>1. /\ up = "claude" /\ client # "claude" /\ Conveyed
      /\ st \in State /\ prov \in Providers /\ SpeaksClaude(st, prov) /\ ClaudeAt(st, prov)
      /\ client = "responses" /\ prov.over = "no" /\ st.inThinking => prov.kind = "think"
      /\ \A e, s : ToOpenAI(up, e, s) = ClaudeToOpenAI(e, s)
  BY ClaudeKnowing DEF ClaudeBegins
<1> DEFINE e == Event("message_start", 0, "none", Nothing, Nothing)
           t == IndexReset(st)
           p1 == [prov EXCEPT !.begun = TRUE]
<1>2. Arrives(e) /\ prov' = p1 /\ said' = said /\ ~ prov.begun
  BY DEF ClaudeBegins
<1>3. prov.over = "no"
  BY <1>1, <1>2 DEF SpeaksClaude
<1>4. t \in State /\ Same(client, st, t) /\ t.inThinking = st.inThinking
  BY <1>1, NotedFacts
<1>5. ToOpenAI(up, e, st) = OnePivot(t, Plain(Nothing, Nothing, ""))
  <2>1. e.type = "message_start"
    BY DEF Event
  <2> HIDE DEF e
  <2>2. ClaudeToOpenAI(e, st) = OnePivot(t, Plain(Nothing, Nothing, ""))
    BY <1>1, <2>1, ClaudeMakesOfStart
  <2>3. QED
    BY <1>1, <2>2
<1>6. p1.started = prov.started /\ p1.over = "no" /\ p1.kind = prov.kind
  BY <1>1, <1>3 DEF Providers
<1>7. ClaudeAt(t, p1)
  <2>1. /\ t.serverBlock = st.serverBlock /\ t.thinkingBlock = st.thinkingBlock /\ t.toolCalls = st.toolCalls
        /\ t.finishSent = st.finishSent
    BY <1>1 DEF State, IndexReset
  <2>2. p1.index = prov.index
    BY <1>1 DEF Providers
  <2> HIDE DEF t, p1
  <2>3. QED
    BY <1>1, <1>3, <1>6, <2>1, <2>2 DEF ClaudeAt
<1> HIDE DEF e, t, p1
<1>8. Account(prov', said') = AddChunk(Account(prov, said), Plain(Nothing, Nothing, ""))
  BY <1>2, <1>6, NothingAccounted
<1>9. /\ Nothing \in Nat /\ Nothing \in Int /\ "" \in Finishings /\ Nothing >= CloseTag
      /\ ~ (Nothing > 0) /\ Nothing # OpenTag
  BY DEF Nothing, CloseTag, OpenTag, Finishings
<1>10. ClaudeToOpenAI(e, st) = OnePivot(t, Plain(Nothing, Nothing, ""))
  BY <1>1, <1>5
<1>11. Speaking({"claude"})
  BY DEF ClaudeBegins
<1>12. prov'.over = "no" /\ ClaudeAt(t, prov') /\ prov'.kind = prov.kind
  BY <1>2, <1>6, <1>7
<1> DEFINE m == Nothing
           reason == ""
<1>13. /\ m \in Int /\ m \in Nat /\ m >= CloseTag /\ reason \in Finishings
       /\ ClaudeToOpenAI(e, st) = OnePivot(t, Plain(m, m, reason))
       /\ m > 0 => prov.kind # "think"
       /\ Account(prov', said') = AddChunk(Account(prov, said), Plain(m, m, reason))
       /\ reason = "" <=> prov'.over = "no"
       /\ prov'.over = "finished" => reason = FinishReason'
       /\ m = OpenTag \/ (prov.kind = "think" /\ m # CloseTag) => prov'.kind = "think"
  BY <1>8, <1>9, <1>10, <1>12
<1> HIDE DEF m, reason
<1>14. QED
  BY <1>2, <1>3, <1>4, <1>11, <1>12, <1>13, ClaudeTellsPlain

(* The calls that have been started, when one more is.                     *)
LEMMA OneMoreCall ==
  ASSUME NEW p, p.started \in Nat, NEW q
  PROVE  /\ q.started = p.started + 1 /\ q.started \in Calls => Knows(q, p, q.started)
         /\ \A c \in Calls : c <= p.started /\ q.started = p.started => Knows(q, p, c)
<1>1. \A c \in Calls : c \in Nat
  BY CallsAreSlots
<1>2. ASSUME q.started = p.started + 1, q.started \in Calls PROVE Knows(q, p, q.started)
  <2>1. \A c \in Calls : c <= q.started <=> c <= p.started \/ c = q.started
    BY <1>1, <1>2
  <2>2. QED
    BY <1>2, <2>1 DEF CallsKnown, Knows
<1>3. ASSUME NEW c \in Calls, c <= p.started, q.started = p.started PROVE Knows(q, p, c)
  BY <1>3 DEF CallsKnown, Knows
<1>4. QED
  BY <1>2, <1>3

LEMMA NewsOfCall ==
  ASSUME said \in Saids, NEW c \in Calls, Knows(prov', prov, c)
  PROVE  \A t : t.at = c - 1 =>
           /\ t.args = Nothing => Account(prov', said) = AddCall(Account(prov, said), t)
           /\ t.args = Len(said) + 1 => Account(prov', Append(said, Piece("call", c))) = AddCall(Account(prov, said), t)
BY AccountCall

(* The entry of a call that is named and has no arguments yet.             *)
LEMMA CallNamed ==
  ASSUME prov \in Providers, said \in Saids, said' = said, NEW id \in Calls,
         Knows(prov', prov, id),
         NEW x, x = Tool(id - 1, id, Nothing)
  PROVE  /\ FitsIn(Account(prov, said), x) /\ x.id # Nothing /\ x.at = id - 1 /\ x.at \in Slots /\ x.id = id
         /\ x \in ToolEntries /\ Numbered(x)
         /\ Account(prov', said') = AddCall(Account(prov, said), x)
<1>1. id \in Nat /\ id # Nothing /\ id - 1 \in Slots /\ id - 1 + 1 = id
  BY CallsAreSlots
<1>2. x.at = id - 1 /\ x.id = id /\ x.args = Nothing
  BY DEF Tool
<1>3. x \in ToolEntries
  BY <1>1 DEF Tool, ToolEntries, Nothing
<1>4. x.at + 1 = id /\ Numbered(x)
  BY <1>1, <1>2 DEF Numbered
<1>5. FitsIn(Account(prov, said), x)
  BY <1>1, <1>2, <1>3, <1>4 DEF FitsIn
<1>6. Account(prov', said) = AddCall(Account(prov, said), x)
  BY <1>2, NewsOfCall, Zenon
<1>7. QED
  BY <1>1, <1>2, <1>3, <1>4, <1>5, <1>6

LEMMA ToolNotedFacts ==
  ASSUME NEW s \in State, NEW i \in Slots, NEW c \in Nat, s.toolIndex \in Slots
  PROVE  /\ ToolNoted(s, i, c) \in State /\ ToolNoted(s, i, c).inThinking = s.inThinking
         /\ ToolNoted(s, i, c).toolCalls[i] = [call |-> c, at |-> s.toolIndex]
         /\ ToolNoted(s, i, c).serverBlock = s.serverBlock /\ ToolNoted(s, i, c).thinkingBlock = s.thinkingBlock
         /\ ToolNoted(s, i, c).finishSent = s.finishSent
         /\ \A cl : cl # "claude" => Same(cl, s, ToolNoted(s, i, c))
<1> DEFINE x == [call |-> c, at |-> s.toolIndex]
           tools == [s.toolCalls EXCEPT ![i] = x]
           more == s.toolIndex + 1
           t1 == [s EXCEPT !.toolCalls = tools]
           t == [t1 EXCEPT !.toolIndex = more]
<1>1. x \in ToolsUsed /\ s.toolCalls \in [Slots -> ToolsUsed] /\ more \in Nat
  BY DEF State, ToolsUsed
<1> HIDE DEF x, more
<1>2. tools \in [Slots -> ToolsUsed] /\ tools[i] = x
  BY <1>1
<1> HIDE DEF tools
<1>3. /\ t \in State /\ t.toolCalls = tools /\ t.inThinking = s.inThinking
      /\ t.serverBlock = s.serverBlock /\ t.thinkingBlock = s.thinkingBlock /\ t.finishSent = s.finishSent
  BY <1>1, <1>2 DEF State
<1>4. \A cl : cl # "claude" => Same(cl, s, t)
  BY DEF Same, State
<1>5. ToolNoted(s, i, c) = t
  BY DEF ToolNoted, x, tools, more
<1> HIDE DEF t
<1>6. QED
  BY <1>2, <1>3, <1>4, <1>5 DEF x

LEMMA TagFacts ==
  /\ Nothing \in Nat /\ Nothing \in Int /\ ~ (Nothing > 0) /\ Nothing >= CloseTag /\ Nothing # OpenTag
  /\ OpenTag \in Int /\ ~ (OpenTag > 0) /\ OpenTag >= CloseTag
  /\ CloseTag \in Int /\ ~ (CloseTag > 0) /\ CloseTag >= CloseTag /\ CloseTag # OpenTag
  /\ "" \in Finishings /\ "tools" \in Finishings /\ "stop" \in Finishings
BY DEF Nothing, OpenTag, CloseTag, Finishings

LEMMA BlockStartsConveyed ==
  ASSUME Knowing, Informed, BlockStarts
  PROVE  Informed'
<1>1. /\ up = "claude" /\ client # "claude" /\ Conveyed
      /\ st \in State /\ prov \in Providers /\ said \in Saids /\ SpeaksClaude(st, prov) /\ ClaudeAt(st, prov)
  BY ClaudeKnowing DEF BlockStarts
<1>2. PICK kind \in {"think", "text", "call", "server"} :
        LET c == IF kind = "call" THEN prov.started + 1 ELSE Nothing IN
        /\ kind = "call" => c \in Calls
        /\ prov' = [prov EXCEPT !.kind = kind, !.started = IF kind = "call" THEN c ELSE @]
        /\ Arrives(Event("start", prov.index, kind, c, Nothing))
  BY DEF BlockStarts
<1>3. /\ Speaking({"claude"}) /\ prov.begun /\ prov.over = "no" /\ prov.kind = "none" /\ prov.index \in Slots
      /\ said' = said
  BY DEF BlockStarts
<1>4. prov.started \in Nat /\ prov.index \in Int
  BY <1>1, <1>3, CallsAreSlots DEF Providers
<1> DEFINE id == IF kind = "call" THEN prov.started + 1 ELSE Nothing
           e == Event("start", prov.index, kind, id, Nothing)
<1>5. e.type = "start" /\ e.kind = kind /\ e.index = prov.index /\ e.call = id
  BY DEF Event
<1>6. Arrives(e) /\ (kind = "call" => id \in Calls)
  BY <1>2
<1>7. /\ prov'.over = "no" /\ prov'.index = prov.index /\ prov'.kind = kind
      /\ prov'.started = IF kind = "call" THEN prov.started + 1 ELSE prov.started
  BY <1>1, <1>2, <1>3 DEF Providers
<1> HIDE DEF e
<1>8. /\ st.serverBlock = NoBlock /\ st.thinkingBlock = NoBlock /\ ~ st.finishSent
      /\ (\E i \in Slots : st.toolCalls[i] # NoTool) <=> prov.started > 0
  BY <1>1, <1>3 DEF ClaudeAt
<1>9. CASE kind = "think"
  <2> DEFINE t == ThinkingNoted(st, prov.index)
             m == OpenTag
             n == Nothing
             reason == ""
  <2>1. t \in State /\ Same(client, st, t) /\ t.inThinking = st.inThinking
    BY <1>1, <1>4, NotedFacts
  <2>2. ClaudeToOpenAI(e, st) = OnePivot(t, Plain(n, m, reason))
    BY <1>1, <1>5, <1>9, ClaudeMakesOfStart
  <2>3. /\ t.serverBlock = st.serverBlock /\ t.thinkingBlock = prov.index
        /\ t.finishSent = st.finishSent /\ t.toolCalls = st.toolCalls
    BY <1>1 DEF ThinkingNoted, State
  <2> HIDE DEF t
  <2>4. ClaudeAt(t, prov')
    BY <1>7, <1>8, <1>9, <2>3 DEF ClaudeAt
  <2>5. Account(prov', said') = AddChunk(Account(prov, said), Plain(n, m, reason))
    BY <1>3, <1>7, <1>9, NothingAccounted
  <2>6. /\ n \in Nat /\ m \in Int /\ m >= CloseTag /\ reason \in Finishings
        /\ m > 0 => prov.kind # "think"
        /\ reason = "" <=> prov'.over = "no"
        /\ prov'.over = "finished" => reason = FinishReason'
        /\ m = OpenTag \/ (prov.kind = "think" /\ m # CloseTag) => prov'.kind = "think"
    BY <1>7, <1>9, TagFacts
  <2> HIDE DEF n, m, reason
  <2>7. QED
    BY <1>3, <1>6, <2>1, <2>2, <2>4, <2>5, <2>6, ClaudeTellsPlain
<1>10. CASE kind = "text"
  <2>1. ClaudeToOpenAI(e, st) = NoPivot(st)
    BY <1>1, <1>5, <1>10, ClaudeMakesOfStart
  <2>2. Same(client, st, st)
    BY DEF Same
  <2>3. ClaudeAt(st, prov')
    BY <1>7, <1>8, <1>10 DEF ClaudeAt
  <2>4. prov'.over = prov.over /\ prov'.started = prov.started
    BY <1>3, <1>7, <1>10
  <2>5. QED
    BY <1>1, <1>3, <1>6, <2>1, <2>2, <2>3, <2>4, ClaudeTellsNothing
<1>11. CASE kind = "server"
  <2> DEFINE t == ServingNoted(st, prov.index)
  <2>1. t \in State /\ Same(client, st, t) /\ t.inThinking = st.inThinking
    BY <1>1, <1>4, NotedFacts
  <2>2. ClaudeToOpenAI(e, st) = NoPivot(t)
    BY <1>1, <1>5, <1>11, ClaudeMakesOfStart, ZenonT(60)
  <2>3. /\ t.serverBlock = prov.index /\ t.thinkingBlock = st.thinkingBlock
        /\ t.finishSent = st.finishSent /\ t.toolCalls = st.toolCalls
    BY <1>1 DEF ServingNoted, State
  <2> HIDE DEF t
  <2>4. ClaudeAt(t, prov')
    BY <1>7, <1>8, <1>11, <2>3 DEF ClaudeAt
  <2>5. prov'.over = prov.over /\ prov'.started = prov.started
    BY <1>3, <1>7, <1>11
  <2>6. QED
    BY <1>3, <1>6, <2>1, <2>2, <2>4, <2>5, ClaudeTellsNothing
<1>12. CASE kind = "call"
  <2> DEFINE t == ToolNoted(st, prov.index, id)
             x == Tool(id - 1, id, Nothing)
  <2>1. id = prov.started + 1 /\ id \in Calls /\ st.toolIndex = prov.started /\ prov'.started = id
    BY <1>1, <1>6, <1>7, <1>12 DEF SpeaksClaude
  <2>2. id \in Nat /\ id # Nothing /\ id - 1 \in Slots
    BY <2>1, CallsAreSlots
  <2>3. id - 1 = st.toolIndex /\ id > 0
    BY <1>4, <2>1
  <2> HIDE DEF id
  <2>4. /\ t \in State /\ t.inThinking = st.inThinking /\ Same(client, st, t)
        /\ t.toolCalls[prov.index] = [call |-> id, at |-> id - 1]
        /\ t.serverBlock = st.serverBlock /\ t.thinkingBlock = st.thinkingBlock /\ t.finishSent = st.finishSent
    BY <1>1, <1>3, <2>2, <2>3, ToolNotedFacts
  <2>5. ClaudeToOpenAI(e, st) = OnePivot(t, Uses(x))
    BY <1>1, <1>5, <1>12, <2>3, ClaudeMakesOfStart
  <2> HIDE DEF t
  <2>6. Knows(prov', prov, id)
    BY <1>4, <2>1, OneMoreCall
  <2>7. FitsIn(Account(prov, said), x) /\ x.id # Nothing /\ Account(prov', said') = AddCall(Account(prov, said), x)
    BY <1>1, <1>3, <2>1, <2>6, CallNamed
  <2> HIDE DEF x
  <2>8. t.toolCalls[prov.index] # NoTool
    BY <2>2, <2>4 DEF NoTool
  <2>9. ClaudeAt(t, prov')
    BY <1>3, <1>7, <1>8, <1>12, <2>1, <2>3, <2>4, <2>8 DEF ClaudeAt
  <2>10. prov.kind # "think"
    BY <1>3
  <2>11. QED
    BY <1>3, <1>6, <1>7, <2>4, <2>5, <2>7, <2>9, <2>10, ClaudeTellsCall
<1>13. QED
  BY <1>9, <1>10, <1>11, <1>12

LEMMA BlockStopsConveyed ==
  ASSUME Knowing, Informed, BlockStops
  PROVE  Informed'
<1>1. /\ up = "claude" /\ client # "claude" /\ Conveyed
      /\ st \in State /\ prov \in Providers /\ said \in Saids /\ SpeaksClaude(st, prov) /\ ClaudeAt(st, prov)
  BY ClaudeKnowing DEF BlockStops
<1> DEFINE e == Event("stop", prov.index, prov.kind, Nothing, Nothing)
<1>2. /\ Speaking({"claude"}) /\ prov.kind # "none" /\ said' = said /\ Arrives(e)
      /\ prov' = [prov EXCEPT !.kind = "none", !.index = @ + 1]
  BY DEF BlockStops
<1>3. prov.index \in Slots /\ prov.over = "no" /\ prov.index # NoBlock /\ NoBlock \in Int
  <2>1. prov.index \in Slots /\ prov.over = "no"
    BY <1>1, <1>2 DEF SpeaksClaude
  <2>2. QED
    BY <2>1, CallsAreSlots DEF NoBlock
<1>4. prov'.kind = "none" /\ prov'.over = prov.over /\ prov'.started = prov.started
  BY <1>1, <1>2 DEF Providers
<1>5. e.type = "stop" /\ e.index = prov.index
  BY DEF Event
<1> HIDE DEF e
<1>6. /\ st.serverBlock = IF prov.kind = "server" THEN prov.index ELSE NoBlock
      /\ st.thinkingBlock = IF prov.kind = "think" THEN prov.index ELSE NoBlock
      /\ ~ st.finishSent
      /\ (\E i \in Slots : st.toolCalls[i] # NoTool) <=> prov.started > 0
  BY <1>1, <1>3 DEF ClaudeAt
<1>7. CASE prov.kind = "server"
  <2> DEFINE t == ServingNoted(st, NoBlock)
  <2>1. t \in State /\ Same(client, st, t) /\ t.inThinking = st.inThinking
    BY <1>1, <1>3, NotedFacts
  <2>2. ClaudeToOpenAI(e, st) = NoPivot(t)
    BY <1>1, <1>5, <1>6, <1>7, ClaudeMakesOfStop
  <2>3. /\ t.serverBlock = NoBlock /\ t.thinkingBlock = st.thinkingBlock
        /\ t.finishSent = st.finishSent /\ t.toolCalls = st.toolCalls
    BY <1>1 DEF ServingNoted, State
  <2> HIDE DEF t
  <2>4. ClaudeAt(t, prov')
    BY <1>4, <1>6, <1>7, <2>3 DEF ClaudeAt
  <2>5. QED
    BY <1>2, <1>4, <1>7, <2>1, <2>2, <2>4, ClaudeTellsNothing
<1>8. CASE prov.kind = "think"
  <2> DEFINE t == ThinkingNoted(st, NoBlock)
             m == CloseTag
             n == Nothing
             reason == ""
  <2>1. t \in State /\ Same(client, st, t) /\ t.inThinking = st.inThinking
    BY <1>1, <1>3, NotedFacts
  <2>2. ClaudeToOpenAI(e, st) = OnePivot(t, Plain(n, m, reason))
    BY <1>1, <1>3, <1>5, <1>6, <1>8, ClaudeMakesOfStop
  <2>3. /\ t.serverBlock = st.serverBlock /\ t.thinkingBlock = NoBlock
        /\ t.finishSent = st.finishSent /\ t.toolCalls = st.toolCalls
    BY <1>1 DEF ThinkingNoted, State
  <2> HIDE DEF t
  <2>4. ClaudeAt(t, prov')
    BY <1>4, <1>6, <1>8, <2>3 DEF ClaudeAt
  <2>5. Account(prov', said') = AddChunk(Account(prov, said), Plain(n, m, reason))
    BY <1>2, <1>4, NothingAccounted
  <2>6. /\ n \in Nat /\ m \in Int /\ m >= CloseTag /\ reason \in Finishings
        /\ m > 0 => prov.kind # "think"
        /\ reason = "" <=> prov'.over = "no"
        /\ prov'.over = "finished" => reason = FinishReason'
        /\ m = OpenTag \/ (prov.kind = "think" /\ m # CloseTag) => prov'.kind = "think"
    BY <1>3, <1>4, TagFacts
  <2> HIDE DEF n, m, reason
  <2>7. QED
    BY <1>2, <1>3, <2>1, <2>2, <2>4, <2>5, <2>6, ClaudeTellsPlain
<1>9. CASE prov.kind # "server" /\ prov.kind # "think"
  <2>1. ClaudeToOpenAI(e, st) = NoPivot(st)
    BY <1>1, <1>3, <1>5, <1>6, <1>9, ClaudeMakesOfStop
  <2>2. Same(client, st, st)
    BY DEF Same
  <2>3. ClaudeAt(st, prov')
    BY <1>4, <1>6, <1>9 DEF ClaudeAt
  <2>4. QED
    BY <1>1, <1>2, <1>4, <1>9, <2>1, <2>2, <2>3, ClaudeTellsNothing
<1>10. QED
  BY <1>7, <1>8, <1>9

LEMMA NaturalIsNoTag ==
  \A n \in Nat : n \in Int /\ n >= CloseTag /\ n # OpenTag /\ n # CloseTag
BY DEF OpenTag, CloseTag

(* A piece of thinking or of text, and the chunk that tells of it.         *)
LEMMA PieceAccounted ==
  ASSUME said \in Saids, prov'.started = prov.started, NEW kind \in {"think", "text"},
         said' = Append(said, Piece(kind, Nothing)), NEW reason
  PROVE  /\ kind = "think" => Account(prov', said') = AddChunk(Account(prov, said), Plain(Next1, Nothing, reason))
         /\ kind = "text" => Account(prov', said') = AddChunk(Account(prov, said), Plain(Nothing, Next1, reason))
<1> DEFINE A == Account(prov, said)
           p1 == prov'
<1>1. p1.started = prov.started
  OBVIOUS
<1> HIDE DEF p1
<1>2. Account(p1, Append(said, Piece(kind, Nothing))) = AddPiece(A, kind, Len(said) + 1)
  BY <1>1, AccountPiece
<1>3. Account(prov', said') = AddPiece(A, kind, Next1)
  BY <1>2 DEF p1, Next1
<1>4. Next1 \in Int /\ Nothing \in Int /\ Nothing <= 0
  BY SaidFacts DEF Next1, Nothing
<1> HIDE DEF A
<1>5. /\ AddChunk(A, Plain(Next1, Nothing, reason)) = AddPiece(A, "think", Next1)
      /\ AddChunk(A, Plain(Nothing, Next1, reason)) = AddPiece(A, "text", Next1)
  BY <1>4, PlainAdds
<1>6. QED
  BY <1>3, <1>5 DEF A

(* Arguments of a call that has been named, perhaps with its name.         *)
LEMMA ArgsAccounted ==
  ASSUME said \in Saids, prov.started \in Nat, prov'.started = prov.started, NEW c \in Calls, c <= prov.started,
         said' = Append(said, Piece("call", c)), NEW id \in {Nothing, c},
         NEW x, x = Tool(c - 1, id, Next1)
  PROVE  /\ FitsIn(Account(prov, said), x) /\ x \in ToolEntries /\ Numbered(x) /\ x.at = c - 1 /\ x.id = id
         /\ Account(prov', said') = AddCall(Account(prov, said), x)
<1>1. c \in Nat /\ c # Nothing /\ c - 1 \in Slots /\ c - 1 + 1 = c
  BY CallsAreSlots
<1>2. x.at = c - 1 /\ x.id = id /\ x.args = Next1
  BY DEF Tool
<1>3. Next1 \in Int /\ Next1 = Len(said) + 1 /\ Next1 # Nothing
  <2>1. Len(said) \in Nat
    BY SaidFacts
  <2>2. QED
    BY <2>1 DEF Next1, Nothing
<1>4. x \in ToolEntries
  BY <1>1, <1>3 DEF Tool, ToolEntries, Nothing
<1>5. x.at + 1 = c /\ Numbered(x)
  BY <1>1, <1>2 DEF Numbered
<1>6. c \in Account(prov, said).known
  BY DEF Account, CallsKnown
<1>7. FitsIn(Account(prov, said), x)
  BY <1>1, <1>4, <1>5, <1>6 DEF FitsIn
<1>8. Knows(prov', prov, c)
  BY OneMoreCall
<1>9. x.at = c - 1 /\ x.args = Len(said) + 1
  BY <1>2, <1>3
<1>10. Account(prov', Append(said, Piece("call", c))) = AddCall(Account(prov, said), x)
  BY <1>8, <1>9, NewsOfCall, Zenon
<1>11. QED
  BY <1>2, <1>4, <1>5, <1>7, <1>10

LEMMA BlockContinuesConveyed ==
  ASSUME Knowing, Informed, BlockContinues
  PROVE  Informed'
<1>1. /\ up = "claude" /\ client # "claude" /\ Conveyed /\ Next1 \in Nat /\ Next1 > 0 /\ Next1 = Len(said) + 1
      /\ st \in State /\ prov \in Providers /\ said \in Saids /\ SpeaksClaude(st, prov) /\ ClaudeAt(st, prov)
  BY ClaudeKnowing DEF BlockContinues
<1>2. Speaking({"claude"}) /\ prov.kind # "none" /\ prov' = prov
  BY DEF BlockContinues
<1>3. prov.index \in Slots /\ prov.over = "no" /\ prov.index # NoBlock /\ prov.started \in Nat
  <2>1. prov.index \in Slots /\ prov.over = "no" /\ prov.started \in Nat
    BY <1>1, <1>2 DEF SpeaksClaude, Providers
  <2>2. QED
    BY <2>1, CallsAreSlots DEF NoBlock
<1>4. /\ st.serverBlock = IF prov.kind = "server" THEN prov.index ELSE NoBlock
      /\ prov.kind = "call" => prov.started \in Calls /\ st.toolCalls[prov.index] = [call |-> prov.started, at |-> prov.started - 1]
  BY <1>1 DEF ClaudeAt
<1>5. ClaudeAt(st, prov') /\ Same(client, st, st) /\ prov'.started = prov.started
  BY <1>1, <1>2 DEF Same
<1>6. CASE prov.kind = "server"
  <2> DEFINE e == Event("delta", prov.index, "call", Nothing, Next1)
  <2>1. Arrives(e) /\ said' = said
    BY <1>6 DEF BlockContinues
  <2>2. e.type = "delta" /\ e.index = prov.index
    BY DEF Event
  <2> HIDE DEF e
  <2>3. ClaudeToOpenAI(e, st) = NoPivot(st)
    BY <1>4, <1>6, <2>2, ClaudeMakesOfDelta
  <2>4. QED
    BY <1>1, <1>2, <1>5, <2>1, <2>3, ClaudeTellsNothing
<1>7. CASE prov.kind # "server"
  <2> DEFINE c == IF prov.kind = "call" THEN prov.started ELSE Nothing
             e == Event("delta", prov.index, prov.kind, c, Next1)
  <2>1. Arrives(e) /\ said' = Append(said, Piece(prov.kind, c))
    BY <1>7 DEF BlockContinues
  <2>2. e.type = "delta" /\ e.index = prov.index /\ e.kind = prov.kind /\ e.piece = Next1
    BY DEF Event
  <2> HIDE DEF e
  <2>3. e.index # st.serverBlock
    BY <1>3, <1>4, <1>7, <2>2
  <2> DEFINE none == Nothing
             reason == ""
             more == Next1
  <2>4. /\ none \in Nat /\ none \in Int /\ none >= CloseTag /\ ~ (none > 0) /\ none # OpenTag /\ reason \in Finishings
        /\ more \in Nat /\ more \in Int /\ more >= CloseTag /\ more # OpenTag /\ reason = ""
    BY <1>1, TagFacts, NaturalIsNoTag
  <2>5. CASE prov.kind = "think"
    <3>1. ClaudeToOpenAI(e, st) = OnePivot(st, Plain(more, none, reason))
      BY <2>2, <2>3, <2>5, ClaudeMakesOfDelta
    <3>2. said' = Append(said, Piece("think", Nothing)) /\ "think" \in {"think", "text"}
      BY <2>1, <2>5
    <3>3. Account(prov', said') = AddChunk(Account(prov, said), Plain(more, none, reason))
      BY <1>1, <1>5, <3>2, PieceAccounted
    <3> HIDE DEF none, reason, more
    <3>4. /\ none > 0 => prov.kind # "think"
          /\ reason = "" <=> prov'.over = "no"
          /\ prov'.over = "finished" => reason = FinishReason'
          /\ none = OpenTag \/ (prov.kind = "think" /\ none # CloseTag) => prov'.kind = "think"
      BY <1>2, <1>3, <2>4, <2>5
    <3>5. QED
      BY <1>1, <1>2, <1>3, <1>5, <2>1, <2>4, <3>1, <3>3, <3>4, ClaudeTellsPlain
  <2>6. CASE prov.kind = "text"
    <3>1. ClaudeToOpenAI(e, st) = OnePivot(st, Plain(none, more, reason))
      BY <2>2, <2>3, <2>6, ClaudeMakesOfDelta
    <3>2. said' = Append(said, Piece("text", Nothing)) /\ "text" \in {"think", "text"}
      BY <2>1, <2>6
    <3>3. Account(prov', said') = AddChunk(Account(prov, said), Plain(none, more, reason))
      BY <1>1, <1>5, <3>2, PieceAccounted
    <3> HIDE DEF none, reason, more
    <3>4. /\ more > 0 => prov.kind # "think"
          /\ reason = "" <=> prov'.over = "no"
          /\ prov'.over = "finished" => reason = FinishReason'
          /\ more = OpenTag \/ (prov.kind = "think" /\ more # CloseTag) => prov'.kind = "think"
      BY <1>2, <1>3, <2>4, <2>6
    <3>5. QED
      BY <1>1, <1>2, <1>3, <1>5, <2>1, <2>4, <3>1, <3>3, <3>4, ClaudeTellsPlain
  <2>7. CASE prov.kind = "call"
    <3> DEFINE x == Tool(c - 1, c, Next1)
               tool == st.toolCalls[prov.index]
    <3>1. c = prov.started /\ c \in Calls /\ tool = [call |-> c, at |-> c - 1]
      BY <1>4, <2>7
    <3> HIDE DEF c
    <3>2. tool.call = c /\ tool.at = c - 1 /\ tool # NoTool
      BY <3>1, CallsAreSlots DEF NoTool
    <3>3. ClaudeToOpenAI(e, st) = OnePivot(st, Uses(x))
      BY <2>2, <2>3, <2>7, <3>2, ClaudeMakesOfDelta
    <3>4. said' = Append(said, Piece("call", c)) /\ c <= prov.started /\ c \in {Nothing, c}
      BY <1>3, <2>1, <2>7, <3>1
    <3>5. FitsIn(Account(prov, said), x) /\ x.id = c /\ Account(prov', said') = AddCall(Account(prov, said), x)
      BY <1>1, <1>3, <1>5, <3>1, <3>4, ArgsAccounted
    <3> HIDE DEF x
    <3>6. x.id # Nothing /\ prov'.over = "no" /\ prov.kind # "think"
      BY <1>2, <1>3, <2>7, <3>1, <3>5, CallsAreSlots
    <3>7. QED
      BY <1>1, <1>2, <1>3, <1>5, <2>1, <3>3, <3>5, <3>6, ClaudeTellsCall
  <2>8. QED
    BY <1>1, <1>2, <1>7, <2>5, <2>6, <2>7 DEF Providers
<1>8. QED
  BY <1>6, <1>7

LEMMA ClaudeFinishesConveyed ==
  ASSUME Knowing, Informed, ClaudeFinishes
  PROVE  Informed'
<1>1. /\ up = "claude" /\ client # "claude" /\ Conveyed
      /\ st \in State /\ prov \in Providers /\ said \in Saids /\ SpeaksClaude(st, prov) /\ ClaudeAt(st, prov)
  BY ClaudeKnowing DEF ClaudeFinishes
<1>2. /\ Speaking({"claude"}) /\ prov.kind = "none" /\ prov.over # "failed" /\ said' = said
      /\ prov' = [prov EXCEPT !.over = "finished"]
  BY DEF ClaudeFinishes
<1>3. prov'.kind = "none" /\ prov'.over = "finished" /\ prov'.started = prov.started
  BY <1>1, <1>2 DEF Providers
<1>4. FinishReason' = FinishReason /\ FinishReason \in Finishings /\ FinishReason # ""
  BY <1>3 DEF FinishReason, Finishings
<1>5. /\ st.serverBlock = NoBlock /\ st.thinkingBlock = NoBlock
      /\ prov.over = "no" => ~ st.finishSent
      /\ (\E i \in Slots : st.toolCalls[i] # NoTool) <=> prov.started > 0
  BY <1>1, <1>2 DEF ClaudeAt
<1> DEFINE t == FinishNoted(st)
<1>6. t \in State /\ Same(client, st, t) /\ t.inThinking = st.inThinking
  <2>1. NoBlock \in Int
    BY DEF NoBlock
  <2>2. QED
    BY <1>1, <2>1, NotedFacts
<1>7. t.serverBlock = st.serverBlock /\ t.thinkingBlock = st.thinkingBlock /\ t.toolCalls = st.toolCalls
  BY <1>1 DEF FinishNoted, State
<1> HIDE DEF t
<1>8. ClaudeAt(t, prov') /\ ClaudeAt(st, prov')
  BY <1>3, <1>5, <1>7 DEF ClaudeAt
<1>9. ASSUME prov.over = "no", NEW e, Arrives(e), ClaudeToOpenAI(e, st) = OnePivot(t, Plain(Nothing, Nothing, FinishReason))
      PROVE  Informed'
  <2> DEFINE none == Nothing
             reason == FinishReason
  <2>1. Account(prov', said') = AddChunk(Account(prov, said), Plain(none, none, reason))
    BY <1>2, <1>3, NothingAccounted
  <2>2. /\ none \in Nat /\ none \in Int /\ none >= CloseTag /\ reason \in Finishings
        /\ none > 0 => prov.kind # "think"
        /\ reason = "" <=> prov'.over = "no"
        /\ prov'.over = "finished" => reason = FinishReason'
        /\ none = OpenTag \/ (prov.kind = "think" /\ none # CloseTag) => prov'.kind = "think"
        /\ ClaudeToOpenAI(e, st) = OnePivot(t, Plain(none, none, reason))
    BY <1>2, <1>3, <1>4, <1>9, TagFacts
  <2> HIDE DEF none, reason
  <2>3. QED
    BY <1>2, <1>6, <1>8, <1>9, <2>1, <2>2, ClaudeTellsPlain
<1> DEFINE d == Event("message_delta", 0, FinishReason, Nothing, Nothing)
           s == Event("message_stop", 0, "none", Nothing, Nothing)
<1>10. (prov.over = "no" /\ Arrives(d)) \/ Arrives(s)
  BY DEF ClaudeFinishes
<1>11. d.type = "message_delta" /\ d.kind = FinishReason /\ s.type = "message_stop"
  BY DEF Event
<1> HIDE DEF d, s
<1>12. CASE prov.over = "no" /\ Arrives(d)
  <2>1. ClaudeToOpenAI(d, st) = OnePivot(t, Plain(Nothing, Nothing, FinishReason))
    BY <1>1, <1>11, ClaudeMakesOfStop DEF t
  <2>2. QED
    BY <1>9, <1>12, <2>1
<1>13. CASE Arrives(s) /\ ~ st.finishSent
  <2> DEFINE reason == IF \E i \in Slots : st.toolCalls[i] # NoTool THEN "tools" ELSE "stop"
  <2>1. ClaudeToOpenAI(s, st) = OnePivot(t, Plain(Nothing, Nothing, reason))
    BY <1>1, <1>11, <1>13, ClaudeMakesOfStop DEF t
  <2>2. reason = FinishReason
    BY <1>5 DEF FinishReason
  <2>3. prov.over = "no"
    BY <1>1, <1>13 DEF SpeaksClaude
  <2> HIDE DEF reason
  <2>4. QED
    BY <1>9, <1>13, <2>1, <2>2, <2>3
<1>14. CASE Arrives(s) /\ st.finishSent
  <2>1. ClaudeToOpenAI(s, st) = NoPivot(st)
    BY <1>1, <1>11, <1>14, ClaudeMakesOfStop
  <2>2. Same(client, st, st)
    BY DEF Same
  <2>3. prov'.over = prov.over
    BY <1>1, <1>2, <1>3, <1>5, <1>14 DEF Providers
  <2>4. QED
    BY <1>1, <1>2, <1>3, <1>8, <1>14, <2>1, <2>2, <2>3, ClaudeTellsNothing
<1>15. QED
  BY <1>10, <1>12, <1>13, <1>14

-----------------------------------------------------------------------------
(* What the first hop makes of the events of the Responses API             *)

ArgsNoted(s, i) == [s EXCEPT !.argsEmitted = s.argsEmitted \cup {i}]
ItemNoted(s, c, i, n) ==
  [s EXCEPT !.current = c, !.respIndex = [s.respIndex EXCEPT ![c] = i], !.toolIndex = n]

LEMMA ItemsNotedFacts ==
  ASSUME NEW s \in State, NEW i \in Int, NEW n \in Nat, NEW c \in Calls
  PROVE  /\ ArgsNoted(s, i) \in State /\ \A cl : Same(cl, s, ArgsNoted(s, i))
         /\ ArgsNoted(s, i).argsEmitted = s.argsEmitted \cup {i} /\ ArgsNoted(s, i).current = s.current
         /\ ArgsNoted(s, i).finishSent = s.finishSent /\ ArgsNoted(s, i).started = s.started
         /\ ItemNoted(s, c, i, n) \in State /\ \A cl : Same(cl, s, ItemNoted(s, c, i, n))
         /\ ItemNoted(s, c, i, n).argsEmitted = s.argsEmitted /\ ItemNoted(s, c, i, n).current = c
         /\ ItemNoted(s, c, i, n).finishSent = s.finishSent /\ ItemNoted(s, c, i, n).started = s.started
<1> DEFINE more == s.argsEmitted \cup {i}
           index == [s.respIndex EXCEPT ![c] = i]
           a == ArgsNoted(s, i)
           t == ItemNoted(s, c, i, n)
<1>1. more \in SUBSET Int
  BY DEF State
<1>2. index \in [Calls -> Int]
  BY DEF State
<1>3. c \in Int
  BY CallsAreSlots
<1>4. a = [s EXCEPT !.argsEmitted = more] /\ t = [s EXCEPT !.current = c, !.respIndex = index, !.toolIndex = n]
  BY DEF ArgsNoted, ItemNoted
<1> HIDE DEF more, index, a, t
<1>5. a \in State /\ \A cl : Same(cl, s, a)
  BY <1>1, <1>4 DEF State, Same
<1>6. a.argsEmitted = more /\ a.current = s.current /\ a.finishSent = s.finishSent /\ a.started = s.started
  BY <1>4 DEF State
<1>7. t \in State
  BY <1>2, <1>3, <1>4 DEF State
<1>8. \A cl : Same(cl, s, t)
  BY <1>4 DEF State, Same
<1>9. t.argsEmitted = s.argsEmitted /\ t.current = c /\ t.finishSent = s.finishSent /\ t.started = s.started
  BY <1>4 DEF State
<1>10. QED
  BY <1>5, <1>6, <1>7, <1>8, <1>9 DEF a, t, more

LEMMA ItemNotedFacts ==
  ASSUME NEW s \in State, NEW i \in Int, NEW n \in Nat, NEW c \in Calls, NEW cl
  PROVE  /\ ItemNoted(s, c, i, n) \in State /\ Same(cl, s, ItemNoted(s, c, i, n))
         /\ ItemNoted(s, c, i, n).argsEmitted = s.argsEmitted /\ ItemNoted(s, c, i, n).current = c
         /\ ItemNoted(s, c, i, n).finishSent = s.finishSent /\ ItemNoted(s, c, i, n).started = s.started
<1> DEFINE t == ItemNoted(s, c, i, n)
<1>1. /\ t \in State /\ t.argsEmitted = s.argsEmitted /\ t.current = c
      /\ t.finishSent = s.finishSent /\ t.started = s.started
  BY ItemsNotedFacts
<1>2. \A x : Same(x, s, t)
  BY ItemsNotedFacts
<1> HIDE DEF t
<1>3. QED
  BY <1>1, <1>2 DEF t

LEMMA ArgsMade ==
  ASSUME NEW s \in State, NEW c \in Calls, s.respIndex[c] = c - 1, NEW n
  PROVE  Args(c, n, s) = OnePivot(ArgsNoted(s, c - 1), Uses(Tool(c - 1, Nothing, n))) /\ IndexOf(s, c) = c - 1
<1> DEFINE i == c - 1
<1>1. i # NoBlock
  BY CallsAreSlots DEF NoBlock
<1>2. IndexOf(s, c) = i
  BY <1>1 DEF IndexOf
<1> HIDE DEF i
<1>3. Args(c, n, s) = Emit(Result(ArgsNoted(s, i)), Uses(Tool(i, Nothing, n)))
  BY <1>2 DEF Args, ArgsNoted
<1>4. QED
  BY <1>2, <1>3, SendsIs DEF i

LEMMA AddedMade ==
  ASSUME NEW s \in State, NEW c, NEW i, NEW n,
         i = IF s.respIndex[c] = NoBlock THEN s.toolIndex ELSE s.respIndex[c],
         n = IF s.respIndex[c] = NoBlock THEN s.toolIndex + 1 ELSE s.toolIndex
  PROVE  Added(c, s) = OnePivot(ItemNoted(s, c, i, n), Uses(Tool(i, c, Nothing)))
<1> DEFINE new == s.respIndex[c] = NoBlock
           t == [s EXCEPT !.current = c, !.respIndex[c] = i, !.toolIndex = IF new THEN @ + 1 ELSE @]
<1>1. Added(c, s) = Emit(Result(t), Uses(Tool(i, c, Nothing)))
  BY DEF Added
<1>2. t = ItemNoted(s, c, i, n)
  <2>1. n = IF new THEN s.toolIndex + 1 ELSE s.toolIndex
    OBVIOUS
  <2> HIDE DEF new
  <2>2. QED
    BY <2>1 DEF ItemNoted, State
<1> HIDE DEF t
<1>3. QED
  BY <1>1, <1>2, SendsIs

LEMMA ResponsesMakes ==
  ASSUME NEW st0 \in State, NEW e
  PROVE  /\ e.type = "text" => ResponsesToOpenAI(e, st0) = OnePivot(Begun(st0), Plain(Nothing, e.piece, ""))
         /\ e.type = "think" => ResponsesToOpenAI(e, st0) = OnePivot(Begun(st0), Plain(e.piece, Nothing, ""))
         /\ e.type = "created" => ResponsesToOpenAI(e, st0) = NoPivot(Begun(st0))
         /\ e.type = "added" => ResponsesToOpenAI(e, st0) = Added(e.call, Begun(st0))
         /\ e.type = "args" => ResponsesToOpenAI(e, st0) = Args(e.call, e.piece, Begun(st0))
         /\ e.type = "done" => ResponsesToOpenAI(e, st0) = ItemDone(e.call, e.piece, Begun(st0))
         /\ e.type = "completed" => ResponsesToOpenAI(e, st0) = FinishOnce(Begun(st0))
         /\ e.type = "failed" => ResponsesToOpenAI(e, st0) = Failed(e.piece, Begun(st0))
<1> DEFINE s == Begun(st0)
<1>1. s = [st0 EXCEPT !.started = TRUE]
  BY DEF Begun
<1> HIDE DEF s
<1>2. /\ e.type = "text" => ResponsesToOpenAI(e, st0) = Emit(Result(s), Says(e.piece))
      /\ e.type = "think" => ResponsesToOpenAI(e, st0) = Emit(Result(s), Thinks(e.piece))
      /\ e.type = "created" => ResponsesToOpenAI(e, st0) = Result(s)
      /\ e.type = "added" => ResponsesToOpenAI(e, st0) = Added(e.call, s)
      /\ e.type = "args" => ResponsesToOpenAI(e, st0) = Args(e.call, e.piece, s)
      /\ e.type = "done" => ResponsesToOpenAI(e, st0) = ItemDone(e.call, e.piece, s)
      /\ e.type = "completed" => ResponsesToOpenAI(e, st0) = FinishOnce(s)
      /\ e.type = "failed" => ResponsesToOpenAI(e, st0) = Failed(e.piece, s)
  BY <1>1 DEF ResponsesToOpenAI
<1>3. Result(s) = NoPivot(s)
  BY DEF Result, NoPivot
<1>4. QED
  BY <1>2, <1>3, SendsIs, PlainFacts DEF s

LEMMA FinishMade ==
  ASSUME NEW s \in State, NEW n
  PROVE  /\ s.finishSent => FinishOnce(s) = NoPivot(s) /\ Failed(n, s) = NoPivot(s)
         /\ ~ s.finishSent =>
              /\ FinishOnce(s) = OnePivot(FinishNoted(s), Plain(Nothing, Nothing, ComputeFinishReason(s)))
              /\ Failed(n, s) = OnePivot(FinishNoted(s), Plain(Nothing, n, "stop"))
<1> DEFINE t == FinishNoted(s)
<1>1. [s EXCEPT !.finishSent = TRUE] = t
  BY DEF FinishNoted
<1> HIDE DEF t
<1>2. s.finishSent => FinishOnce(s) = NoPivot(s) /\ Failed(n, s) = NoPivot(s)
  BY DEF FinishOnce, Failed, Result, NoPivot
<1>3. ASSUME ~ s.finishSent
      PROVE  /\ FinishOnce(s) = Emit(Result(t), Finishes(ComputeFinishReason(s)))
             /\ Failed(n, s) = Emit(Result(t), Plain(Nothing, n, "stop"))
  BY <1>1, <1>3 DEF FinishOnce, Failed, Plain
<1>4. QED
  BY <1>2, <1>3, SendsIs, PlainFacts DEF t

-----------------------------------------------------------------------------
(* The events of the Responses API and what the client knows               *)

LEMMA ResponsesInforms ==
  ASSUME up = "responses", client # "responses", up' = up, client' = client, Conveyed',
         NEW t, Leaves(client, t, st'), t.started, ResponsesAt(t, prov', said', reader)
  PROVE  Informed'
<1> DEFINE p1 == prov'
           s1 == st'
           w1 == said'
           q1 == reader'
<1>1. ResponsesAt(s1, p1, w1, q1)
  <2>1. /\ s1.current = t.current /\ s1.finishSent = t.finishSent
        /\ s1.argsEmitted = t.argsEmitted /\ s1.started = t.started
    BY DEF Leaves, Frame
  <2>2. ResponsesAt(t, p1, w1, reader)
    OBVIOUS
  <2> HIDE DEF s1, p1, w1, q1
  <2>3. QED
    BY <2>1, <2>2 DEF ResponsesAt
<1>2. ResponsesAt(st, prov, said, reader)'
  BY <1>1 DEF ResponsesAt
<1>3. Noted'
  BY <1>2 DEF Noted
<1>4. Thoughtful(st, prov)'
  BY DEF Thoughtful
<1>5. QED
  BY <1>3, <1>4 DEF Informed

LEMMA ResponsesKnowing ==
  ASSUME Knowing, Informed, Speaking({"responses"})
  PROVE  /\ up = "responses" /\ client # "responses" /\ client \in Clients /\ Conveyed
         /\ st \in State /\ prov \in Providers /\ said \in Saids
         /\ Next1 \in Nat /\ Next1 = Len(said) + 1
         /\ SpeaksResponses(st, prov) /\ ResponsesAt(st, prov, said, reader)
         /\ Begun(st) \in State /\ Same(client, st, Begun(st)) /\ Begun(st).started
         /\ SpeaksResponses(Begun(st), prov) /\ ResponsesAt(Begun(st), prov, said, reader)
         /\ \A e, s : ToOpenAI(up, e, s) = ResponsesToOpenAI(e, s)
<1> DEFINE s == Begun(st)
<1>1. up = "responses" /\ client # "responses" /\ SpeaksResponses(st, prov)
  BY ResponsesStreams DEF Knowing, PassedOn
<1>2. st \in State /\ prov \in Providers /\ said \in Saids /\ client \in Clients
  BY KnowingFacts
<1>3. Len(said) \in Nat /\ Next1 = Len(said) + 1
  BY <1>2, SaidFacts DEF Next1
<1>4. Next1 \in Nat
  BY <1>3
<1>5. Conveyed /\ ResponsesAt(st, prov, said, reader)
  BY <1>1 DEF Informed, Noted
<1>6. \A e, x : ToOpenAI(up, e, x) = ResponsesToOpenAI(e, x)
  BY <1>1 DEF ToOpenAI
<1>7. /\ s \in State /\ Same(client, st, s) /\ s.toolIndex = st.toolIndex
      /\ s.finishSent = st.finishSent /\ s.respIndex = st.respIndex
      /\ s.argsEmitted = st.argsEmitted /\ s.current = st.current
  BY <1>2, BegunFacts
<1>8. s.started
  BY <1>2 DEF Begun, State
<1> HIDE DEF s
<1>9. SpeaksResponses(s, prov) /\ ResponsesAt(s, prov, said, reader)
  BY <1>1, <1>5, <1>7, <1>8 DEF SpeaksResponses, ResponsesAt
<1>10. QED
  BY <1>1, <1>2, <1>3, <1>4, <1>5, <1>6, <1>7, <1>8, <1>9 DEF s

(* A piece of thinking or of text, or the end.                             *)
LEMMA ResponsesTellsPlain ==
  ASSUME Knowing, Informed, Speaking({"responses"}), prov.over = "no",
         NEW e, Arrives(e), NEW t \in State, Same(client, st, t), t.started,
         NEW n \in Nat, NEW m \in Nat, NEW reason \in Finishings,
         ResponsesToOpenAI(e, st) = OnePivot(t, Plain(n, m, reason)),
         Account(prov', said') = AddChunk(Account(prov, said), Plain(n, m, reason)),
         reason = "" <=> prov'.over = "no",
         prov'.over = "finished" => reason = FinishReason',
         ResponsesAt(t, prov', said', reader)
  PROVE  Informed'
<1>1. /\ up = "responses" /\ client # "responses" /\ Conveyed
      /\ ToOpenAI(up, e, st) = OnePivot(t, Plain(n, m, reason))
  BY ResponsesKnowing
<1>2. m \in Int
  BY NaturalIsNoTag
<1>3. Conveyed' /\ Leaves(client, t, st') /\ client' = client /\ up' = up
  BY <1>1, <1>2, PlainConveyed
<1>4. QED
  BY <1>1, <1>3, ResponsesInforms

LEMMA ResponsesTellsCall ==
  ASSUME Knowing, Informed, Speaking({"responses"}), prov.over = "no",
         NEW e, Arrives(e), NEW t \in State, Same(client, st, t), t.started,
         NEW x, FitsIn(Account(prov, said), x), x.id # Nothing \/ x.at \in SlotsKnown(up, prov),
         ResponsesToOpenAI(e, st) = OnePivot(t, Uses(x)),
         Account(prov', said') = AddCall(Account(prov, said), x),
         prov'.over = "no", ResponsesAt(t, prov', said', reader)
  PROVE  Informed'
<1>1. /\ up = "responses" /\ client # "responses" /\ Conveyed
      /\ ToOpenAI(up, e, st) = OnePivot(t, Uses(x))
  BY ResponsesKnowing
<1>2. Usable(client, Uses(x), SlotsKnown(up, prov))
  BY ChunkFacts DEF FitsIn
<1>3. Conveyed' /\ Leaves(client, t, st') /\ client' = client /\ up' = up
  BY <1>1, <1>2, UsesConveyed
<1>4. QED
  BY <1>1, <1>3, ResponsesInforms

LEMMA ResponsesTellsNothing ==
  ASSUME Knowing, Informed, Speaking({"responses"}),
         NEW e, Arrives(e), NEW t \in State, Same(client, st, t), t.started,
         ResponsesToOpenAI(e, st) = NoPivot(t),
         said' = said, prov'.over = prov.over, prov'.started = prov.started, ResponsesAt(t, prov', said', reader)
  PROVE  Informed'
<1>1. up = "responses" /\ client # "responses" /\ Conveyed /\ ToOpenAI(up, e, st) = NoPivot(t)
  BY ResponsesKnowing
<1>2. Account(prov', said') = Account(prov, said)
  BY SameAccount
<1>3. Conveyed' /\ st' = t /\ reader' = reader
  BY <1>1, <1>2, NoneConveyed
<1>4. client' = client /\ up' = up
  BY DEF Arrives
<1>5. Leaves(client, t, st')
  BY <1>3 DEF Leaves, Frame
<1>6. QED
  BY <1>1, <1>3, <1>4, <1>5, ResponsesInforms

(* What has been said of the calls, when more is said.                     *)
LEMMA ResponsesAtMore ==
  ASSUME NEW s, NEW s1, NEW p, NEW p1, NEW w \in Saids, NEW q, ResponsesAt(s, p, w, q), NEW kind, NEW c \in Nat,
         p1.started = p.started, p.started \in Nat,
         s1.current = s.current, s1.started, s1.finishSent => p1.over # "no",
         c <= p.started, c \in Calls \/ c = Nothing,
         s1.argsEmitted = IF c = Nothing THEN s.argsEmitted ELSE s.argsEmitted \cup {c - 1}
  PROVE  ResponsesAt(s1, p1, Append(w, Piece(kind, c)), q)
<1> DEFINE v == Append(w, Piece(kind, c))
           n == Len(w) + 1
<1>1. /\ DOMAIN v = 1 .. n /\ DOMAIN w = 1 .. Len(w) /\ Len(w) \in Nat
      /\ v[n].call = c /\ \A i \in 1 .. Len(w) : v[i] = w[i]
  BY SaidFacts DEF Piece, Saids
<1> HIDE DEF v
<1>2. \A i \in DOMAIN v : v[i].call <= p1.started
  <2> TAKE i \in DOMAIN v
  <2>1. i = n \/ i \in 1 .. Len(w)
    BY <1>1
  <2>2. i \in 1 .. Len(w) => v[i].call = w[i].call /\ w[i].call <= p.started
    BY <1>1 DEF ResponsesAt
  <2>3. QED
    BY <1>1, <2>1, <2>2
<1>3. \A d \in Calls : (\E i \in DOMAIN v : v[i].call = d) <=> (\E i \in DOMAIN w : w[i].call = d) \/ c = d
  BY <1>1
<1>4. \A d \in Calls : d - 1 \in s1.argsEmitted <=> d - 1 \in s.argsEmitted \/ c = d
  <2> TAKE d \in Calls
  <2>1. d \in Nat /\ d # Nothing
    BY CallsAreSlots
  <2>2. CASE c = Nothing
    BY <2>1, <2>2
  <2>3. CASE c # Nothing
    <3>1. d - 1 \in s1.argsEmitted <=> d - 1 \in s.argsEmitted \/ d - 1 = c - 1
      BY <2>3
    <3>2. QED
      BY <2>1, <3>1
  <2>4. QED
    BY <2>2, <2>3
<1>5. s1.current # Nothing => p1.started > 0
  BY DEF ResponsesAt
<1>6. \A d \in Calls : d - 1 \in s1.argsEmitted <=> \E i \in DOMAIN v : v[i].call = d
  BY <1>3, <1>4 DEF ResponsesAt
<1>7. QED
  BY <1>2, <1>5, <1>6 DEF ResponsesAt, v

LEMMA ResponsesAtPiece ==
  ASSUME NEW s, NEW s1, NEW p, NEW p1, NEW w \in Saids, NEW q, ResponsesAt(s, p, w, q), NEW kind,
         p1.started = p.started, p.started \in Nat, s1.current = s.current, s1.started, s1.argsEmitted = s.argsEmitted,
         s1.finishSent => p1.over # "no"
  PROVE  ResponsesAt(s1, p1, Append(w, Piece(kind, Nothing)), q)
<1> DEFINE c == Nothing
<1>1. c \in Nat /\ c <= p.started /\ s1.argsEmitted = IF c = Nothing THEN s.argsEmitted ELSE s.argsEmitted \cup {c - 1}
  BY DEF Nothing
<1>2. c \in Calls \/ c = Nothing
  OBVIOUS
<1> HIDE DEF c
<1>3. ResponsesAt(s1, p1, Append(w, Piece(kind, c)), q)
  BY <1>1, <1>2, ResponsesAtMore
<1>4. QED
  BY <1>3 DEF c

LEMMA ResponsesSaysConveyed ==
  ASSUME Knowing, Informed, ResponsesSays
  PROVE  Informed'
<1>1. /\ Conveyed /\ st \in State /\ prov \in Providers /\ said \in Saids /\ Next1 \in Nat
      /\ Begun(st) \in State /\ Same(client, st, Begun(st)) /\ Begun(st).started
      /\ ResponsesAt(Begun(st), prov, said, reader)
  BY ResponsesKnowing DEF ResponsesSays
<1>2. /\ Speaking({"responses"}) /\ prov.over = "no" /\ prov' = [prov EXCEPT !.begun = TRUE]
  BY DEF ResponsesSays
<1>3. PICK kind \in {"think", "text"} :
        said' = Append(said, Piece(kind, Nothing)) /\ Arrives(RespEvent(kind, Nothing, Next1))
  BY DEF ResponsesSays
<1>4. prov'.started = prov.started /\ prov'.over = "no" /\ prov.started \in Nat
  BY <1>1, <1>2 DEF Providers
<1> DEFINE e == RespEvent(kind, Nothing, Next1)
           t == Begun(st)
           none == Nothing
           reason == ""
           more == Next1
<1>5. e.type = kind /\ e.piece = more /\ Arrives(e)
  BY <1>3 DEF RespEvent
<1> HIDE DEF e
<1>6. /\ none \in Nat /\ none \in Int /\ reason \in Finishings /\ more \in Nat /\ reason = ""
  BY <1>1, TagFacts
<1>7. ResponsesAt(t, prov', said', reader)
  <2> HIDE DEF t
  <2>1. t.finishSent => prov'.over # "no"
    BY <1>1, <1>2 DEF ResponsesAt, t
  <2>2. ResponsesAt(t, prov', Append(said, Piece(kind, Nothing)), reader)
    BY <1>1, <1>4, <2>1, ResponsesAtPiece DEF t
  <2>3. QED
    BY <1>3, <2>2
<1>8. /\ kind = "think" => Account(prov', said') = AddChunk(Account(prov, said), Plain(more, none, reason))
      /\ kind = "text" => Account(prov', said') = AddChunk(Account(prov, said), Plain(none, more, reason))
  BY <1>1, <1>3, <1>4, PieceAccounted
<1>9. /\ kind = "think" => ResponsesToOpenAI(e, st) = OnePivot(t, Plain(more, none, reason))
      /\ kind = "text" => ResponsesToOpenAI(e, st) = OnePivot(t, Plain(none, more, reason))
  BY <1>1, <1>5, ResponsesMakes
<1>10. (reason = "" <=> prov'.over = "no") /\ (prov'.over = "finished" => reason = FinishReason')
  BY <1>4
<1>11. t \in State /\ Same(client, st, t) /\ t.started
  BY <1>1
<1> HIDE DEF t, none, reason, more
<1>12. CASE kind = "think"
  BY <1>2, <1>5, <1>6, <1>7, <1>8, <1>9, <1>10, <1>11, <1>12, ResponsesTellsPlain
<1>13. CASE kind = "text"
  BY <1>2, <1>5, <1>6, <1>7, <1>8, <1>9, <1>10, <1>11, <1>13, ResponsesTellsPlain
<1>14. QED
  BY <1>12, <1>13

LEMMA ItemAddedConveyed ==
  ASSUME Knowing, Informed, ItemAdded
  PROVE  Informed'
<1>1. /\ st \in State /\ prov \in Providers /\ said \in Saids
      /\ Begun(st) \in State /\ Same(client, st, Begun(st)) /\ Begun(st).started
      /\ SpeaksResponses(Begun(st), prov) /\ ResponsesAt(Begun(st), prov, said, reader)
  BY ResponsesKnowing DEF ItemAdded
<1>2. Speaking({"responses"}) /\ prov.over = "no" /\ said' = said
  BY DEF ItemAdded
<1>3. prov.started \in Nat
  BY <1>1 DEF Providers
<1> DEFINE s == Begun(st)
<1>4. CASE prov' = [prov EXCEPT !.begun = TRUE] /\ Arrives(RespEvent("created", Nothing, Nothing))
  <2> DEFINE e == RespEvent("created", Nothing, Nothing)
  <2>1. prov'.started = prov.started /\ prov'.over = prov.over
    BY <1>1, <1>4 DEF Providers
  <2>2. e.type = "created" /\ Arrives(e)
    BY <1>4 DEF RespEvent
  <2> HIDE DEF e
  <2>3. ResponsesToOpenAI(e, st) = NoPivot(s)
    BY <1>1, <2>2, ResponsesMakes
  <2> HIDE DEF s
  <2>4. ResponsesAt(s, prov', said', reader)
    BY <1>1, <1>2, <2>1 DEF ResponsesAt, s
  <2>5. s \in State /\ Same(client, st, s) /\ s.started
    BY <1>1 DEF s
  <2>6. QED
    BY <1>2, <2>1, <2>2, <2>3, <2>4, <2>5, ResponsesTellsNothing
<1>5. ASSUME NEW c \in Calls, c <= prov.started + 1,
             prov' = [prov EXCEPT !.begun = TRUE, !.started = IF c > @ THEN c ELSE @],
             Arrives(RespEvent("added", c, Nothing))
      PROVE  Informed'
  <2> DEFINE e == RespEvent("added", c, Nothing)
             more == IF c > prov.started THEN c ELSE prov.started
             i == c - 1
             t == ItemNoted(s, c, i, more)
             x == Tool(c - 1, c, Nothing)
  <2>1. c \in Nat /\ c > 0 /\ c # Nothing /\ c - 1 \in Slots /\ c - 1 + 1 = c /\ c - 1 \in Int /\ c - 1 # NoBlock
    BY CallsAreSlots DEF Nothing, NoBlock
  <2>2. s.respIndex[c] = (IF c <= prov.started THEN c - 1 ELSE NoBlock) /\ s.toolIndex = prov.started
    BY <1>1 DEF SpeaksResponses
  <2>3. more \in Nat /\ more >= prov.started /\ more > 0
        /\ (c > prov.started => c = prov.started + 1 /\ more = c) /\ (c <= prov.started => more = prov.started)
    BY <1>3, <1>5, <2>1
  <2>4. prov'.started = more /\ prov'.over = "no"
    <3>1. prov' = [prov EXCEPT !.begun = TRUE, !.started = more]
      BY <1>5
    <3> HIDE DEF more
    <3>2. QED
      BY <1>1, <1>2, <3>1 DEF Providers
  <2>5. e.type = "added" /\ e.call = c /\ Arrives(e)
    BY <1>5 DEF RespEvent
  <2> HIDE DEF e
  <2>6. ResponsesToOpenAI(e, st) = Added(c, s)
    BY <1>1, <2>5, ResponsesMakes
  <2>7. /\ i = IF s.respIndex[c] = NoBlock THEN s.toolIndex ELSE s.respIndex[c]
        /\ more = IF s.respIndex[c] = NoBlock THEN s.toolIndex + 1 ELSE s.toolIndex
    BY <1>3, <2>1, <2>2, <2>3
  <2> HIDE DEF more, s
  <2>8. Added(c, s) = OnePivot(t, Uses(x))
    <3> DEFINE j == i
    <3>1. Uses(x) = Uses(Tool(j, c, Nothing)) /\ s \in State
      BY <1>1 DEF s
    <3>2. j = IF s.respIndex[c] = NoBlock THEN s.toolIndex ELSE s.respIndex[c]
      BY <2>7
    <3> HIDE DEF x, j
    <3>3. Added(c, s) = OnePivot(ItemNoted(s, c, j, more), Uses(Tool(j, c, Nothing)))
      BY <2>7, <3>1, <3>2, AddedMade
    <3>4. QED
      BY <3>1, <3>3 DEF j
  <2>9. s \in State /\ Same(client, st, s) /\ s.started
    BY <1>1 DEF s
  <2>10. /\ t \in State /\ Same(client, s, t) /\ t.argsEmitted = s.argsEmitted /\ t.current = c
         /\ t.finishSent = s.finishSent /\ t.started = s.started
    <3>1. i \in Int
      BY <2>1
    <3> HIDE DEF i
    <3>2. more \in Nat /\ s \in State
      BY <2>3, <2>9
    <3> HIDE DEF t
    <3>3. /\ ItemNoted(s, c, i, more) \in State /\ Same(client, s, ItemNoted(s, c, i, more))
          /\ ItemNoted(s, c, i, more).argsEmitted = s.argsEmitted /\ ItemNoted(s, c, i, more).current = c
          /\ ItemNoted(s, c, i, more).finishSent = s.finishSent /\ ItemNoted(s, c, i, more).started = s.started
      BY <3>1, <3>2, ItemNotedFacts
    <3>4. QED
      BY <3>3 DEF t
  <2> HIDE DEF t, i
  <2>11. Same(client, st, t)
    BY <2>9, <2>10 DEF Same
  <2>12. ResponsesAt(s, prov, said, reader)
    BY <1>1 DEF s
  <2>13. ResponsesAt(t, prov', said', reader)
    <3>1. \A k \in DOMAIN said : said[k].call <= prov'.started
      <4> TAKE k \in DOMAIN said
      <4>1. said[k].call \in Nat
        BY <1>1, SaidFacts
      <4>2. said[k].call <= prov.started
        BY <2>12 DEF ResponsesAt
      <4>3. QED
        BY <1>3, <2>3, <2>4, <4>1, <4>2
    <3>2. QED
      BY <1>2, <2>3, <2>4, <2>9, <2>10, <2>12, <3>1 DEF ResponsesAt
  <2>14. Knows(prov', prov, c)
    BY <1>3, <2>1, <2>3, <2>4, OneMoreCall
  <2>15. FitsIn(Account(prov, said), x) /\ x.id # Nothing /\ Account(prov', said') = AddCall(Account(prov, said), x)
    BY <1>1, <1>2, <2>14, CallNamed
  <2> HIDE DEF x
  <2>16. ResponsesToOpenAI(e, st) = OnePivot(t, Uses(x)) /\ t.started
    BY <2>6, <2>8, <2>9, <2>10
  <2>17. QED
    BY <1>2, <2>4, <2>5, <2>10, <2>11, <2>13, <2>15, <2>16, ResponsesTellsCall
<1>6. QED
  BY <1>4, <1>5 DEF ItemAdded

(* Arguments of a call that has been added.                                *)
LEMMA ArgsConveyed ==
  ASSUME Knowing, Informed, Speaking({"responses"}), prov.over = "no",
         NEW e, Arrives(e), NEW c \in StartedCalls,
         ResponsesToOpenAI(e, st) = Args(c, Next1, Begun(st)),
         said' = Append(said, Piece("call", c)), prov'.started = prov.started, prov'.over = prov.over
  PROVE  Informed'
<1> DEFINE s == Begun(st)
           t == ArgsNoted(s, c - 1)
           x == Tool(c - 1, Nothing, Next1)
<1>1. /\ up = "responses" /\ prov \in Providers /\ said \in Saids
      /\ s \in State /\ Same(client, st, s) /\ s.started
      /\ SpeaksResponses(s, prov) /\ ResponsesAt(s, prov, said, reader)
  BY ResponsesKnowing
<1> HIDE DEF s
<1>2. c \in Calls /\ c <= prov.started /\ prov.started \in Nat /\ c \in Nat /\ c # Nothing /\ c - 1 \in Int /\ c - 1 \in Slots /\ c - 1 + 1 = c
  BY <1>1, CallsAreSlots DEF StartedCalls, Providers
<1>3. s.respIndex[c] = c - 1
  BY <1>1, <1>2 DEF SpeaksResponses
<1>4. ResponsesToOpenAI(e, st) = OnePivot(t, Uses(x))
  BY <1>1, <1>2, <1>3, ArgsMade DEF s
<1>5. /\ t \in State /\ Same(client, s, t) /\ t.argsEmitted = s.argsEmitted \cup {c - 1} /\ t.current = s.current
      /\ t.finishSent = s.finishSent /\ t.started = s.started
  <2>1. 0 \in Nat
    OBVIOUS
  <2>2. QED
    BY <1>1, <1>2, <2>1, ItemsNotedFacts
<1> HIDE DEF t
<1>6. Same(client, st, t) /\ t.started
  BY <1>1, <1>5 DEF Same
<1>7. ResponsesAt(t, prov', said', reader)
  <2>1. t.finishSent => prov'.over # "no"
    BY <1>1, <1>5 DEF ResponsesAt
  <2>2. t.argsEmitted = IF c = Nothing THEN s.argsEmitted ELSE s.argsEmitted \cup {c - 1}
    BY <1>2, <1>5
  <2>3. ResponsesAt(t, prov', Append(said, Piece("call", c)), reader)
    BY <1>1, <1>2, <1>5, <1>6, <2>1, <2>2, ResponsesAtMore
  <2>4. QED
    BY <2>3
<1>8. Nothing \in {Nothing, c}
  OBVIOUS
<1> DEFINE id == Nothing
<1>9. FitsIn(Account(prov, said), x) /\ x.at = c - 1 /\ Account(prov', said') = AddCall(Account(prov, said), x)
  <2>1. id \in {Nothing, c} /\ x = Tool(c - 1, id, Next1)
    OBVIOUS
  <2> HIDE DEF id, x
  <2>2. QED
    BY <1>1, <1>2, <2>1, ArgsAccounted
<1> HIDE DEF x
<1>10. x.at \in SlotsKnown(up, prov)
  BY <1>1, <1>2, <1>9 DEF SlotsKnown
<1>11. prov'.over = "no"
  OBVIOUS
<1>12. QED
  BY <1>4, <1>5, <1>6, <1>7, <1>9, <1>10, <1>11, ResponsesTellsCall

LEMMA ArgsArriveConveyed ==
  ASSUME Knowing, Informed, ArgsArrive
  PROVE  Informed'
<1>1. st \in State
  BY ResponsesKnowing DEF ArgsArrive
<1>2. Speaking({"responses"}) /\ prov.over = "no" /\ prov' = prov
  BY DEF ArgsArrive
<1>3. PICK c \in StartedCalls : said' = Append(said, Piece("call", c)) /\ Arrives(RespEvent("args", c, Next1))
  BY DEF ArgsArrive
<1> DEFINE e == RespEvent("args", c, Next1)
<1>4. e.type = "args" /\ e.call = c /\ e.piece = Next1 /\ Arrives(e)
  BY <1>3 DEF RespEvent
<1> HIDE DEF e
<1>5. ResponsesToOpenAI(e, st) = Args(c, Next1, Begun(st))
  BY <1>1, <1>4, ResponsesMakes
<1>6. prov'.started = prov.started /\ prov'.over = prov.over
  BY <1>2
<1>7. QED
  BY <1>2, <1>3, <1>4, <1>5, <1>6, ArgsConveyed

LEMMA ItemIsDoneConveyed ==
  ASSUME Knowing, Informed, ItemIsDone
  PROVE  Informed'
<1> DEFINE s == Begun(st)
<1>1. /\ st \in State /\ prov \in Providers /\ said \in Saids /\ Next1 = Len(said) + 1
      /\ s \in State /\ Same(client, st, s) /\ s.started
      /\ SpeaksResponses(s, prov) /\ ResponsesAt(s, prov, said, reader)
  BY ResponsesKnowing DEF ItemIsDone
<1>2. Speaking({"responses"}) /\ prov.over = "no"
  BY DEF ItemIsDone
<1>3. PICK c \in StartedCalls :
        /\ said' = IF \E i \in DOMAIN said : said[i].call = c THEN said ELSE Append(said, Piece("call", c))
        /\ prov' = [prov EXCEPT !.done = @ \cup {c}]
        /\ Arrives(RespEvent("done", c, Len(said) + 1))
  BY DEF ItemIsDone
<1> DEFINE e == RespEvent("done", c, Next1)
<1>4. e.type = "done" /\ e.call = c /\ e.piece = Next1 /\ Arrives(e)
  BY <1>1, <1>3 DEF RespEvent
<1> HIDE DEF e
<1>5. ResponsesToOpenAI(e, st) = ItemDone(c, Next1, s)
  BY <1>1, <1>4, ResponsesMakes
<1>6. prov'.started = prov.started /\ prov'.over = prov.over
  BY <1>1, <1>3 DEF Providers
<1>7. c \in Calls /\ s.respIndex[c] = c - 1
  BY <1>1 DEF SpeaksResponses, StartedCalls
<1> HIDE DEF s
<1>8. IndexOf(s, c) = c - 1
  BY <1>1, <1>7, ArgsMade
<1>9. c - 1 \in s.argsEmitted <=> \E i \in DOMAIN said : said[i].call = c
  BY <1>1, <1>7 DEF ResponsesAt
<1>10. CASE c - 1 \in s.argsEmitted
  <2>1. ResponsesToOpenAI(e, st) = NoPivot(s)
    BY <1>5, <1>8, <1>10 DEF ItemDone, Result, NoPivot
  <2>2. said' = said
    BY <1>3, <1>9, <1>10
  <2>3. ResponsesAt(s, prov', said', reader)
    BY <1>1, <1>6, <2>2 DEF ResponsesAt
  <2>4. QED
    BY <1>1, <1>2, <1>4, <1>6, <2>1, <2>2, <2>3, ResponsesTellsNothing
<1>11. CASE c - 1 \notin s.argsEmitted
  <2>1. ResponsesToOpenAI(e, st) = Args(c, Next1, Begun(st))
    BY <1>5, <1>8, <1>11 DEF ItemDone, s
  <2>2. said' = Append(said, Piece("call", c))
    BY <1>3, <1>9, <1>11
  <2>3. QED
    BY <1>2, <1>4, <1>6, <2>1, <2>2, ArgsConveyed
<1>12. QED
  BY <1>10, <1>11

LEMMA ResponsesFinishesConveyed ==
  ASSUME Knowing, Informed, ResponsesFinishes
  PROVE  Informed'
<1> DEFINE s == Begun(st)
           t == FinishNoted(s)
           done == RespEvent("completed", Nothing, Nothing)
           wrong == RespEvent("failed", Nothing, Next1)
<1>1. /\ st \in State /\ prov \in Providers /\ said \in Saids /\ Next1 \in Nat
      /\ s \in State /\ Same(client, st, s) /\ s.started
      /\ SpeaksResponses(s, prov) /\ ResponsesAt(s, prov, said, reader)
  BY ResponsesKnowing DEF ResponsesFinishes
<1>2. Speaking({"responses"})
  BY DEF ResponsesFinishes
<1>3. /\ done.type = "completed"
      /\ wrong.type = "failed" /\ wrong.piece = Next1
  BY DEF RespEvent
<1>4. \/ /\ prov.over = "no" /\ prov' = [prov EXCEPT !.begun = TRUE, !.over = "finished"]
         /\ Arrives(done) /\ said' = said
      \/ /\ prov.over = "no" /\ prov' = [prov EXCEPT !.begun = TRUE, !.over = "failed"]
         /\ said' = Append(said, Piece("text", Nothing)) /\ Arrives(wrong)
      \/ prov.over = "failed" /\ Arrives(wrong) /\ prov' = prov /\ said' = said
  BY DEF ResponsesFinishes
<1> HIDE DEF done, wrong
<1>5. ResponsesToOpenAI(done, st) = FinishOnce(s) /\ ResponsesToOpenAI(wrong, st) = Failed(Next1, s)
  BY <1>1, <1>3, ResponsesMakes
<1>6. prov.started \in Nat /\ s.toolIndex = prov.started
  BY <1>1 DEF Providers, SpeaksResponses
<1>7. t \in State /\ Same(client, s, t)
  <2>1. NoBlock \in Int
    BY DEF NoBlock
  <2>2. QED
    BY <1>1, <2>1, NotedFacts
<1>8. t.started /\ t.argsEmitted = s.argsEmitted /\ t.current = s.current
  BY <1>1 DEF FinishNoted, State
<1> HIDE DEF s, t
<1>9. Same(client, st, t)
  BY <1>1, <1>7 DEF Same
<1> DEFINE none == Nothing
           stop == "stop"
           reason == ComputeFinishReason(s)
           more == Next1
<1>10. /\ none \in Nat /\ none \in Int /\ more \in Nat /\ stop \in Finishings /\ reason \in Finishings
       /\ stop # "" /\ reason # ""
  BY <1>1, TagFacts DEF ComputeFinishReason
<1>11. reason = FinishReason
  BY <1>1, <1>6 DEF ResponsesAt, ComputeFinishReason, FinishReason
<1>12. CASE prov.over = "no" /\ Arrives(done) /\ prov' = [prov EXCEPT !.begun = TRUE, !.over = "finished"] /\ said' = said
  <2>1. prov'.started = prov.started /\ prov'.over = "finished"
    BY <1>1, <1>12 DEF Providers
  <2>2. ~ s.finishSent
    BY <1>1, <1>12 DEF ResponsesAt
  <2>3. ResponsesToOpenAI(done, st) = OnePivot(t, Plain(none, none, reason))
    BY <1>1, <1>5, <2>2, FinishMade DEF t
  <2>4. Account(prov', said') = AddChunk(Account(prov, said), Plain(none, none, reason))
    BY <1>12, <2>1, NothingAccounted
  <2>5. ResponsesAt(t, prov', said', reader)
    BY <1>1, <1>8, <1>12, <2>1 DEF ResponsesAt
  <2>6. (reason = "" <=> prov'.over = "no") /\ (prov'.over = "finished" => reason = FinishReason')
    BY <1>10, <1>11, <2>1 DEF FinishReason
  <2> HIDE DEF none, reason
  <2>7. QED
    BY <1>2, <1>7, <1>8, <1>9, <1>10, <1>12, <2>3, <2>4, <2>5, <2>6, ResponsesTellsPlain
<1>13. CASE /\ prov.over = "no" /\ prov' = [prov EXCEPT !.begun = TRUE, !.over = "failed"]
            /\ said' = Append(said, Piece("text", Nothing)) /\ Arrives(wrong)
  <2>1. prov'.started = prov.started /\ prov'.over = "failed"
    BY <1>1, <1>13 DEF Providers
  <2>2. ~ s.finishSent
    BY <1>1, <1>13 DEF ResponsesAt
  <2>3. ResponsesToOpenAI(wrong, st) = OnePivot(t, Plain(none, more, stop))
    BY <1>1, <1>5, <2>2, FinishMade DEF t
  <2>4. Account(prov', said') = AddChunk(Account(prov, said), Plain(none, more, stop))
    <3>1. "text" \in {"think", "text"}
      OBVIOUS
    <3>2. QED
      BY <1>1, <1>13, <2>1, <3>1, PieceAccounted
  <2>5. ResponsesAt(t, prov', Append(said, Piece("text", Nothing)), reader)
    BY <1>1, <1>6, <1>8, <2>1, ResponsesAtPiece
  <2>6. ResponsesAt(t, prov', said', reader)
    BY <1>13, <2>5
  <2>7. (stop = "" <=> prov'.over = "no") /\ (prov'.over = "finished" => stop = FinishReason')
    BY <1>10, <2>1
  <2> HIDE DEF none, stop, more
  <2>8. QED
    BY <1>2, <1>7, <1>8, <1>9, <1>10, <1>13, <2>3, <2>4, <2>6, <2>7, ResponsesTellsPlain
<1>14. CASE prov.over = "failed" /\ Arrives(wrong) /\ prov' = prov /\ said' = said
  <2>1. s.finishSent
    BY <1>1, <1>14 DEF SpeaksResponses
  <2>2. ResponsesToOpenAI(wrong, st) = NoPivot(s)
    BY <1>1, <1>5, <2>1, FinishMade
  <2>3. ResponsesAt(s, prov', said', reader)
    BY <1>1, <1>14
  <2>4. prov'.over = prov.over /\ prov'.started = prov.started
    BY <1>14
  <2>5. QED
    BY <1>1, <1>2, <1>14, <2>2, <2>3, <2>4, ResponsesTellsNothing
<1>15. QED
  BY <1>4, <1>12, <1>13, <1>14

-----------------------------------------------------------------------------
(* What a chunk of Chat Completions says                                   *)

WithPiece(w, yes, kind) == IF yes THEN Append(w, Piece(kind, Nothing)) ELSE w
WithCall(w, yes, c) == IF yes THEN Append(w, Piece("call", c)) ELSE w

LEMMA WithFactsOf ==
  ASSUME NEW w \in Saids, NEW yes \in BOOLEAN, NEW kind \in {"think", "text"}, NEW p
  PROVE  /\ WithPiece(w, yes, kind) \in Saids
         /\ Len(WithPiece(w, yes, kind)) = IF yes THEN Len(w) + 1 ELSE Len(w)
         /\ Account(p, WithPiece(w, yes, kind)) = AddPiece(Account(p, w), kind, IF yes THEN Len(w) + 1 ELSE Nothing)
         /\ \A c \in Nat : WithCall(w, yes, c) \in Saids /\ Len(WithCall(w, yes, c)) = IF yes THEN Len(w) + 1 ELSE Len(w)
<1>1. kind \in Kinds /\ Nothing \in Nat /\ "call" \in Kinds
  BY DEF Kinds, Nothing
<1>2. CASE yes
  <2>1. WithPiece(w, yes, kind) = Append(w, Piece(kind, Nothing))
    BY <1>2 DEF WithPiece
  <2>2. Append(w, Piece(kind, Nothing)) \in Saids /\ Len(Append(w, Piece(kind, Nothing))) = Len(w) + 1
    BY <1>1, SaidMore
  <2>3. \A c \in Nat : Append(w, Piece("call", c)) \in Saids /\ Len(Append(w, Piece("call", c))) = Len(w) + 1
    BY <1>1, SaidMore
  <2>4. Account(p, Append(w, Piece(kind, Nothing))) = AddPiece(Account(p, w), kind, Len(w) + 1)
    BY AccountPiece
  <2>5. QED
    BY <1>2, <2>1, <2>2, <2>3, <2>4 DEF WithCall
<1>3. CASE ~ yes
  <2>1. WithPiece(w, yes, kind) = w /\ \A c : WithCall(w, yes, c) = w
    BY <1>3 DEF WithPiece, WithCall
  <2>2. AddPiece(Account(p, w), kind, Nothing) = Account(p, w)
    BY DEF AddPiece, Nothing
  <2>3. QED
    BY <1>3, <2>1, <2>2
<1>4. QED
  BY <1>2, <1>3

TextsSaid(think, text) ==
  (IF think THEN <<Piece("think", Nothing)>> ELSE <<>>) \o (IF text THEN <<Piece("text", Nothing)>> ELSE <<>>)
WithTexts(w, think, text) == WithPiece(WithPiece(w, think, "think"), text, "text")

LEMMA OneIsAppended ==
  ASSUME NEW S, NEW w \in Seq(S), NEW a \in S
  PROVE  w \o <<a>> = Append(w, a) /\ w \o <<>> = w /\ <<a>> \in Seq(S) /\ Len(<<a>>) = 1
OBVIOUS

LEMMA TwoAreAppended ==
  ASSUME NEW S, NEW w \in Seq(S), NEW a \in S, NEW b \in S
  PROVE  w \o <<a, b>> = Append(Append(w, a), b)
OBVIOUS

LEMMA ConcatAssociates ==
  ASSUME NEW S, NEW w \in Seq(S), NEW x \in Seq(S), NEW y \in Seq(S)
  PROVE  (w \o x) \o y = w \o (x \o y) /\ Len(w \o x) = Len(w) + Len(x)
OBVIOUS

LEMMA TextsAppended ==
  ASSUME NEW w \in Saids, NEW think \in BOOLEAN, NEW text \in BOOLEAN
  PROVE  /\ w \o TextsSaid(think, text) = WithTexts(w, think, text) /\ TextsSaid(think, text) \in Saids
         /\ Len(w) + Len(TextsSaid(think, text)) = Len(WithTexts(w, think, text))
<1> DEFINE S == Pieces
           a == Piece("think", Nothing)
           b == Piece("text", Nothing)
           x == IF think THEN <<a>> ELSE <<>>
           y == IF text THEN <<b>> ELSE <<>>
           v == WithPiece(w, think, "think")
<1>1. a \in S /\ b \in S
  BY PieceFacts DEF Kinds, Nothing
<1>2. w \in Seq(S)
  BY SaidFacts
<1>3. WithTexts(w, think, text) = (IF text THEN Append(v, b) ELSE v) /\ v = IF think THEN Append(w, a) ELSE w
  BY DEF WithTexts, WithPiece
<1>4. TextsSaid(think, text) = x \o y
  BY DEF TextsSaid
<1>5. \A u \in Seq(S) : u \in Saids
  BY DEF Saids, Pieces
<1> HIDE DEF a, b, S, v
<1>6. <<a>> \in Seq(S) /\ <<b>> \in Seq(S) /\ <<>> \in Seq(S)
  BY <1>1, OneIsAppended
<1>7. x \in Seq(S) /\ y \in Seq(S)
  BY <1>6
<1>8. w \o x = v
  BY <1>1, <1>2, <1>3, OneIsAppended
<1>9. v \in Seq(S)
  BY <1>1, <1>2, <1>3
<1>10. v \o y = WithTexts(w, think, text)
  BY <1>1, <1>3, <1>9, OneIsAppended
<1> HIDE DEF x, y
<1>11. (w \o x) \o y = w \o (x \o y) /\ x \o y \in Seq(S) /\ Len(w \o (x \o y)) = Len(w) + Len(x \o y)
  BY <1>2, <1>7, ConcatAssociates
<1>12. QED
  BY <1>4, <1>5, <1>8, <1>10, <1>11

LEMMA TextsAccounted ==
  ASSUME NEW w \in Saids, NEW think \in BOOLEAN, NEW text \in BOOLEAN, NEW p
  PROVE  /\ WithTexts(w, think, text) \in Saids
         /\ Account(p, WithTexts(w, think, text)) =
              AddPiece(AddPiece(Account(p, w), "think", IF think THEN Len(w) + 1 ELSE Nothing),
                       "text", IF text THEN Len(WithTexts(w, think, text)) ELSE Nothing)
<1> DEFINE v == WithPiece(w, think, "think")
           u == WithPiece(v, text, "text")
           A == AddPiece(Account(p, w), "think", IF think THEN Len(w) + 1 ELSE Nothing)
<1>1. "think" \in {"think", "text"} /\ "text" \in {"think", "text"}
  OBVIOUS
<1>2. v \in Saids /\ Account(p, v) = A
  BY <1>1, WithFactsOf
<1> HIDE DEF v, A
<1>3. /\ u \in Saids /\ Len(u) = (IF text THEN Len(v) + 1 ELSE Len(v))
      /\ Account(p, u) = AddPiece(Account(p, v), "text", IF text THEN Len(v) + 1 ELSE Nothing)
  BY <1>1, <1>2, WithFactsOf
<1>4. u = WithTexts(w, think, text)
  BY DEF WithTexts, v
<1> HIDE DEF u
<1>5. Account(p, u) = AddPiece(A, "text", IF text THEN Len(u) ELSE Nothing)
  BY <1>2, <1>3
<1>6. QED
  BY <1>3, <1>4, <1>5 DEF A

-----------------------------------------------------------------------------
(* The calls of a chunk of Chat Completions                                *)

EntryFor(c, named, args, n) == Tool(c - 1, IF named THEN c ELSE Nothing, IF args THEN n ELSE Nothing)

LEMMA EntryFacts ==
  ASSUME NEW c \in Calls, NEW named \in BOOLEAN, NEW args \in BOOLEAN, NEW n \in Nat, n > 0,
         NEW x, x = EntryFor(c, named, args, n)
  PROVE  /\ x \in ToolEntries /\ Numbered(x) /\ x.at = c - 1 /\ x.at + 1 = c
         /\ x.id # Nothing <=> named
         /\ args => x.args = n
         /\ ~ args => x.args = Nothing
<1> DEFINE id == IF named THEN c ELSE Nothing
           piece == IF args THEN n ELSE Nothing
           at == c - 1
<1>1. at \in Slots /\ at + 1 = c /\ c \in Nat /\ c # Nothing
  BY CallsAreSlots
<1>2. id \in Nat /\ piece \in Int /\ (id # Nothing <=> named) /\ (id # Nothing => id = c)
  BY <1>1 DEF Nothing
<1>3. x = [at |-> at, id |-> id, args |-> piece]
  BY DEF EntryFor, Tool
<1>4. (args => piece = n) /\ (~ args => piece = Nothing)
  OBVIOUS
<1> HIDE DEF at, id, piece
<1>5. x \in ToolEntries /\ x.at = at /\ x.id = id /\ x.args = piece
  BY <1>1, <1>2, <1>3 DEF ToolEntries
<1>6. Numbered(x)
  BY <1>1, <1>2, <1>5 DEF Numbered
<1>7. QED
  BY <1>1, <1>2, <1>4, <1>5, <1>6 DEF at

LEMMA EntryAccounted ==
  ASSUME NEW w \in Saids, NEW p, NEW p1, NEW c \in Calls, Knows(p1, p, c),
         NEW named \in BOOLEAN, NEW args \in BOOLEAN, named \/ c \in CallsKnown(p),
         NEW x, x = EntryFor(c, named, args, Len(w) + 1)
  PROVE  /\ Account(p1, WithCall(w, args, c)) = AddCall(Account(p, w), x)
         /\ FitsIn(Account(p, w), x)
<1> DEFINE n == Len(w) + 1
           A == Account(p, w)
<1>1. n \in Nat /\ n > 0
  BY SaidFacts
<1>2. x = EntryFor(c, named, args, n) /\ A.known = CallsKnown(p)
  BY DEF Account
<1> HIDE DEF n
<1>3. /\ x \in ToolEntries /\ Numbered(x) /\ x.at = c - 1 /\ x.at + 1 = c
      /\ (x.id # Nothing <=> named) /\ (args => x.args = n) /\ (~ args => x.args = Nothing)
  BY <1>1, <1>2, EntryFacts
<1>4. FitsIn(A, x)
  <2> HIDE DEF A
  <2>1. QED
    BY <1>2, <1>3 DEF FitsIn
<1>5. CASE args
  <2>1. WithCall(w, args, c) = Append(w, Piece("call", c)) /\ x.args = Len(w) + 1
    BY <1>3, <1>5 DEF WithCall, n
  <2>2. Account(p1, Append(w, Piece("call", c))) = AddCall(Account(p, w), x)
    BY <1>3, <2>1, AccountCall
  <2>3. QED
    BY <1>4, <2>1, <2>2
<1>6. CASE ~ args
  <2>1. WithCall(w, args, c) = w
    BY <1>6 DEF WithCall
  <2>2. Account(p1, w) = AddCall(Account(p, w), x)
    BY <1>3, <1>6, AccountCall
  <2>3. QED
    BY <1>4, <2>1, <2>2
<1>7. QED
  BY <1>5, <1>6

CallsSaid(tools) ==
  LET withArgs == IF \A i \in DOMAIN tools : tools[i].args THEN tools ELSE <<>>
  IN  [i \in DOMAIN withArgs |-> Piece("call", withArgs[i].call)]

(* What the calls of a chunk add, after the words w.                       *)
CallsAdd(w, tools, p1) ==
  LET ts == ToolsOf(tools, Len(w))
      A == Account(prov, w)
  IN  /\ Account(p1, w \o CallsSaid(tools)) = AddCalls(A, ts)
      /\ FitIn(A, ts)
      /\ up = "kiro" => NamesAnew(A, ts)

LEMMA NoCallsAdd ==
  ASSUME NEW w \in Saids, NEW tools, tools = <<>>, NEW p1, p1.started = prov.started
  PROVE  CallsAdd(w, tools, p1)
<1> DEFINE ts == ToolsOf(tools, Len(w))
           A == Account(prov, w)
           none == <<>>
<1>1. none \in Seq(ToolEntries) /\ Len(none) = 0 /\ Len(none) \in {0, 1, 2} /\ 1 .. 0 = {}
  OBVIOUS
<1>2. ts = none
  BY DEF ToolsOf
<1>3. w \o CallsSaid(tools) = w
  <2>1. CallsSaid(tools) = <<>>
    BY DEF CallsSaid
  <2>2. w \in Seq(Pieces)
    BY SaidFacts
  <2>3. w \o <<>> = w
    BY <2>2
  <2>4. QED
    BY <2>1, <2>3
<1>4. Account(p1, w) = A
  BY SameAccount
<1> HIDE DEF ts, A, none
<1>5. AddCalls(A, ts) = A
  BY <1>1, <1>2, CallsAddedAre
<1>6. FitIn(A, ts) /\ NamesAnew(A, ts)
  BY <1>1, <1>2 DEF FitIn, NamesAnew
<1>7. QED
  BY <1>3, <1>4, <1>5, <1>6 DEF CallsAdd, ts, A

LEMMA OneEntryOf ==
  ASSUME NEW w \in Saids, NEW t, NEW tools, tools = <<t>>, t.call \in Calls, t.args \in BOOLEAN, NEW k
  PROVE  /\ w \o CallsSaid(tools) = WithCall(w, t.args, t.call)
         /\ ToolsOf(tools, k) = <<EntryFor(t.call, t.named, t.args, k + 1)>>
<1> DEFINE a == Piece("call", t.call)
           S == Pieces
<1>1. a \in S /\ w \in Seq(S)
  BY SaidFacts, PieceFacts, CallsAreSlots DEF Kinds
<1>2. DOMAIN tools = {1} /\ tools[1] = t
  OBVIOUS
<1>3. ToolsOf(tools, k) = [i \in {1} |-> EntryFor(tools[i].call, tools[i].named, tools[i].args, k + i)]
  BY <1>2 DEF ToolsOf, ToolOf, EntryFor
<1>4. ToolsOf(tools, k) = <<EntryFor(t.call, t.named, t.args, k + 1)>>
  BY <1>2, <1>3
<1>5. CASE t.args
  <2>1. CallsSaid(tools) = [i \in {1} |-> Piece("call", tools[i].call)]
    BY <1>2, <1>5 DEF CallsSaid
  <2>2. CallsSaid(tools) = <<a>>
    BY <1>2, <2>1
  <2> HIDE DEF a, S
  <2>3. w \o <<a>> = Append(w, a)
    BY <1>1, OneIsAppended
  <2>4. QED
    BY <1>4, <1>5, <2>2, <2>3 DEF WithCall, a
<1>6. CASE ~ t.args
  <2>1. CallsSaid(tools) = <<>>
    BY <1>2, <1>6 DEF CallsSaid
  <2> HIDE DEF a, S
  <2>2. w \o <<>> = w
    BY <1>1, OneIsAppended
  <2>3. QED
    BY <1>4, <1>6, <2>1, <2>2 DEF WithCall
<1>7. QED
  BY <1>5, <1>6

LEMMA OneCallAdds ==
  ASSUME NEW w \in Saids, NEW t, NEW tools, tools = <<t>>, Proper(t), t.named \in BOOLEAN, t.args \in BOOLEAN,
         prov.started \in Nat, NEW p1, Knows(p1, prov, t.call)
  PROVE  CallsAdd(w, tools, p1)
<1> DEFINE c == t.call
           x == EntryFor(c, t.named, t.args, Len(w) + 1)
           A == Account(prov, w)
           ts == ToolsOf(tools, Len(w))
<1>1. c \in Calls /\ (c > prov.started => t.named) /\ (up = "kiro" /\ t.named => c > prov.started) /\ c \in Nat
  BY CallsAreSlots DEF Proper
<1>2. t.named \/ c \in CallsKnown(prov)
  BY <1>1 DEF CallsKnown
<1>3. Account(p1, WithCall(w, t.args, c)) = AddCall(A, x) /\ FitsIn(A, x)
  BY <1>1, <1>2, EntryAccounted
<1>4. w \o CallsSaid(tools) = WithCall(w, t.args, c) /\ ts = <<x>>
  BY <1>1, OneEntryOf
<1>5. x \in ToolEntries /\ (x.id # Nothing <=> t.named) /\ x.at + 1 = c
  <2>1. Len(w) + 1 \in Nat /\ Len(w) + 1 > 0
    BY SaidFacts
  <2>2. QED
    BY <1>1, <2>1, EntryFacts
<1>6. A.known = CallsKnown(prov)
  BY DEF Account
<1> HIDE DEF x, A, ts
<1>7. ts \in Seq(ToolEntries) /\ Len(ts) = 1 /\ ts[1] = x
  BY <1>4, <1>5, OneIs
<1>8. Len(ts) \in {0, 1, 2} /\ 1 .. 1 = {1}
  BY <1>7
<1>9. AddCalls(A, ts) = AddCall(A, x) /\ FitIn(A, ts)
  <2>1. AddCalls(A, ts) = AddCall(A, ts[1])
    BY <1>7, <1>8, CallsAddedAre
  <2>2. QED
    BY <1>3, <1>7, <1>8, <2>1 DEF FitIn
<1>10. up = "kiro" => NamesAnew(A, ts)
  <2>1. up = "kiro" /\ x.id # Nothing => c \notin CallsKnown(prov)
    BY <1>1, <1>5 DEF CallsKnown
  <2>2. QED
    BY <1>5, <1>6, <1>7, <2>1 DEF NamesAnew
<1>11. QED
  BY <1>3, <1>4, <1>9, <1>10 DEF CallsAdd, A, ts

AreTwo(tools, t, v) == tools = <<t, v>>
Alike(t, v) == t.args \in BOOLEAN /\ t.named \in BOOLEAN /\ t.named /\ v.args = t.args /\ v.named = t.named

LEMMA TwoEntriesOf ==
  ASSUME NEW w \in Saids, NEW t, NEW v, NEW tools, AreTwo(tools, t, v), t.call \in Calls, v.call \in Calls,
         Alike(t, v), NEW k
  PROVE  /\ w \o CallsSaid(tools) = WithCall(WithCall(w, t.args, t.call), t.args, v.call)
         /\ ToolsOf(tools, k) = <<EntryFor(t.call, t.named, t.args, k + 1), EntryFor(v.call, t.named, t.args, k + 2)>>
<1> DEFINE b == Piece("call", t.call)
           d == Piece("call", v.call)
           S == Pieces
<1>0. t.args \in BOOLEAN /\ v.args = t.args /\ v.named = t.named
  BY DEF Alike
<1>1. b \in S /\ d \in S /\ w \in Seq(S)
  BY SaidFacts, PieceFacts, CallsAreSlots DEF Kinds
<1>2. DOMAIN tools = {1, 2} /\ tools[1] = t /\ tools[2] = v
  BY DEF AreTwo
<1>3. ToolsOf(tools, k) = [i \in {1, 2} |-> EntryFor(tools[i].call, tools[i].named, t.args, k + i)]
  BY <1>0, <1>2 DEF ToolsOf, ToolOf, EntryFor
<1>4. ToolsOf(tools, k) = <<EntryFor(t.call, t.named, t.args, k + 1), EntryFor(v.call, t.named, t.args, k + 2)>>
  BY <1>0, <1>2, <1>3
<1>5. CASE t.args
  <2>1. CallsSaid(tools) = [i \in {1, 2} |-> Piece("call", tools[i].call)]
    BY <1>0, <1>2, <1>5 DEF CallsSaid
  <2>2. CallsSaid(tools) = <<b, d>>
    BY <1>2, <2>1
  <2> HIDE DEF b, d, S
  <2>3. w \o <<b, d>> = Append(Append(w, b), d)
    BY <1>1, TwoAreAppended
  <2>4. QED
    BY <1>4, <1>5, <2>2, <2>3 DEF WithCall, b, d
<1>6. CASE ~ t.args
  <2>1. CallsSaid(tools) = <<>>
    BY <1>0, <1>2, <1>6 DEF CallsSaid
  <2> HIDE DEF b, d, S
  <2>2. w \o <<>> = w
    BY <1>1, OneIsAppended
  <2>3. QED
    BY <1>4, <1>6, <2>1, <2>2 DEF WithCall
<1>7. QED
  BY <1>5, <1>6

LEMMA TwoCallsAdd ==
  ASSUME NEW w \in Saids, NEW t, NEW v, NEW tools, AreTwo(tools, t, v), prov.started \in Nat,
         t.call = prov.started + 1, v.call = prov.started + 2, t.call \in Calls, v.call \in Calls,
         Alike(t, v), NEW p1, p1.started = prov.started + 2
  PROVE  CallsAdd(w, tools, p1)
<1> DEFINE q == [started |-> prov.started + 1]
           c == t.call
           d == v.call
           k == Len(w)
           ar == t.args
           nm == t.named
           u == WithCall(w, ar, c)
           x == EntryFor(c, nm, ar, k + 1)
           y == EntryFor(d, nm, ar, k + 2)
           A == Account(prov, w)
           B == Account(q, u)
           ts == ToolsOf(tools, k)
<1>1. c \in Calls /\ d \in Calls /\ c \in Nat /\ d \in Nat /\ c # d /\ k \in Nat /\ q.started = c /\ p1.started = d
      /\ q.started = prov.started + 1 /\ p1.started = q.started + 1 /\ q.started \in Nat
  BY SaidFacts, CallsAreSlots
<1>0. c \in Calls /\ d \in Calls
  BY <1>1
<1>2. ar \in BOOLEAN /\ nm \in BOOLEAN /\ (nm \/ c \in CallsKnown(prov)) /\ (nm \/ d \in CallsKnown(q))
  BY DEF Alike
<1>3. w \o CallsSaid(tools) = WithCall(u, ar, d) /\ ts = <<x, y>>
  <2>1. \A j : ToolsOf(tools, j) = <<EntryFor(t.call, t.named, t.args, j + 1), EntryFor(v.call, t.named, t.args, j + 2)>>
    <3> TAKE j
    <3>1. QED
      BY TwoEntriesOf
  <2>2. w \o CallsSaid(tools) = WithCall(WithCall(w, t.args, t.call), t.args, v.call)
    BY TwoEntriesOf, ZenonT(60)
  <2>3. QED
    BY <2>1, <2>2, Zenon
<1> HIDE DEF q, c, d, k, ar, nm
<1>4. Knows(q, prov, c) /\ Knows(p1, q, d)
  <2>1. Knows(q, prov, c)
    BY <1>1, OneMoreCall
  <2>2. Knows(p1, q, d)
    BY <1>1, OneMoreCall
  <2>3. QED
    BY <2>1, <2>2
<1>5. u \in Saids /\ Len(u) = IF ar THEN k + 1 ELSE k
  BY <1>1, <1>2, WithFactsOf DEF k
<1>6. B = AddCall(A, x) /\ FitsIn(A, x)
  <2>1. x = EntryFor(c, nm, ar, Len(w) + 1)
    BY DEF k
  <2> HIDE DEF x
  <2>2. Account(q, WithCall(w, ar, c)) = AddCall(Account(prov, w), x) /\ FitsIn(Account(prov, w), x)
    BY <1>0, <1>2, <1>4, <2>1, EntryAccounted
  <2>3. QED
    BY <2>2
<1>7. y = EntryFor(d, nm, ar, Len(u) + 1)
  BY <1>1, <1>5 DEF EntryFor
<1>8. /\ x \in ToolEntries /\ x.at + 1 = c /\ x.id # Nothing
      /\ y \in ToolEntries /\ y.at + 1 = d /\ y.id # Nothing /\ Numbered(y)
  <2> DEFINE m == k + 1
             n == k + 2
  <2>1. m \in Nat /\ m > 0 /\ n \in Nat /\ n > 0
    BY <1>1
  <2> HIDE DEF m, n
  <2>2. x = EntryFor(c, nm, ar, m) /\ y = EntryFor(d, nm, ar, n)
    BY DEF m, n
  <2> HIDE DEF x, y
  <2>3. x \in ToolEntries /\ x.at + 1 = c /\ (x.id # Nothing <=> nm)
    BY <1>0, <1>2, <2>1, <2>2, EntryFacts
  <2>4. y \in ToolEntries /\ y.at + 1 = d /\ (y.id # Nothing <=> nm) /\ Numbered(y)
    BY <1>0, <1>2, <2>1, <2>2, EntryFacts
  <2>5. (x.id # Nothing <=> nm) /\ (y.id # Nothing <=> nm) => x.id # Nothing /\ y.id # Nothing
    BY DEF Alike, nm
  <2>6. QED
    BY <2>3, <2>4, <2>5
<1> HIDE DEF y, u
<1>9. Account(p1, WithCall(u, ar, d)) = AddCall(B, y)
  BY <1>0, <1>2, <1>4, <1>5, <1>7, EntryAccounted
<1>10. A.known = CallsKnown(prov)
  BY DEF Account
<1>11. c \notin CallsKnown(prov) /\ d \notin CallsKnown(prov)
  <2>1. ~ (c <= prov.started) /\ ~ (d <= prov.started)
    BY <1>1
  <2>2. QED
    BY <2>1 DEF CallsKnown
<1> HIDE DEF x, A, B, ts
<1>12. ts \in Seq(ToolEntries) /\ Len(ts) = 2 /\ ts[1] = x /\ ts[2] = y
  BY <1>3, <1>8
<1>13. Len(ts) \in {0, 1, 2} /\ 1 .. 2 = {1, 2}
  BY <1>12
<1>14. FitsIn(A, y)
  BY <1>1, <1>8 DEF FitsIn
<1>15. AddCalls(A, ts) = AddCall(B, y) /\ FitIn(A, ts)
  <2>1. AddCalls(A, ts) = AddCall(AddCall(A, ts[1]), ts[2])
    BY <1>12, <1>13, CallsAddedAre
  <2>2. FitIn(A, ts)
    BY <1>6, <1>12, <1>13, <1>14 DEF FitIn
  <2>3. QED
    BY <1>6, <1>12, <2>1, <2>2
<1>16. NamesAnew(A, ts)
  BY <1>1, <1>8, <1>10, <1>11, <1>12 DEF NamesAnew
<1>17. QED
  BY <1>3, <1>9, <1>15, <1>16 DEF CallsAdd, A, ts, k

LEMMA NewCallsCounted ==
  ASSUME prov.started \in Nat, NEW tools
  PROVE  /\ tools = <<>> => Cardinality(NewCalls(tools)) = 0
         /\ \A t : tools = <<t>> /\ t.call \in Nat =>
              Cardinality(NewCalls(tools)) = IF t.call > prov.started THEN 1 ELSE 0
         /\ \A t, v : tools = <<t, v>> /\ t.call = prov.started + 1 /\ v.call = prov.started + 2 =>
              Cardinality(NewCalls(tools)) = 2
<1>1. ASSUME tools = <<>> PROVE Cardinality(NewCalls(tools)) = 0
  <2>1. NewCalls(tools) = {}
    BY <1>1 DEF NewCalls
  <2>2. QED
    BY <2>1, FS_EmptySet
<1>2. ASSUME NEW t, tools = <<t>>, t.call \in Nat
      PROVE  Cardinality(NewCalls(tools)) = IF t.call > prov.started THEN 1 ELSE 0
  <2>1. DOMAIN tools = {1} /\ tools[1] = t
    BY <1>2
  <2>2. CASE t.call > prov.started
    <3>1. NewCalls(tools) = {1}
      BY <2>1, <2>2 DEF NewCalls
    <3>2. QED
      BY <2>2, <3>1, FS_Singleton
  <2>3. CASE ~ (t.call > prov.started)
    <3>1. NewCalls(tools) = {}
      BY <2>1, <2>3 DEF NewCalls
    <3>2. QED
      BY <2>3, <3>1, FS_EmptySet
  <2>4. QED
    BY <2>2, <2>3
<1>3. ASSUME NEW t, NEW v, tools = <<t, v>>, t.call = prov.started + 1, v.call = prov.started + 2
      PROVE  Cardinality(NewCalls(tools)) = 2
  <2>1. DOMAIN tools = {1, 2} /\ tools[1] = t /\ tools[2] = v
    BY <1>3
  <2>2. NewCalls(tools) = {1, 2}
    BY <1>3, <2>1 DEF NewCalls
  <2>3. Cardinality({1}) = 1 /\ IsFiniteSet({1})
    BY FS_Singleton
  <2>4. Cardinality({1} \cup {2}) = 2
    <3>1. Cardinality({1} \cup {2}) = IF 2 \in {1} THEN Cardinality({1}) ELSE Cardinality({1}) + 1
      BY <2>3, FS_AddElement, Zenon
    <3>2. QED
      BY <2>3, <3>1
  <2>5. {1, 2} = {1} \cup {2}
    OBVIOUS
  <2>6. QED
    BY <2>2, <2>4, <2>5
<1>4. QED
  BY <1>1, <1>2, <1>3

LEMMA CallsAccounted ==
  ASSUME NEW w \in Saids, NEW tools \in Entries, \A i \in DOMAIN tools : Proper(tools[i]), prov.started \in Nat,
         NEW p1, p1.started = prov.started + Cardinality(NewCalls(tools))
  PROVE  CallsAdd(w, tools, p1)
<1>1. ASSUME tools = <<>> PROVE CallsAdd(w, tools, p1)
  <2>1. Cardinality(NewCalls(tools)) = 0
    BY <1>1, NewCallsCounted
  <2>2. p1.started = prov.started
    BY <2>1
  <2>3. QED
    BY <1>1, <2>2, NoCallsAdd
<1>2. ASSUME NEW t \in [call : StartedCalls \cup {prov.started + 1}, named : BOOLEAN, args : BOOLEAN], tools = <<t>>
      PROVE  CallsAdd(w, tools, p1)
  <2>1. DOMAIN tools = {1} /\ tools[1] = t
    BY <1>2
  <2>2. Proper(t)
    BY <2>1
  <2>3. t.call \in Calls /\ t.call \in Nat /\ t.named \in BOOLEAN /\ t.args \in BOOLEAN
    BY <2>2, CallsAreSlots DEF Proper
  <2>4. t.call <= prov.started \/ t.call = prov.started + 1
    BY DEF StartedCalls
  <2>5. Cardinality(NewCalls(tools)) = IF t.call > prov.started THEN 1 ELSE 0
    BY <1>2, <2>3, NewCallsCounted
  <2>6. Knows(p1, prov, t.call)
    <3>1. CASE t.call <= prov.started
      <4>1. p1.started = prov.started
        BY <2>3, <2>5, <3>1
      <4>2. QED
        BY <2>3, <3>1, <4>1, OneMoreCall
    <3>2. CASE t.call = prov.started + 1
      <4>1. p1.started = prov.started + 1 /\ p1.started = t.call
        BY <2>3, <2>5, <3>2
      <4>2. p1.started \in Calls
        BY <2>3, <4>1
      <4>3. Knows(p1, prov, p1.started)
        BY <4>1, <4>2, OneMoreCall
      <4>4. QED
        BY <4>1, <4>3
    <3>3. QED
      BY <2>4, <3>1, <3>2
  <2>7. QED
    BY <1>2, <2>2, <2>3, <2>6, OneCallAdds
<1>3. ASSUME NEW a \in BOOLEAN,
             tools = <<[call |-> prov.started + 1, named |-> TRUE, args |-> a],
                       [call |-> prov.started + 2, named |-> TRUE, args |-> a]>>
      PROVE  CallsAdd(w, tools, p1)
  <2> DEFINE t == [call |-> prov.started + 1, named |-> TRUE, args |-> a]
             v == [call |-> prov.started + 2, named |-> TRUE, args |-> a]
  <2>1. DOMAIN tools = {1, 2} /\ tools[1] = t /\ tools[2] = v
    BY <1>3
  <2>2. Proper(t) /\ Proper(v)
    BY <2>1
  <2>3. t.call = prov.started + 1 /\ v.call = prov.started + 2
    OBVIOUS
  <2>4. AreTwo(tools, t, v) /\ Alike(t, v)
    BY <1>3 DEF AreTwo, Alike
  <2> HIDE DEF t, v
  <2>5. t.call \in Calls /\ v.call \in Calls
    BY <2>2 DEF Proper
  <2>6. Cardinality(NewCalls(tools)) = 2
    BY <2>3, <2>4, NewCallsCounted DEF AreTwo
  <2>7. p1.started = prov.started + 2
    BY <2>6
  <2>8. QED
    BY <2>3, <2>4, <2>5, <2>7, TwoCallsAdd
<1>4. QED
  BY <1>1, <1>2, <1>3 DEF Entries

(* Whether entries fit depends on what calls are known.                    *)
LEMMA FitsAlso ==
  ASSUME NEW A, NEW B, A.known = B.known, NEW tools
  PROVE  /\ FitIn(A, tools) => FitIn(B, tools)
         /\ NamesAnew(A, tools) => NamesAnew(B, tools)
<1>1. \A t : FitsIn(A, t) => FitsIn(B, t)
  BY DEF FitsIn
<1>2. FitIn(A, tools) => FitIn(B, tools)
  BY <1>1 DEF FitIn
<1>3. NamesAnew(A, tools) => NamesAnew(B, tools)
  BY DEF NamesAnew
<1>4. QED
  BY <1>2, <1>3

(* A chunk as the provider makes it, and what it says.                     *)
ChunkMade(think, text, tools, w, reason) ==
  Chunk(IF think THEN Len(said) + 1 ELSE Nothing, IF text THEN Len(w) ELSE Nothing, ToolsOf(tools, Len(w)), reason)

SaysChunk(c, p1, w) ==
  /\ c \in ChunksSaid /\ c.think \in Nat /\ c.text \in Nat
  /\ FitIn(Account(prov, said), c.tools)
  /\ up = "kiro" => NamesAnew(Account(prov, said), c.tools)
  /\ Account(p1, w) = AddChunk(Account(prov, said), c)

LEMMA ChunkSaysIt ==
  ASSUME said \in Saids, prov.started \in Nat, NEW think \in BOOLEAN, NEW text \in BOOLEAN, NEW tools \in Entries,
         \A i \in DOMAIN tools : Proper(tools[i]), NEW reason \in Finishings,
         NEW w, w = WithTexts(said, think, text), NEW c, c = ChunkMade(think, text, tools, w, reason),
         NEW p1, p1.started = prov.started + Cardinality(NewCalls(tools))
  PROVE  SaysChunk(c, p1, said \o ChunkSaid(think, text, tools)) /\ c.finish = reason /\ c.tools = ToolsOf(tools, Len(w))
<1> DEFINE A == Account(prov, said)
           B == Account(prov, w)
           ts == ToolsOf(tools, Len(w))
           a == IF think THEN Len(said) + 1 ELSE Nothing
           b == IF text THEN Len(w) ELSE Nothing
           first == TextsSaid(think, text)
           rest == CallsSaid(tools)
<1>1. EntriesFit(tools)
  BY EntriesFacts
<1>2. said \o first = w /\ first \in Saids /\ w \in Saids
  BY TextsAppended, TextsAccounted
<1>3. B = AddPiece(AddPiece(A, "think", a), "text", b)
  BY TextsAccounted
<1>4. Len(w) \in Nat /\ Len(said) \in Nat
  BY <1>2, SaidFacts
<1>5. a \in Nat /\ b \in Nat /\ a \in Int /\ b \in Int
  BY <1>4 DEF Nothing
<1>6. CallsAdd(w, tools, p1)
  BY <1>2, CallsAccounted
<1>7. Account(p1, w \o rest) = AddCalls(B, ts) /\ FitIn(B, ts) /\ (up = "kiro" => NamesAnew(B, ts))
  BY <1>6 DEF CallsAdd
<1>8. A.known = B.known
  BY DEF Account
<1>9. ts \in Seq(ToolEntries)
  BY <1>7 DEF FitIn
<1>10. c = Chunk(a, b, ts, reason)
  BY DEF ChunkMade
<1>11. ChunkSaid(think, text, tools) = first \o rest
  BY DEF ChunkSaid, TextsSaid, CallsSaid
<1>12. rest \in Saids
  <2>1. rest \in Seq(Pieces)
    <3> DEFINE n == IF \A i \in DOMAIN tools : tools[i].args THEN Len(tools) ELSE 0
               withArgs == IF \A i \in DOMAIN tools : tools[i].args THEN tools ELSE <<>>
               what(i) == Piece("call", withArgs[i].call)
    <3>1. n \in Nat /\ DOMAIN withArgs = 1 .. n
      <4>1. Len(tools) \in Nat /\ DOMAIN tools = 1 .. Len(tools)
        BY <1>1 DEF EntriesFit
      <4>2. DOMAIN <<>> = 1 .. 0
        OBVIOUS
      <4>3. QED
        BY <4>1, <4>2
    <3>2. \A i \in 1 .. n : what(i) \in Pieces
      <4> TAKE i \in 1 .. n
      <4>1. \A j \in DOMAIN tools : tools[j].args
        BY DEF n
      <4>2. withArgs = tools /\ n = Len(tools)
        BY <4>1
      <4>3. tools[i].call \in Calls
        BY <1>1, <4>2 DEF EntriesFit
      <4>4. tools[i].call \in Nat /\ "call" \in Kinds
        BY <4>3, CallsAreSlots DEF Kinds
      <4>5. QED
        BY <4>2, <4>4, PieceFacts
    <3> HIDE DEF n, what, withArgs
    <3>3. [i \in 1 .. n |-> what(i)] \in Seq(Pieces)
      BY <3>1, <3>2
    <3>4. rest = [i \in 1 .. n |-> what(i)]
      BY <3>1 DEF CallsSaid, withArgs, what
    <3>5. QED
      BY <3>3, <3>4
  <2>2. QED
    BY <2>1 DEF Saids, Pieces
<1> HIDE DEF A, B, ts, a, b, first, rest
<1>13. c.think = a /\ c.text = b /\ c.tools = ts /\ c.finish = reason
  BY <1>10, ChunkParts
<1>14. c \in ChunksSaid
  BY <1>5, <1>9, <1>10, ChunkTyped
<1>15. said \o ChunkSaid(think, text, tools) = w \o rest
  <2>1. said \in Seq(Pieces) /\ first \in Seq(Pieces) /\ rest \in Seq(Pieces)
    BY <1>2, <1>12 DEF Saids, Pieces
  <2>2. (said \o first) \o rest = said \o (first \o rest)
    BY <2>1, ConcatAssociates, SMTT(40)
  <2>3. QED
    BY <1>2, <1>11, <2>2
<1>16. AddChunk(A, c) = AddCalls(B, ts)
  BY <1>3, <1>13 DEF AddChunk
<1>17. FitIn(A, ts) /\ (up = "kiro" => NamesAnew(A, ts))
  BY <1>7, <1>8, FitsAlso
<1>18. QED
  BY <1>5, <1>7, <1>13, <1>14, <1>15, <1>16, <1>17 DEF SaysChunk, A, ts

TheChunk(think, text, tools, reason) == ChunkMade(think, text, tools, WithTexts(said, think, text), reason)

LEMMA TheChunkSaysIt ==
  ASSUME said \in Saids, prov.started \in Nat, NEW think \in BOOLEAN, NEW text \in BOOLEAN, NEW tools \in Entries,
         \A i \in DOMAIN tools : Proper(tools[i]), NEW reason \in Finishings,
         NEW p1, p1.started = prov.started + Cardinality(NewCalls(tools))
  PROVE  /\ SaysChunk(TheChunk(think, text, tools, reason), p1, said \o ChunkSaid(think, text, tools))
         /\ TheChunk(think, text, tools, reason).finish = reason
         /\ \E k \in Int : TheChunk(think, text, tools, reason).tools = ToolsOf(tools, k)
<1> DEFINE w == WithTexts(said, think, text)
           c == TheChunk(think, text, tools, reason)
<1>1. w = WithTexts(said, think, text) /\ c = ChunkMade(think, text, tools, w, reason)
  BY DEF TheChunk
<1>2. Len(w) \in Int
  BY TextsAccounted, SaidFacts
<1> HIDE DEF w, c
<1>3. SaysChunk(c, p1, said \o ChunkSaid(think, text, tools)) /\ c.finish = reason /\ c.tools = ToolsOf(tools, Len(w))
  BY <1>1, ChunkSaysIt
<1>4. QED
  BY <1>2, <1>3 DEF c

(* What the action has chosen, with names for what it makes of it.         *)
LEMMA ChunkArrivesIs ==
  ASSUME ChunkArrives
  PROVE  \E think, text, finish \in BOOLEAN, tools \in Entries :
           LET started == prov.started + Cardinality(NewCalls(tools)) IN
               /\ \A i \in DOMAIN tools : Proper(tools[i])
               /\ said' = said \o ChunkSaid(think, text, tools)
               /\ prov' = [prov EXCEPT !.begun = TRUE, !.started = started, !.over = IF finish THEN "finished" ELSE @]
               /\ said \in Saids =>
                    Arrives(TheChunk(think, text, tools, IF ~finish THEN "" ELSE IF started > 0 THEN "tools" ELSE "stop"))
<1>1. PICK think, text, finish \in BOOLEAN, tools \in Entries :
       LET fst == (IF think THEN <<Piece("think", Nothing)>> ELSE <<>>)
                      \o (IF text THEN <<Piece("text", Nothing)>> ELSE <<>>)
           withArgs == IF \A i \in DOMAIN tools : tools[i].args THEN tools ELSE <<>>
           all == fst \o [i \in DOMAIN withArgs |-> Piece("call", withArgs[i].call)]
           entry(i) == Tool(tools[i].call - 1, IF tools[i].named THEN tools[i].call ELSE Nothing,
                            IF tools[i].args THEN Len(said) + Len(fst) + i ELSE Nothing)
           started == prov.started + Cardinality({i \in DOMAIN tools : tools[i].call > prov.started})
       IN  /\ \A i \in DOMAIN tools : Proper(tools[i])
           /\ think \/ text \/ finish \/ tools # <<>>
           /\ Len(said) + Len(all) <= MaxPieces
           /\ said' = said \o all
           /\ prov' = [prov EXCEPT !.begun = TRUE, !.started = started, !.over = IF finish THEN "finished" ELSE @]
           /\ Arrives(Chunk(IF think THEN Next1 ELSE Nothing, IF text THEN Len(said) + Len(fst) ELSE Nothing,
                            [i \in DOMAIN tools |-> entry(i)],
                            IF ~finish THEN "" ELSE IF started > 0 THEN "tools" ELSE "stop"))
  BY Zenon DEF ChunkArrives
<1> DEFINE started == prov.started + Cardinality(NewCalls(tools))
           k == Len(said) + Len(TextsSaid(think, text))
           reason == IF ~finish THEN "" ELSE IF started > 0 THEN "tools" ELSE "stop"
<1>2. /\ \A i \in DOMAIN tools : Proper(tools[i])
      /\ said' = said \o ChunkSaid(think, text, tools)
      /\ prov' = [prov EXCEPT !.begun = TRUE, !.started = started, !.over = IF finish THEN "finished" ELSE @]
      /\ Arrives(Chunk(IF think THEN Next1 ELSE Nothing, IF text THEN k ELSE Nothing, ToolsOf(tools, k), reason))
  BY <1>1, Zenon DEF ChunkSaid, NewCalls, ToolsOf, ToolOf, TextsSaid
<1>3. ASSUME said \in Saids
      PROVE  Arrives(TheChunk(think, text, tools, reason))
  <2>1. k = Len(WithTexts(said, think, text))
    BY <1>3, TextsAppended
  <2>2. TheChunk(think, text, tools, reason)
          = Chunk(IF think THEN Next1 ELSE Nothing, IF text THEN k ELSE Nothing, ToolsOf(tools, k), reason)
    BY <2>1, Zenon DEF TheChunk, ChunkMade, Next1
  <2>3. QED
    BY <1>2, <2>2, Zenon
<1>4. QED
  BY <1>2, <1>3, Zenon

(* The chunk that the provider makes says what it has said, and the client *)
(* can take it.                                                            *)
Right(c) ==
  /\ SaysChunk(c, prov', said') /\ Arrives(c)
  /\ c.finish = "" <=> prov'.over = "no"
  /\ prov'.over = "finished" => c.finish = FinishReason'
  /\ up # client => Usable(client, c, SlotsKnown(up, prov))

LEMMA ChunkIsRight ==
  ASSUME Talking, ChunkArrives
  PROVE  \E c : Right(c)
<1>1. PICK think, text, finish \in BOOLEAN, tools \in Entries :
           LET started == prov.started + Cardinality(NewCalls(tools)) IN
               /\ \A i \in DOMAIN tools : Proper(tools[i])
               /\ said' = said \o ChunkSaid(think, text, tools)
               /\ prov' = [prov EXCEPT !.begun = TRUE, !.started = started, !.over = IF finish THEN "finished" ELSE @]
               /\ said \in Saids =>
                    Arrives(TheChunk(think, text, tools, IF ~finish THEN "" ELSE IF started > 0 THEN "tools" ELSE "stop"))
  BY ChunkArrivesIs
<1>2. prov \in Providers /\ prov.started \in Nat /\ said \in Saids /\ prov.over = "no" /\ up \in {"openai", "kiro"}
  BY DEF Talking, StreamTyped, Providers, ChunkArrives, Speaking
<1> DEFINE started == prov.started + Cardinality(NewCalls(tools))
           reason == IF ~finish THEN "" ELSE IF started > 0 THEN "tools" ELSE "stop"
           c == TheChunk(think, text, tools, reason)
           v == said \o ChunkSaid(think, text, tools)
<1>3. /\ \A i \in DOMAIN tools : Proper(tools[i])
      /\ said' = v /\ Arrives(c)
      /\ prov' = [prov EXCEPT !.begun = TRUE, !.started = started, !.over = IF finish THEN "finished" ELSE @]
  BY <1>1, <1>2
<1>4. reason \in Finishings /\ (reason = "" <=> ~ finish) /\ (finish => reason = IF started > 0 THEN "tools" ELSE "stop")
  BY DEF Finishings
<1>5. prov'.started = started /\ prov'.over = IF finish THEN "finished" ELSE "no"
  BY <1>2, <1>3 DEF Providers
<1> HIDE DEF reason
<1>6. \A p1 : p1.started = started =>
        /\ SaysChunk(c, p1, v) /\ c.finish = reason /\ \E k \in Int : c.tools = ToolsOf(tools, k)
  <2> TAKE p1
  <2> HAVE p1.started = started
  <2>1. said \in Saids /\ prov.started \in Nat /\ reason \in Finishings
    BY <1>2, <1>4
  <2>2. \A i \in DOMAIN tools : Proper(tools[i])
    BY <1>3
  <2>3. QED
    BY <2>1, <2>2, TheChunkSaysIt
<1> HIDE DEF c
<1>7. EntriesFit(tools)
  BY <1>2, <1>3, EntriesFacts
<1>8. up # client => Usable(client, c, SlotsKnown(up, prov))
  <2> DEFINE p1 == [started |-> started]
  <2>1. p1.started = started
    OBVIOUS
  <2> HIDE DEF p1, v
  <2>2. SaysChunk(c, p1, v) /\ \E k \in Int : c.tools = ToolsOf(tools, k)
    BY <1>6, <2>1
  <2>3. PICK k \in Int : c.tools = ToolsOf(tools, k)
    BY <2>2
  <2>4. c \in ChunksSaid
    BY <2>2 DEF SaysChunk
  <2>5. QED
    BY <1>2, <1>7, <2>1, <2>3, <2>4, ChunkIsUsable
<1>9. FinishReason' = IF prov'.started > 0 THEN "tools" ELSE "stop"
  BY DEF FinishReason
<1> HIDE DEF started, v
<1>10. SaysChunk(c, prov', said') /\ c.finish = reason
  BY <1>3, <1>5, <1>6
<1>11. /\ c.finish = "" <=> prov'.over = "no"
       /\ prov'.over = "finished" => c.finish = FinishReason'
  BY <1>4, <1>5, <1>9, <1>10
<1>12. Right(c)
  BY <1>3, <1>8, <1>10, <1>11 DEF Right
<1>13. QED
  BY <1>12

LEMMA ChunkConveyed ==
  ASSUME Knowing, Informed, ChunkArrives
  PROVE  Informed'
<1>1. PICK c : Right(c)
  BY ChunkIsRight DEF Knowing
<1>2. /\ up \in {"openai", "kiro"} /\ prov.over = "no" /\ up # client /\ Conveyed
      /\ client = "responses" => ~ st.inThinking
  BY KnowingFacts DEF ChunkArrives, Speaking, Informed, Thoughtful
<1>3. st \in State /\ client \in Clients /\ Same(client, st, st)
  BY KnowingFacts DEF Same
<1>4. /\ Arrives(c)
      /\ c \in ChunksSaid /\ c.think \in Nat /\ c.text \in Nat /\ FitIn(Account(prov, said), c.tools)
      /\ Account(prov', said') = AddChunk(Account(prov, said), c)
      /\ c.finish = "" <=> prov'.over = "no"
      /\ prov'.over = "finished" => c.finish = FinishReason'
      /\ Usable(client, c, SlotsKnown(up, prov))
  BY <1>1, <1>2 DEF Right, SaysChunk
<1>5. ToOpenAI(up, c, st) = OnePivot(st, c)
  BY <1>2 DEF ToOpenAI, Emit, Result, OnePivot
<1>6. Takeable(Account(prov, said), c)
  BY <1>4 DEF Takeable
<1>7. c.text \in Int /\ c.text >= CloseTag /\ c.text # OpenTag /\ c.text # CloseTag
  BY <1>4, NaturalIsNoTag
<1>8. Suits(client, st, c)
  BY <1>2, <1>4, <1>7 DEF Suits, TextFits
<1>9. Conveyed' /\ Leaves(client, st, st') /\ (prov'.over = "no" => StillThinks(client, st, c, st'))
  BY <1>2, <1>3, <1>4, <1>5, <1>6, <1>8, OneConveyed
<1>10. up' = up /\ client' = client
  BY <1>4, ArrivesIs
<1>11. Noted'
  BY <1>2, <1>10 DEF Noted
<1>12. client = "responses" /\ prov'.over = "no" => ~ st'.inThinking
  BY <1>2, <1>7, <1>9 DEF StillThinks
<1>13. Thoughtful(st, prov)'
  BY <1>10, <1>12 DEF Thoughtful
<1>14. QED
  BY <1>9, <1>11, <1>13 DEF Informed

LEMMA ResultIs ==
  ASSUME NEW rd \in Readers, NEW s \in State
  PROVE  Result(s) \in Results /\ Result(s).st = s /\ After(rd, Result(s).out) = rd
<1> DEFINE b == Result(s)
           none == <<>>
<1>1. b = With(s, none) /\ none \in Seq(Events)
  BY DEF Result, With
<1>2. After(rd, none) = rd
  BY AfterNone
<1> HIDE DEF b, none
<1>3. b \in Results /\ b.st = s /\ b.out = none
  BY <1>1, WithFacts
<1>4. QED
  BY <1>2, <1>3 DEF b

(* Kiro's chunks to a client of Claude take the direct route.              *)
LEMMA KiroChunkConveyed ==
  ASSUME Talking, <<up, client>> \in Chains, Direct(up, client), Conveyed, ChunkArrives
  PROVE  Conveyed'
<1>1. PICK c : Right(c)
  BY ChunkIsRight
<1>2. /\ up = "kiro" /\ client = "claude" /\ prov.over = "no"
      /\ st \in State /\ reader \in Readers /\ InClaude(st, reader)
  BY DEF ChunkArrives, Speaking, Talking, StreamTyped, Tells, Direct, Fits
<1> DEFINE b == Result(st)
           r == KiroToClaude(b, c)
           A == Account(prov, said)
           B == AddChunk(A, c)
<1>3. b \in Results /\ b.st = st /\ After(reader, b.out) = reader
  BY <1>2, ResultIs
<1>4. /\ Arrives(c)
      /\ c \in ChunksSaid /\ c.think \in Nat /\ c.text \in Nat /\ FitIn(A, c.tools) /\ NamesAnew(A, c.tools)
      /\ Account(prov', said') = B
      /\ c.finish = "" <=> prov'.over = "no"
      /\ prov'.over = "finished" => c.finish = FinishReason'
  BY <1>1, <1>2 DEF Right, SaysChunk
<1>5. st' = r.st /\ reader' = After(reader, r.out) /\ up' = up /\ client' = client
  <2>1. Translate(up, client, c, st) = r
    BY <1>2 DEF Translate
  <2> HIDE DEF r
  <2>2. QED
    BY <1>4, <2>1, ArrivesIs
<1>6. Takeable(A, c)
  BY <1>4 DEF Takeable
<1>7. ClaudeHas(st, reader, A)
  BY <1>2 DEF Conveyed, Holds
<1>8. c.finish \in Finishings
  BY <1>4 DEF ChunksSaid
<1>9. r = KiroToClaude(b, c)
  OBVIOUS
<1>10. Account(prov, said)' = B
  BY <1>4 DEF Account
<1> HIDE DEF b, r, A, B
<1>11. /\ c.finish = "" => ClaudeHas(r.st, After(reader, r.out), AddChunk(A, c))
       /\ c.finish # "" => Ended(After(reader, r.out), c.finish, AddChunk(A, c))
  <2>1. InClaude(b.st, After(reader, b.out)) /\ ClaudeHas(b.st, After(reader, b.out), A)
    BY <1>2, <1>3, <1>7
  <2>2. QED
    BY <1>2, <1>3, <1>4, <1>6, <1>9, <2>1, KiroIsTold
<1>12. /\ c.finish = "" => ClaudeHas(st', reader', B)
       /\ c.finish # "" => Ended(reader', c.finish, B)
  BY <1>5, <1>11 DEF B
<1>13. prov'.over = "no" => Holds(client, st, reader, Account(prov, said))'
  BY <1>2, <1>4, <1>5, <1>10, <1>12 DEF Holds
<1>14. prov'.over # "no" =>
        /\ Conveys(reader', Account(prov, said)')
        /\ \E why \in Reasons :
             /\ reader'.ends = <<why>>
             /\ prov'.over = "finished" /\ client' # "responses" => why = FinishReason'
  <2>1. c.finish # "" => c.finish \in Reasons
    BY <1>8 DEF Reasons, Finishings
  <2>2. QED
    BY <1>4, <1>10, <1>12, <2>1 DEF Ended
<1>15. QED
  BY <1>13, <1>14 DEF Conveyed

-----------------------------------------------------------------------------
(* The chunks of a chunk of Gemini                                         *)

(* A chunk that the client can take, in whose content there are no tags.   *)
Sayable(A, c) == Takeable(A, c) /\ c.text \in Nat /\ c.finish = ""

(* Chunk by chunk, from the account A to the account B.                    *)
Hops(g, A, out, B) ==
  /\ g[0] = A /\ g[Len(out)] = B
  /\ \A i \in 1 .. Len(out) : Sayable(g[i - 1], out[i]) /\ g[i] = AddChunk(g[i - 1], out[i])

RunsTo(A, out, B) == \E g : Hops(g, A, out, B)

LEMMA RunsOfNone ==
  ASSUME NEW A
  PROVE  RunsTo(A, <<>>, A)
<1> DEFINE g == [i \in {0} |-> A]
           none == <<>>
<1>1. g[0] = A /\ Len(none) = 0 /\ 1 .. 0 = {}
  OBVIOUS
<1> HIDE DEF g, none
<1>2. Hops(g, A, none, A)
  BY <1>1 DEF Hops
<1>3. RunsTo(A, none, A)
  BY <1>2 DEF RunsTo
<1>4. QED
  BY <1>3 DEF none

LEMMA RunsOfOneMore ==
  ASSUME NEW A, NEW out \in Seq(ChunksSaid), NEW B, RunsTo(A, out, B), NEW c \in ChunksSaid, Sayable(B, c)
  PROVE  RunsTo(A, Append(out, c), AddChunk(B, c))
<1>1. PICK g : Hops(g, A, out, B)
  BY DEF RunsTo
<1> DEFINE n == Len(out)
           C == AddChunk(B, c)
           more == Append(out, c)
           h == [i \in 0 .. n + 1 |-> IF i = n + 1 THEN C ELSE g[i]]
<1>2. /\ n \in Nat /\ Len(more) = n + 1 /\ more[n + 1] = c
      /\ \A i \in 1 .. n : more[i] = out[i]
  BY AppendedIs
<1>3. \A i \in 1 .. (n + 1) : i = n + 1 \/ (i \in 1 .. n /\ i < n + 1)
  BY <1>2, UpToNext
<1>4. g[0] = A /\ g[n] = B /\ \A i \in 1 .. n : Sayable(g[i - 1], out[i]) /\ g[i] = AddChunk(g[i - 1], out[i])
  BY <1>1 DEF Hops
<1>5. h[n + 1] = C /\ \A i \in 0 .. n : h[i] = g[i]
  BY <1>2
<1> HIDE DEF n, C, more, h
<1>6. ASSUME NEW i \in 1 .. n PROVE Sayable(h[i - 1], more[i]) /\ h[i] = AddChunk(h[i - 1], more[i])
  <2>1. i \in 0 .. n /\ i - 1 \in 0 .. n
    BY <1>2
  <2>2. QED
    BY <1>2, <1>4, <1>5, <2>1
<1>7. Sayable(h[n], more[n + 1]) /\ h[n + 1] = AddChunk(h[n], more[n + 1])
  <2>1. n \in 0 .. n
    BY <1>2
  <2>2. QED
    BY <1>2, <1>4, <1>5, <2>1 DEF C
<1>8. h[0] = A
  BY <1>2, <1>4, <1>5
<1>9. \A i \in 1 .. (n + 1) : Sayable(h[i - 1], more[i]) /\ h[i] = AddChunk(h[i - 1], more[i])
  <2> TAKE i \in 1 .. (n + 1)
  <2>1. CASE i \in 1 .. n
    BY <1>6, <2>1
  <2>2. CASE i = n + 1
    <3>1. i - 1 = n
      BY <1>2, <2>2
    <3>2. QED
      BY <1>7, <2>2, <3>1
  <2>3. QED
    BY <1>3, <2>1, <2>2
<1>10. Hops(h, A, more, C)
  BY <1>2, <1>5, <1>8, <1>9 DEF Hops
<1>11. QED
  BY <1>10 DEF RunsTo, more, C

(* A reader who follows the hop learns what the chunks say.                *)
LEMMA HopFollowsOne ==
  ASSUME NEW cl \in Clients, NEW rd \in Readers, NEW N \in SUBSET Slots, NEW A, NEW r, Follows(cl, rd, r, N, A),
         NEW c, Sayable(A, c), Usable(cl, c, N), cl = "responses" => ~ r.st.inThinking,
         NEW q, q = FromOpenAI(cl, r, c)
  PROVE  Follows(cl, rd, q, N, AddChunk(A, c)) /\ (cl = "responses" => ~ q.st.inThinking)
<1>1. Takeable(A, c) /\ c.text \in Nat /\ c.finish = ""
  BY DEF Sayable
<1>2. c.text \in Int /\ c.text >= CloseTag /\ c.text # OpenTag /\ c.text # CloseTag
  BY <1>1, NaturalIsNoTag
<1>3. Suits(cl, r.st, c)
  BY <1>1, <1>2 DEF Suits, TextFits
<1>4. Learns(cl, r.st, rd, A, c, q) /\ Follows(cl, rd, q, N, AddChunk(A, c))
  BY <1>1, <1>3, HopFollows
<1>5. StillThinks(cl, r.st, c, q.st)
  BY <1>1, <1>4 DEF Learns
<1>6. QED
  BY <1>2, <1>4, <1>5 DEF StillThinks

Unthinking(cl, rd, r, N, A) == Follows(cl, rd, r, N, A) /\ (cl = "responses" => ~ r.st.inThinking)

LEMMA HopRuns ==
  ASSUME NEW cl \in Clients, NEW rd \in Readers, NEW N \in SUBSET Slots, NEW A, NEW r, Unthinking(cl, rd, r, N, A),
         NEW out, Len(out) \in {0, 1, 2}, NEW B, RunsTo(A, out, B), \A i \in 1 .. Len(out) : Usable(cl, out[i], N)
  PROVE  Unthinking(cl, rd, SecondHop(cl, r, out), N, B)
<1>1. PICK g : Hops(g, A, out, B)
  BY DEF RunsTo
<1> DEFINE n == Len(out)
           p1 == FromOpenAI(cl, r, out[1])
           p2 == FromOpenAI(cl, p1, out[2])
           p3 == FromOpenAI(cl, p2, out[3])
           q == SecondHop(cl, r, out)
<1>2. n \in {0, 1, 2} /\ \A i \in 1 .. n : Usable(cl, out[i], N)
  OBVIOUS
<1>3. g[0] = A /\ g[n] = B /\ \A i \in 1 .. n : Sayable(g[i - 1], out[i]) /\ g[i] = AddChunk(g[i - 1], out[i])
  BY <1>1 DEF Hops
<1>4. (n = 0 => q = r) /\ (n = 1 => q = p1) /\ (n = 2 => q = p2)
  <2>1. n \in {0, 1, 2, 3}
    BY <1>2
  <2> HIDE DEF p1, p2, p3, q, n
  <2>2. p1 = FromOpenAI(cl, r, out[1]) /\ p2 = FromOpenAI(cl, p1, out[2]) /\ p3 = FromOpenAI(cl, p2, out[3])
    BY DEF p1, p2, p3
  <2>3. Len(out) \in {0, 1, 2, 3}
    BY <2>1 DEF n
  <2>4. /\ Len(out) = 0 => SecondHop(cl, r, out) = r
        /\ Len(out) = 1 => SecondHop(cl, r, out) = p1
        /\ Len(out) = 2 => SecondHop(cl, r, out) = p2
    BY <2>2, <2>3, SecondHopIs
  <2>5. QED
    BY <2>4 DEF q, n
<1> HIDE DEF n, p1, p2, p3, q
<1>5. n >= 1 => Unthinking(cl, rd, p1, N, g[1])
  <2> HAVE n >= 1
  <2>1. 1 \in 1 .. n /\ 1 - 1 = 0
    BY <1>2
  <2>2. Sayable(A, out[1]) /\ g[1] = AddChunk(A, out[1]) /\ Usable(cl, out[1], N)
    BY <1>2, <1>3, <2>1
  <2>3. Follows(cl, rd, r, N, A) /\ (cl = "responses" => ~ r.st.inThinking)
    BY DEF Unthinking
  <2>4. Follows(cl, rd, p1, N, AddChunk(A, out[1])) /\ (cl = "responses" => ~ p1.st.inThinking)
    BY <2>2, <2>3, HopFollowsOne DEF p1
  <2>5. QED
    BY <2>2, <2>4 DEF Unthinking
<1>6. n = 2 => Unthinking(cl, rd, p2, N, g[2])
  <2> HAVE n = 2
  <2>1. 2 \in 1 .. n /\ 2 - 1 = 1 /\ n >= 1
    BY <1>2
  <2>2. Sayable(g[1], out[2]) /\ g[2] = AddChunk(g[1], out[2]) /\ Usable(cl, out[2], N)
    BY <1>2, <1>3, <2>1
  <2>3. Follows(cl, rd, p1, N, g[1]) /\ (cl = "responses" => ~ p1.st.inThinking)
    BY <1>5, <2>1 DEF Unthinking
  <2> DEFINE G == g[1]
  <2>4. Follows(cl, rd, p2, N, AddChunk(G, out[2])) /\ (cl = "responses" => ~ p2.st.inThinking)
    <3>1. Sayable(G, out[2]) /\ Follows(cl, rd, p1, N, G)
      BY <2>2, <2>3
    <3> HIDE DEF G
    <3>2. QED
      BY <2>2, <2>3, <3>1, HopFollowsOne DEF p2
  <2>5. QED
    BY <2>2, <2>4 DEF Unthinking
<1>7. QED
  BY <1>2, <1>3, <1>4, <1>5, <1>6 DEF q, n

(* A provider who has started k calls.                                     *)
At(k) == [started |-> k]

Relayed(A, k, w, out) == w \in Saids /\ out \in Seq(ChunksSaid) /\ RunsTo(A, out, Account(At(k), w))

LEMMA SaidOneMore ==
  ASSUME NEW w \in Saids, NEW kind \in Kinds, NEW c \in Nat
  PROVE  Append(w, Piece(kind, c)) \in Saids
BY SaidMore

LEMMA OneMoreTold ==
  ASSUME NEW A, NEW k, NEW w, NEW out, Relayed(A, k, w, out), NEW c, Sayable(Account(At(k), w), c),
         NEW k1, NEW v \in Saids, Account(At(k1), v) = AddChunk(Account(At(k), w), c)
  PROVE  Relayed(A, k1, v, Append(out, c))
<1> DEFINE B == Account(At(k), w)
           more == Append(out, c)
<1>1. out \in Seq(ChunksSaid) /\ RunsTo(A, out, B) /\ Sayable(B, c)
  BY DEF Relayed
<1>2. c \in ChunksSaid
  BY DEF Sayable, Takeable
<1>3. more \in Seq(ChunksSaid)
  BY <1>1, <1>2
<1> HIDE DEF B
<1>4. RunsTo(A, more, AddChunk(B, c))
  BY <1>1, <1>2, RunsOfOneMore
<1> HIDE DEF more
<1>5. RunsTo(A, more, Account(At(k1), v))
  BY <1>4 DEF B
<1>6. Relayed(A, k1, v, more)
  BY <1>3, <1>5 DEF Relayed
<1>7. QED
  BY <1>6 DEF more

LEMMA PlainSays ==
  ASSUME NEW B, NEW n \in Nat
  PROVE  /\ Sayable(B, Plain(Nothing, n, "")) /\ AddChunk(B, Plain(Nothing, n, "")) = AddPiece(B, "text", n)
         /\ Sayable(B, Plain(n, Nothing, "")) /\ AddChunk(B, Plain(n, Nothing, "")) = AddPiece(B, "think", n)
<1> DEFINE none == Nothing
           open == ""
           c == Plain(none, n, open)
           d == Plain(n, none, open)
<1>1. none \in Nat /\ none \in Int /\ n \in Int /\ none <= 0 /\ open \in Finishings
  BY DEF Nothing, Finishings
<1>2. c = Chunk(none, n, <<>>, open) /\ d = Chunk(n, none, <<>>, open)
  BY DEF Plain
<1> HIDE DEF none
<1>3. AddChunk(B, c) = AddPiece(B, "text", n) /\ AddChunk(B, d) = AddPiece(B, "think", n)
  <2> HIDE DEF open
  <2>1. QED
    BY <1>1, PlainAdds
<1>4. Takeable(B, c) /\ Takeable(B, d)
  <2> HIDE DEF open
  <2>1. QED
    BY <1>1, PlainIsTakeable
<1> HIDE DEF c, d
<1>5. c.text = n /\ c.finish = open /\ d.text = none /\ d.finish = open
  BY <1>2 DEF Chunk
<1>6. Sayable(B, c) /\ Sayable(B, d)
  BY <1>1, <1>4, <1>5 DEF Sayable
<1>7. QED
  BY <1>3, <1>6 DEF c, d, none

(* A part of thinking or text.                                             *)
LEMMA PartOfTextToldOf ==
  ASSUME NEW A, NEW k, NEW w, NEW out, Relayed(A, k, w, out), NEW kind \in {"think", "text"},
         NEW n, n = Len(w) + 1
  PROVE  /\ kind = "text" => Relayed(A, k, Append(w, Piece(kind, Nothing)), Append(out, Plain(Nothing, n, "")))
         /\ kind = "think" => Relayed(A, k, Append(w, Piece(kind, Nothing)), Append(out, Plain(n, Nothing, "")))
<1> DEFINE B == Account(At(k), w)
           v == Append(w, Piece(kind, Nothing))
           C == Account(At(k), v)
<1>1. w \in Saids /\ n \in Nat /\ n \in Int /\ Nothing \in Nat /\ Nothing \in Int /\ Nothing <= 0 /\ "" \in Finishings /\ kind \in Kinds
  <2>1. w \in Saids /\ Len(w) \in Nat
    BY SaidFacts DEF Relayed
  <2>2. QED
    BY <2>1 DEF Nothing, Finishings, Kinds
<1>2. v \in Saids
  BY <1>1, SaidOneMore
<1>3. C = AddPiece(B, kind, n)
  BY <1>1, AccountPiece
<1> HIDE DEF B, C, v
<1>4. ASSUME kind = "text" PROVE Relayed(A, k, v, Append(out, Plain(Nothing, n, "")))
  <2> DEFINE c == Plain(Nothing, n, "")
  <2>1. Sayable(B, c) /\ AddChunk(B, c) = AddPiece(B, "text", n)
    BY <1>1, PlainSays
  <2> HIDE DEF c
  <2>2. C = AddChunk(B, c)
    BY <1>3, <1>4, <2>1
  <2>3. Relayed(A, k, v, Append(out, c))
    BY <1>2, <2>1, <2>2, OneMoreTold DEF B, C
  <2>4. QED
    BY <2>3 DEF c
<1>5. ASSUME kind = "think" PROVE Relayed(A, k, v, Append(out, Plain(n, Nothing, "")))
  <2> DEFINE c == Plain(n, Nothing, "")
  <2>1. Sayable(B, c) /\ AddChunk(B, c) = AddPiece(B, "think", n)
    BY <1>1, PlainSays
  <2> HIDE DEF c
  <2>2. C = AddChunk(B, c)
    BY <1>3, <1>5, <2>1
  <2>3. Relayed(A, k, v, Append(out, c))
    BY <1>2, <2>1, <2>2, OneMoreTold DEF B, C
  <2>4. QED
    BY <2>3 DEF c
<1>6. QED
  BY <1>4, <1>5 DEF v

(* A part that is a call, with all its arguments.                          *)
LEMMA PartOfCallToldOf ==
  ASSUME NEW A, NEW k \in Nat, NEW w, NEW out, Relayed(A, k, w, out), NEW more \in Calls, more = k + 1,
         NEW n, n = Len(w) + 1
  PROVE  Relayed(A, more, Append(w, Piece("call", more)), Append(out, Uses(Tool(k, more, n))))
<1> DEFINE B == Account(At(k), w)
           v == Append(w, Piece("call", more))
           C == Account(At(more), v)
           t == Tool(k, more, n)
           c == Uses(t)
<1>1. w \in Saids /\ n \in Nat /\ "call" \in Kinds
  <2>1. w \in Saids /\ Len(w) \in Nat
    BY SaidFacts DEF Relayed
  <2>2. QED
    BY <2>1 DEF Kinds
<1>2. more \in Calls /\ more \in Nat /\ more - 1 = k /\ k \in Slots /\ more # Nothing
  <2>1. more - 1 \in Slots /\ more # Nothing /\ more \in Nat
    BY CallsAreSlots
  <2>2. QED
    BY <2>1
<1>3. t.at = more - 1 /\ t.args = n /\ t.id = more /\ t \in ToolEntries
  BY <1>1, <1>2 DEF Tool, ToolEntries
<1>4. v \in Saids
  BY <1>1, <1>2, SaidOneMore
<1>5. Knows(At(more), At(k), more)
  <2>1. At(more).started = At(k).started + 1 /\ At(k).started \in Nat /\ At(more).started = more
    BY DEF At
  <2>2. QED
    BY <1>2, <2>1, OneMoreCall
<1> HIDE DEF t
<1>6. C = AddCall(B, t)
  <2>1. t.args = Len(w) + 1 /\ t.at = more - 1
    BY <1>3
  <2>2. QED
    BY <1>1, <1>2, <1>5, <2>1, AccountCall
<1>7. FitsIn(B, t)
  <2>1. t.at + 1 = more
    BY <1>2, <1>3
  <2> HIDE DEF B
  <2>2. Numbered(t)
    BY <1>3, <2>1 DEF Numbered
  <2>3. t.id # Nothing /\ t.at + 1 \in Calls
    BY <1>2, <1>3, <2>1
  <2>4. t \in ToolEntries
    BY <1>3
  <2>5. QED
    BY <2>2, <2>3, <2>4, Zenon DEF FitsIn
<1> HIDE DEF B, C, v
<1>8. Takeable(B, c) /\ c.text \in Nat /\ c.finish = "" /\ AddChunk(B, c) = AddCall(B, t)
  <2>1. Takeable(B, Uses(t)) /\ Uses(t).text = 0 /\ Uses(t).finish = ""
    BY <1>7, UsesIsTakeable
  <2>2. AddChunk(B, Uses(t)) = AddCall(B, t)
    BY UsesAdds
  <2>3. 0 \in Nat
    OBVIOUS
  <2>4. QED
    BY <2>1, <2>2, <2>3, Zenon
<1> HIDE DEF c
<1>9. Sayable(B, c) /\ C = AddChunk(B, c)
  BY <1>6, <1>8 DEF Sayable
<1>10. Relayed(A, more, v, Append(out, c))
  BY <1>4, <1>9, OneMoreTold DEF B, C
<1>11. QED
  BY <1>10 DEF v, c, t

(* One part of a chunk, said by a provider who has started j calls.        *)
StartedBy(j, p) == IF p.kind = "call" THEN j + 1 ELSE j
PartAt(j, n, p) ==
  /\ j \in Nat /\ p.kind \in Kinds /\ p.piece = n
  /\ p.kind = "call" => p.call = j + 1 /\ p.call \in Calls
  /\ p.kind # "call" => p.call = Nothing

LEMMA PartsAre ==
  ASSUME NEW kinds \in GeminiKinds, NEW k \in Nat, NEW m \in Nat, NEW parts, PartsFit(kinds, k, m, parts),
         NEW i \in 1 .. Len(kinds)
  PROVE  /\ PartAt(k + CallsUpTo(kinds, i - 1), m + i, parts[i])
         /\ k + CallsUpTo(kinds, i) = StartedBy(k + CallsUpTo(kinds, i - 1), parts[i])
<1> DEFINE j == k + CallsUpTo(kinds, i - 1)
           p == parts[i]
           u == CallsUpTo(kinds, i)
<1>1. Len(kinds) \in {0, 1, 2} /\ kinds[i] \in Kinds
  BY GeminiKindsFacts
<1>2. p = GeminiPartOf(kinds, k, m, i) /\ p.call \in Calls \cup {Nothing}
  BY DEF PartsFit
<1>3. i - 1 \in Nat /\ i - 1 + 1 = i /\ i \in Nat
  BY <1>1
<1>4. /\ CallsUpTo(kinds, i - 1) \in Nat
      /\ u = IF kinds[i] = "call" THEN CallsUpTo(kinds, i - 1) + 1 ELSE CallsUpTo(kinds, i - 1)
  <2> DEFINE h == i - 1
  <2>1. h \in Nat /\ h + 1 = i
    BY <1>3
  <2> HIDE DEF h
  <2>2. /\ CallsUpTo(kinds, h) \in Nat
        /\ CallsUpTo(kinds, h + 1) = IF kinds[h + 1] = "call" THEN CallsUpTo(kinds, h) + 1 ELSE CallsUpTo(kinds, h)
    BY <2>1, CallsNext
  <2>3. QED
    BY <2>1, <2>2 DEF h
<1>5. p.kind = kinds[i] /\ p.piece = m + i /\ p.call = IF kinds[i] = "call" THEN k + u ELSE Nothing
  <2> DEFINE call == IF kinds[i] = "call" THEN k + u ELSE Nothing
  <2>1. GeminiPartOf(kinds, k, m, i) = [kind |-> kinds[i], call |-> call, piece |-> m + i]
    BY DEF GeminiPartOf
  <2> HIDE DEF p, call
  <2>2. p.kind = kinds[i] /\ p.piece = m + i /\ p.call = call
    BY <1>2, <2>1
  <2>3. QED
    BY <2>2 DEF call
<1> HIDE DEF p, u
<1>6. j \in Nat /\ k + u = IF p.kind = "call" THEN j + 1 ELSE j
  BY <1>4, <1>5
<1>7. p.kind = "call" => p.call = j + 1 /\ p.call \in Calls
  <2> SUFFICES ASSUME p.kind = "call" PROVE p.call = j + 1 /\ p.call \in Calls
    OBVIOUS
  <2>1. p.call = j + 1
    BY <1>5, <1>6
  <2> HIDE DEF j
  <2>2. p.call # Nothing
    BY <1>6, <2>1 DEF Nothing
  <2>3. QED
    BY <1>2, <2>1, <2>2
<1>8. p.kind # "call" => p.call = Nothing
  BY <1>5
<1> HIDE DEF j
<1>9. PartAt(j, m + i, p) /\ k + u = StartedBy(j, p)
  BY <1>1, <1>5, <1>6, <1>7, <1>8 DEF PartAt, StartedBy
<1>10. QED
  BY <1>9 DEF j, p, u

LEMMA OneLonger ==
  ASSUME NEW S, NEW out \in Seq(S)
  PROVE  Len(out) \in Nat /\ \A c : Len(Append(out, c)) = Len(out) + 1
OBVIOUS

NextAt(j, w, p) == PartAt(j, Len(w) + 1, p)

(* What has become of r when the part p is said after w.                   *)
Onward(cl, s, k, A, w, p, r, q) ==
  /\ Partly(cl, s, StartedBy(k, p), q)
  /\ Relayed(A, StartedBy(k, p), Append(w, Piece(p.kind, p.call)), q.out)
  /\ Len(q.out) = Len(r.out) + 1

LEMMA GeminiPartSays ==
  ASSUME NEW cl, NEW s, NEW k, NEW r, Partly(cl, s, k, r), NEW A, NEW w, Relayed(A, k, w, r.out),
         NEW p, NextAt(k, w, p), NEW q, q = GeminiPart(r, p)
  PROVE  Onward(cl, s, k, A, w, p, r, q)
<1> DEFINE n == Len(w) + 1
           out == r.out
<1>0. PartAt(k, n, p)
  BY DEF NextAt
<1>1. /\ k \in Nat /\ p.kind \in Kinds /\ p.piece = n /\ w \in Saids /\ n \in Nat /\ n \in Int
      /\ Relayed(A, k, w, out)
  <2>1. w \in Saids /\ Len(w) \in Nat
    BY SaidFacts DEF Relayed
  <2>2. QED
    BY <1>0, <2>1 DEF PartAt
<1>2. Partly(cl, s, StartedBy(k, p), q)
  <2>1. p.kind = "call" => p.call = k + 1 /\ p.call \in Calls
    BY <1>0 DEF PartAt
  <2>2. p.piece \in Int
    BY <1>1
  <2>3. Partly(cl, s, IF p.kind = "call" THEN k + 1 ELSE k, GeminiPart(r, p))
    BY <1>1, <2>1, <2>2, GeminiPartSends
  <2>4. QED
    BY <2>3 DEF StartedBy
<1>3. r = [st |-> r.st, out |-> out] /\ r.st.functionIndex = k
  BY DEF Partly
<1>8. \A c : Len(Append(out, c)) = Len(out) + 1
  BY OneLonger DEF Relayed
<1> DEFINE t == r.st
           longer == Len(out) + 1
<1> HIDE DEF n, out, longer
<1>4. CASE p.kind = "text"
  <2> DEFINE c == Plain(Nothing, n, "")
             more == Append(out, c)
  <2>1. Says(p.piece) = c
    BY <1>1, PlainFacts
  <2> HIDE DEF c, t
  <2>2. q = Emit([st |-> t, out |-> out], c)
    BY <1>3, <1>4, <2>1 DEF GeminiPart, t
  <2> HIDE DEF more
  <2>3. q = [st |-> t, out |-> more]
    BY <2>2, EmitIs DEF more
  <2>4. q.out = more /\ p.call = Nothing /\ StartedBy(k, p) = k
    BY <1>0, <1>4, <2>3 DEF PartAt, StartedBy
  <2>5. Relayed(A, k, Append(w, Piece("text", Nothing)), more)
    <3> DEFINE kind == "text"
    <3>1. kind \in {"think", "text"} /\ kind = "text"
      OBVIOUS
    <3> HIDE DEF kind
    <3>2. Relayed(A, k, Append(w, Piece(kind, Nothing)), Append(out, Plain(Nothing, n, "")))
      BY <1>1, <3>1, PartOfTextToldOf DEF n
    <3>3. QED
      BY <3>1, <3>2 DEF more, c
  <2>6. Len(more) = longer
    BY <1>8 DEF more, longer
  <2>7. QED
    BY <1>2, <1>4, <2>4, <2>5, <2>6 DEF Onward, longer, out
<1>5. CASE p.kind = "think"
  <2> DEFINE c == Plain(n, Nothing, "")
             more == Append(out, c)
  <2>1. Thinks(p.piece) = c
    BY <1>1, PlainFacts
  <2> HIDE DEF c, t
  <2>2. q = Emit([st |-> t, out |-> out], c)
    BY <1>3, <1>5, <2>1 DEF GeminiPart, t
  <2> HIDE DEF more
  <2>3. q = [st |-> t, out |-> more]
    BY <2>2, EmitIs DEF more
  <2>4. q.out = more /\ p.call = Nothing /\ StartedBy(k, p) = k
    BY <1>0, <1>5, <2>3 DEF PartAt, StartedBy
  <2>5. Relayed(A, k, Append(w, Piece("think", Nothing)), more)
    <3> DEFINE kind == "think"
    <3>1. kind \in {"think", "text"} /\ kind = "think"
      OBVIOUS
    <3> HIDE DEF kind
    <3>2. Relayed(A, k, Append(w, Piece(kind, Nothing)), Append(out, Plain(n, Nothing, "")))
      BY <1>1, <3>1, PartOfTextToldOf DEF n
    <3>3. QED
      BY <3>1, <3>2 DEF more, c
  <2>6. Len(more) = longer
    BY <1>8 DEF more, longer
  <2>7. QED
    BY <1>2, <1>5, <2>4, <2>5, <2>6 DEF Onward, longer, out
<1>6. CASE p.kind = "call"
  <2> DEFINE call == p.call
             c == Uses(Tool(k, call, n))
             more == Append(out, c)
             v == [t EXCEPT !.functionIndex = k + 1]
  <2>1. call \in Calls /\ call = k + 1 /\ StartedBy(k, p) = call
    BY <1>0, <1>6 DEF PartAt, StartedBy
  <2>2. [r EXCEPT !.st.functionIndex = @ + 1] = [st |-> v, out |-> out]
    <3> HIDE DEF t
    <3>1. r = [st |-> t, out |-> out] /\ t.functionIndex = k
      BY <1>3 DEF t
    <3>2. QED
      BY <3>1
  <2> HIDE DEF v
  <2>3. q = Emit([st |-> v, out |-> out], Uses(Tool(k, p.call, n)))
    BY <1>1, <1>3, <1>6, <2>2 DEF GeminiPart
  <2>4. q = [st |-> v, out |-> more]
    BY <2>3, EmitIs
  <2> HIDE DEF more, call, c
  <2>5. q.out = more
    BY <2>4
  <2>6. Relayed(A, call, Append(w, Piece("call", call)), more)
    BY <1>1, <2>1, PartOfCallToldOf DEF n, more, c
  <2>7. Len(more) = longer
    BY <1>8 DEF more, longer
  <2>8. QED
    BY <1>2, <1>6, <2>1, <2>5, <2>6, <2>7 DEF Onward, call, longer, out
<1>7. QED
  BY <1>1, <1>4, <1>5, <1>6 DEF Kinds

LEMMA JoinedIs ==
  ASSUME NEW S, NEW w \in Seq(S), NEW v \in Seq(S), Len(v) \in {0, 1, 2}
  PROVE  /\ Len(v) = 0 => w \o v = w
         /\ Len(v) = 1 => w \o v = Append(w, v[1])
         /\ Len(v) = 2 => w \o v = Append(Append(w, v[1]), v[2])
<1>1. CASE Len(v) = 0
  <2>1. v = <<>>
    BY <1>1
  <2>2. QED
    BY <1>1, <2>1
<1>2. CASE Len(v) = 1
  <2>1. v = <<v[1]>> /\ v[1] \in S
    <3> DEFINE u == <<v[1]>>
    <3>1. v[1] \in S
      BY <1>2
    <3>2. u \in Seq(S) /\ Len(u) = Len(v) /\ \A i \in 1 .. Len(v) : u[i] = v[i]
      BY <1>2, <3>1
    <3> HIDE DEF u
    <3>3. u = v
      BY <3>2
    <3>4. QED
      BY <3>1, <3>3 DEF u
  <2> DEFINE a == v[1]
  <2>2. v = <<a>> /\ a \in S
    BY <2>1
  <2> HIDE DEF a
  <2>3. w \o v = Append(w, a)
    BY <2>2, OneIsAppended
  <2>4. QED
    BY <1>2, <2>3 DEF a
<1>3. CASE Len(v) = 2
  <2>1. v = <<v[1], v[2]>> /\ v[1] \in S /\ v[2] \in S
    <3> DEFINE u == <<v[1], v[2]>>
    <3>1. v[1] \in S /\ v[2] \in S
      BY <1>3
    <3>2. u \in Seq(S) /\ Len(u) = Len(v) /\ \A i \in 1 .. Len(v) : u[i] = v[i]
      BY <1>3, <3>1
    <3> HIDE DEF u
    <3>3. u = v
      BY <3>2
    <3>4. QED
      BY <3>1, <3>3 DEF u
  <2> DEFINE a == v[1]
             b == v[2]
  <2>2. v = <<a, b>> /\ a \in S /\ b \in S
    BY <2>1
  <2> HIDE DEF a, b
  <2>3. w \o v = Append(Append(w, a), b)
    BY <2>2, TwoAreAppended
  <2>4. QED
    BY <1>3, <2>3 DEF a, b
<1>4. QED
  BY <1>1, <1>2, <1>3

LEMMA RelayedNothing ==
  ASSUME NEW w \in Saids, NEW k
  PROVE  Relayed(Account(At(k), w), k, w, <<>>)
<1> DEFINE A == Account(At(k), w)
           none == <<>>
<1>1. none \in Seq(ChunksSaid)
  OBVIOUS
<1> HIDE DEF A
<1>2. RunsTo(A, none, A)
  BY RunsOfNone
<1> HIDE DEF none
<1>3. Relayed(A, k, w, none)
  BY <1>1, <1>2 DEF Relayed, A
<1>4. QED
  BY <1>3 DEF A, none

PieceOf(p) == Piece(p.kind, p.call)

(* The chunks of r say the pieces v, after w.                              *)
SaysAll(cl, s, kinds, k, w, v, r) ==
  LET k1 == k + CallsUpTo(kinds, Len(kinds)) IN
  /\ Partly(cl, s, k1, r) /\ Relayed(Account(At(k), w), k1, w \o v, r.out)
  /\ Len(r.out) = Len(kinds)

(* The parts of a chunk, one after the other.                              *)
LEMMA GeminiPartsSay ==
  ASSUME NEW cl, NEW s \in State, NEW kinds \in GeminiKinds, NEW k \in Nat, s.functionIndex = k, NEW w \in Saids,
         NEW parts, PartsFit(kinds, k, Len(w), parts),
         NEW v \in Saids, Len(v) = Len(kinds), \A i \in 1 .. Len(kinds) : v[i] = PieceOf(parts[i]),
         NEW r, r = GeminiParts(Result(s), parts)
  PROVE  SaysAll(cl, s, kinds, k, w, v, r)
<1> DEFINE n == Len(kinds)
           m == Len(w)
           b == Result(s)
           A == Account(At(k), w)
           K(i) == k + CallsUpTo(kinds, i)
           p1 == parts[1]
           p2 == parts[2]
           r1 == GeminiPart(b, p1)
           r2 == GeminiPart(r1, p2)
           w1 == Append(w, PieceOf(p1))
           w2 == Append(w1, PieceOf(p2))
<1>1. n \in {0, 1, 2} /\ m \in Nat /\ w \in Seq(Pieces) /\ v \in Seq(Pieces) /\ Len(parts) = n
  BY GeminiKindsFacts, SaidFacts DEF PartsFit
<1>2. K(0) = k
  <2>1. CallsUpTo(kinds, 0) = 0
    BY CallsNext
  <2>2. QED
    BY <2>1
<1>3. b.out = <<>> /\ Len(b.out) = 0 /\ Relayed(A, k, w, b.out)
  <2>1. b.out = <<>>
    BY DEF Result
  <2>2. Relayed(A, k, w, <<>>)
    BY RelayedNothing
  <2> HIDE DEF b, A
  <2>3. QED
    BY <2>1, <2>2
<1>4. Partly(cl, s, k, b)
  <2>1. Unfinished(cl, <<>>)
    <3> DEFINE none == <<>>
    <3>1. none \in Seq(ChunksSaid) /\ Len(none) = 0 /\ 1 .. 0 = {}
      OBVIOUS
    <3> HIDE DEF none
    <3>2. Unfinished(cl, none)
      BY <3>1 DEF Unfinished
    <3>3. QED
      BY <3>2 DEF none
  <2> DEFINE none == <<>>
  <2>2. b = [st |-> s, out |-> none]
    BY DEF Result
  <2> HIDE DEF b, none
  <2>3. b.st = s /\ b.out = none /\ b = [st |-> b.st, out |-> b.out]
    BY <2>2
  <2>4. Same(cl, s, s) /\ Unfinished(cl, none)
    BY <2>1 DEF Same, none
  <2>5. QED
    BY <2>3, <2>4 DEF Partly
<1>5. \A i \in 1 .. n : PartAt(K(i - 1), m + i, parts[i]) /\ K(i) = StartedBy(K(i - 1), parts[i])
  BY <1>1, PartsAre
<1>6. /\ n = 0 => r = b
      /\ n = 1 => r = r1
      /\ n = 2 => r = r2
  <2>1. Len(parts) \in {0, 1, 2}
    BY <1>1
  <2> HIDE DEF n
  <2>2. /\ Len(parts) = 0 => GeminiParts(b, parts) = b
        /\ Len(parts) = 1 => GeminiParts(b, parts) = r1
        /\ Len(parts) = 2 => GeminiParts(b, parts) = r2
    BY <2>1, GeminiPartsAre
  <2>3. QED
    BY <1>1, <2>2
<1>7. /\ n = 0 => w \o v = w
      /\ n = 1 => w \o v = w1
      /\ n = 2 => w \o v = w2
  <2>1. Len(v) \in {0, 1, 2} /\ Len(v) = n
    BY <1>1
  <2>2. /\ Len(v) = 0 => w \o v = w
        /\ Len(v) = 1 => w \o v = Append(w, v[1])
        /\ Len(v) = 2 => w \o v = Append(Append(w, v[1]), v[2])
    BY <1>1, <2>1, JoinedIs
  <2>3. (n >= 1 => v[1] = PieceOf(p1)) /\ (n = 2 => v[2] = PieceOf(p2))
    BY <1>1
  <2> HIDE DEF n
  <2>4. QED
    BY <2>1, <2>2, <2>3
<1> HIDE DEF n, m, b, A, K, p1, p2, r1, r2, w1, w2
<1>8. n >= 1 => /\ Partly(cl, s, K(1), r1) /\ Relayed(A, K(1), w1, r1.out) /\ Len(w1) = m + 1 /\ Len(r1.out) = 1
  <2> HAVE n >= 1
  <2>1. 1 \in 1 .. n /\ 1 - 1 = 0
    BY <1>1
  <2>2. PartAt(K(0), m + 1, p1) /\ K(1) = StartedBy(K(0), p1)
    BY <1>5, <2>1 DEF p1
  <2>3. PartAt(k, Len(w) + 1, p1) /\ K(1) = StartedBy(k, p1)
    BY <1>2, <2>2 DEF m
  <2>4. /\ Partly(cl, s, StartedBy(k, p1), r1) /\ Relayed(A, StartedBy(k, p1), Append(w, Piece(p1.kind, p1.call)), r1.out)
        /\ Len(r1.out) = Len(b.out) + 1
    <3>1. r1 = GeminiPart(b, p1)
      BY DEF r1
    <3>2. Partly(cl, s, k, b) /\ Relayed(A, k, w, b.out) /\ NextAt(k, w, p1)
      BY <1>3, <1>4, <2>3 DEF NextAt
    <3>3. Onward(cl, s, k, A, w, p1, b, r1)
      BY <3>1, <3>2, GeminiPartSays
    <3>4. QED
      BY <3>3 DEF Onward
  <2>5. w1 = Append(w, Piece(p1.kind, p1.call))
    BY DEF w1, PieceOf
  <2>6. Len(w1) = m + 1
    BY <1>1 DEF w1, m
  <2>7. Len(r1.out) = 1
    BY <1>3, <2>4
  <2>8. QED
    BY <2>3, <2>4, <2>5, <2>6, <2>7
<1>9. n = 2 => /\ Partly(cl, s, K(2), r2) /\ Relayed(A, K(2), w2, r2.out) /\ Len(r2.out) = 2
  <2> HAVE n = 2
  <2>1. 2 \in 1 .. n /\ 2 - 1 = 1 /\ n >= 1
    BY <1>1
  <2>2. PartAt(K(1), m + 2, p2) /\ K(2) = StartedBy(K(1), p2)
    BY <1>5, <2>1 DEF p2
  <2>3. Len(w1) + 1 = m + 2
    BY <1>1, <1>8, <2>1
  <2>4. Partly(cl, s, K(1), r1) /\ Relayed(A, K(1), w1, r1.out)
    BY <1>8, <2>1
  <2> DEFINE k1 == K(1)
  <2>5. PartAt(k1, Len(w1) + 1, p2) /\ Partly(cl, s, k1, r1) /\ Relayed(A, k1, w1, r1.out)
    BY <2>2, <2>3, <2>4
  <2> HIDE DEF k1
  <2>6. /\ Partly(cl, s, StartedBy(k1, p2), r2) /\ Relayed(A, StartedBy(k1, p2), Append(w1, Piece(p2.kind, p2.call)), r2.out)
        /\ Len(r2.out) = Len(r1.out) + 1
    <3>1. r2 = GeminiPart(r1, p2)
      BY DEF r2
    <3>2. NextAt(k1, w1, p2)
      BY <2>5 DEF NextAt
    <3>3. Onward(cl, s, k1, A, w1, p2, r1, r2)
      BY <2>5, <3>1, <3>2, GeminiPartSays
    <3>4. QED
      BY <3>3 DEF Onward
  <2>7. w2 = Append(w1, Piece(p2.kind, p2.call))
    BY DEF w2, PieceOf
  <2>8. Len(r2.out) = 2
    <3>1. Len(r1.out) = 1 /\ Len(r2.out) = Len(r1.out) + 1
      BY <1>8, <2>1, <2>6
    <3>2. QED
      BY <3>1
  <2>9. QED
    BY <2>2, <2>6, <2>7, <2>8 DEF k1
<1>12. Len(r.out) = n
  <2>1. CASE n = 0
    <3>1. r = b
      BY <1>6, <2>1
    <3>2. Len(b.out) = 0
      BY <1>3
    <3>3. QED
      BY <2>1, <3>1, <3>2
  <2>2. CASE n = 1
    <3>1. r = r1 /\ n >= 1
      BY <1>6, <2>2
    <3>2. Len(r1.out) = 1
      BY <1>8, <3>1
    <3>3. QED
      BY <2>2, <3>1, <3>2
  <2>3. CASE n = 2
    <3>1. r = r2 /\ Len(r2.out) = 2
      BY <1>6, <1>9, <2>3
    <3>2. QED
      BY <2>3, <3>1
  <2>4. QED
    BY <1>1, <2>1, <2>2, <2>3
<1>10. Partly(cl, s, K(n), r) /\ Relayed(A, K(n), w \o v, r.out)
  <2>1. CASE n = 0
    BY <1>2, <1>3, <1>4, <1>6, <1>7, <2>1
  <2>2. CASE n = 1
    <3>1. r = r1 /\ w \o v = w1 /\ n >= 1
      BY <1>6, <1>7, <2>2
    <3>2. Partly(cl, s, K(1), r1) /\ Relayed(A, K(1), w1, r1.out)
      BY <1>8, <3>1
    <3> DEFINE x == w \o v
    <3>3. x = w1
      BY <3>1
    <3> HIDE DEF x
    <3>4. Partly(cl, s, K(n), r) /\ Relayed(A, K(n), x, r.out)
      BY <2>2, <3>1, <3>2, <3>3, Zenon
    <3>5. QED
      BY <3>4 DEF x
  <2>3. CASE n = 2
    BY <1>6, <1>7, <1>9, <2>3
  <2>4. QED
    BY <1>1, <2>1, <2>2, <2>3
<1>11. QED
  BY <1>10, <1>12 DEF SaysAll, K, n, A

(* A chunk of Gemini: what is said with it, and what arrives.              *)
GeminiSaid(kinds, finish, parts, v) ==
  /\ kinds \in GeminiKinds
  /\ PartsFit(kinds, prov.started, Len(said), parts)
  /\ v \in Saids /\ Len(v) = Len(kinds) /\ \A i \in 1 .. Len(kinds) : v[i] = PieceOf(parts[i])
  /\ said' = said \o v
  /\ prov'.started = prov.started + CallsUpTo(kinds, Len(kinds))
  /\ prov'.over = IF finish THEN "finished" ELSE prov.over
  /\ Arrives([parts |-> parts, finish |-> finish])

LEMMA GeminiChunkIs ==
  ASSUME prov \in Providers, said \in Saids, GeminiChunk
  PROVE  \E kinds \in GeminiKinds, finish \in BOOLEAN : \E parts, v : GeminiSaid(kinds, finish, parts, v)
<1>1. prov.started \in Nat /\ Len(said) \in Nat
  BY DEF Providers, Saids
<1>2. PICK kinds \in {<<>>} \cup {<<k>> : k \in {"think", "text", "call"}} \cup ({"think", "text", "call"} \X {"text", "call"}),
        finish \in BOOLEAN :
       LET callsUpTo(i) == Cardinality({j \in 1..i : kinds[j] = "call"})
           call(i) == IF kinds[i] = "call" THEN prov.started + callsUpTo(i) ELSE Nothing
           parts == [i \in DOMAIN kinds |-> [kind |-> kinds[i], call |-> call(i), piece |-> Len(said) + i]]
       IN  /\ finish \/ kinds # <<>>
           /\ Len(said) + Len(kinds) <= MaxPieces
           /\ \A i \in DOMAIN kinds : call(i) \in Calls \cup {Nothing}
           /\ said' = said \o [i \in DOMAIN kinds |-> Piece(kinds[i], call(i))]
           /\ prov' = [prov EXCEPT !.begun = TRUE, !.started = @ + callsUpTo(Len(kinds)),
                                   !.over = IF finish THEN "finished" ELSE @]
           /\ Arrives([parts |-> parts, finish |-> finish])
  BY Zenon DEF GeminiChunk
<1> DEFINE m == Len(said)
           k0 == prov.started
           n == Len(kinds)
           call(i) == IF kinds[i] = "call" THEN k0 + CallsUpTo(kinds, i) ELSE Nothing
           parts == [i \in DOMAIN kinds |-> GeminiPartOf(kinds, k0, m, i)]
           pieces == [i \in DOMAIN kinds |-> Piece(kinds[i], call(i))]
           e == [parts |-> parts, finish |-> finish]
<1>3. /\ \A i \in DOMAIN kinds : call(i) \in Calls \cup {Nothing}
      /\ said' = said \o pieces
      /\ prov' = [prov EXCEPT !.begun = TRUE, !.started = @ + CallsUpTo(kinds, n), !.over = IF finish THEN "finished" ELSE @]
      /\ Arrives(e)
  BY <1>2, Zenon DEF CallsUpTo, GeminiPartOf
<1>4. kinds \in GeminiKinds /\ n \in Nat /\ DOMAIN kinds = 1 .. n /\ \A i \in 1 .. n : kinds[i] \in Kinds
  <2>1. kinds \in GeminiKinds
    BY <1>2, Zenon DEF GeminiKinds
  <2>2. QED
    BY <2>1, GeminiKindsFacts
<1>5. CallsUpTo(kinds, n) \in Nat /\ k0 \in Nat /\ m \in Nat
  <2>1. CallsUpTo(kinds, n) \in Nat
    BY <1>4, CallsNext
  <2>2. QED
    BY <1>1, <2>1
<1>6. prov'.started = prov.started + CallsUpTo(kinds, n) /\ prov'.over = IF finish THEN "finished" ELSE prov.over
  <2> DEFINE u == prov.started + CallsUpTo(kinds, n)
             over == IF finish THEN "finished" ELSE prov.over
  <2>1. prov' = [prov EXCEPT !.begun = TRUE, !.started = u, !.over = over]
    BY <1>3
  <2> HIDE DEF u, over
  <2>2. prov'.started = u /\ prov'.over = over
    BY <2>1 DEF Providers
  <2>3. QED
    BY <2>2 DEF u, over
<1> DEFINE part(i) == GeminiPartOf(kinds, k0, m, i)
           what(i) == Piece(kinds[i], call(i))
<1>7. parts = [i \in 1 .. n |-> part(i)] /\ pieces = [i \in 1 .. n |-> what(i)]
  BY <1>4
<1>8. ASSUME NEW i \in 1 .. n
      PROVE  /\ part(i).kind = kinds[i] /\ part(i).call = call(i)
             /\ call(i) \in Calls \cup {Nothing} /\ what(i) \in [kind : Kinds, call : Nat]
  <2>1. part(i) = [kind |-> kinds[i], call |-> call(i), piece |-> m + i]
    BY DEF GeminiPartOf
  <2>2. call(i) \in Calls \cup {Nothing}
    BY <1>3, <1>4
  <2> HIDE DEF call, part
  <2>3. call(i) \in Nat
    BY <2>2, CallsAreSlots DEF Nothing
  <2>4. QED
    BY <1>4, <2>1, <2>2, <2>3 DEF Piece
<1>9. e = [parts |-> parts, finish |-> finish] /\ Arrives(e)
  BY <1>3
<1>10. \A i \in 1 .. n : what(i) = Piece(kinds[i], call(i))
  OBVIOUS
<1> HIDE DEF parts, part, call, pieces, what, n, e
<1>11. Len(parts) = n /\ Len(pieces) = n /\ \A i \in 1 .. n : parts[i] = part(i) /\ pieces[i] = what(i)
  BY <1>4, <1>7
<1>12. PartsFit(kinds, prov.started, Len(said), parts)
  <2>1. \A i \in 1 .. n : parts[i] = part(i) /\ parts[i].call \in Calls \cup {Nothing}
    BY <1>8, <1>11
  <2>2. QED
    BY <1>11, <2>1 DEF PartsFit, n, part
<1>13. pieces \in Saids
  <2> DEFINE Said == [kind : Kinds, call : Nat]
  <2>1. \A i \in 1 .. n : what(i) \in Said
    BY <1>8
  <2> HIDE DEF Said
  <2>2. [i \in 1 .. n |-> what(i)] \in Seq(Said)
    BY <1>4, <2>1
  <2>3. QED
    BY <1>7, <2>2 DEF Saids, Said
<1>14. \A i \in 1 .. n : pieces[i] = PieceOf(parts[i])
  BY <1>8, <1>10, <1>11 DEF PieceOf
<1>15. said' = said \o pieces
  BY <1>3 DEF pieces, call, n
<1>16. GeminiSaid(kinds, finish, parts, pieces)
  BY <1>4, <1>6, <1>9, <1>11, <1>12, <1>13, <1>14, <1>15 DEF GeminiSaid, n
<1>17. QED
  BY <1>4, <1>16

LEMMA HopMore ==
  ASSUME NEW cl, NEW r, NEW out \in Seq(ChunksSaid), Len(out) \in {0, 1, 2}, NEW c \in ChunksSaid
  PROVE  SecondHop(cl, r, Append(out, c)) = FromOpenAI(cl, SecondHop(cl, r, out), c)
<1> DEFINE n == Len(out)
           more == Append(out, c)
           p1 == FromOpenAI(cl, r, out[1])
           p2 == FromOpenAI(cl, p1, out[2])
           p3 == FromOpenAI(cl, p2, out[3])
           q1 == FromOpenAI(cl, r, more[1])
           q2 == FromOpenAI(cl, q1, more[2])
           q3 == FromOpenAI(cl, q2, more[3])
           s == SecondHop(cl, r, out)
           q == SecondHop(cl, r, more)
<1>1. n \in {0, 1, 2} /\ Len(more) = n + 1 /\ more[n + 1] = c /\ \A i \in 1 .. n : more[i] = out[i]
  BY AppendedIs
<1>2. (n = 0 => s = r) /\ (n = 1 => s = p1) /\ (n = 2 => s = p2)
  <2> HIDE DEF p1, p2, p3
  <2>1. p1 = FromOpenAI(cl, r, out[1]) /\ p2 = FromOpenAI(cl, p1, out[2]) /\ p3 = FromOpenAI(cl, p2, out[3])
    BY DEF p1, p2, p3
  <2>2. Len(out) \in {0, 1, 2, 3}
    BY <1>1
  <2>3. /\ Len(out) = 0 => SecondHop(cl, r, out) = r
        /\ Len(out) = 1 => SecondHop(cl, r, out) = p1
        /\ Len(out) = 2 => SecondHop(cl, r, out) = p2
    BY <2>1, <2>2, SecondHopIs
  <2>4. QED
    BY <2>3
<1> HIDE DEF n, more
<1>3. (n = 0 => q = q1) /\ (n = 1 => q = q2) /\ (n = 2 => q = q3)
  <2> HIDE DEF q1, q2, q3
  <2>1. q1 = FromOpenAI(cl, r, more[1]) /\ q2 = FromOpenAI(cl, q1, more[2]) /\ q3 = FromOpenAI(cl, q2, more[3])
    BY DEF q1, q2, q3
  <2>2. Len(more) \in {0, 1, 2, 3}
    BY <1>1
  <2>3. /\ Len(more) = 1 => SecondHop(cl, r, more) = q1
        /\ Len(more) = 2 => SecondHop(cl, r, more) = q2
        /\ Len(more) = 3 => SecondHop(cl, r, more) = q3
    BY <2>1, <2>2, SecondHopIs
  <2> HIDE DEF q
  <2>4. q = SecondHop(cl, r, more)
    BY DEF q
  <2>5. QED
    BY <1>1, <2>3, <2>4
<1>4. /\ n = 0 => more[1] = c
      /\ n = 1 => more[1] = out[1] /\ more[2] = c
      /\ n = 2 => more[1] = out[1] /\ more[2] = out[2] /\ more[3] = c
  <2>1. CASE n = 0
    BY <1>1, <2>1
  <2>2. CASE n = 1
    BY <1>1, <2>2
  <2>3. CASE n = 2
    BY <1>1, <2>3
  <2>4. QED
    BY <1>1, <2>1, <2>2, <2>3
<1>5. q = FromOpenAI(cl, s, c)
  <2> HIDE DEF s, q
  <2>1. CASE n = 0
    BY <1>2, <1>3, <1>4, <2>1
  <2>2. CASE n = 1
    BY <1>2, <1>3, <1>4, <2>2
  <2>3. CASE n = 2
    BY <1>2, <1>3, <1>4, <2>3
  <2>4. QED
    BY <1>1, <2>1, <2>2, <2>3
<1>6. QED
  BY <1>5 DEF more

LEMMA NothingFacts ==
  /\ Nothing \in Nat /\ Nothing \in Int /\ Nothing >= CloseTag /\ ~ (Nothing > 0)
  /\ Nothing \in {Nothing, OpenTag, CloseTag}
<1>1. Nothing \in Nat /\ Nothing \in Int /\ Nothing >= CloseTag /\ ~ (Nothing > 0)
  BY DEF Nothing, CloseTag
<1>2. Nothing \in {Nothing, OpenTag, CloseTag}
  OBVIOUS
<1>3. QED
  BY <1>1, <1>2

(* The chunk that finishes an answer, after those of its parts.            *)
LEMMA FinishFollows ==
  ASSUME NEW cl \in Clients, NEW rd \in Readers, NEW N \in SUBSET Slots, NEW B, NEW h, Unthinking(cl, rd, h, N, B),
         NEW reason \in Finishings, reason # "", NEW c, c = Plain(Nothing, Nothing, reason),
         NEW q, q = FromOpenAI(cl, h, c)
  PROVE  Ended(After(rd, q.out), Ending(cl, reason), B)
<1>1. Nothing \in Nat /\ Nothing \in Int /\ Nothing >= CloseTag /\ ~ (Nothing > 0) /\ Nothing \in {Nothing, OpenTag, CloseTag}
  BY NothingFacts
<1>2. Takeable(B, c) /\ Usable(cl, c, N) /\ c.text = Nothing /\ c.finish = reason
  <2>1. Takeable(B, c)
    BY <1>1, PlainIsTakeable
  <2>2. Usable(cl, c, N) /\ c.finish = reason
    BY <1>1, PlainFacts
  <2>3. c.text = Nothing
    BY DEF Plain, Chunk
  <2>4. QED
    BY <2>1, <2>2, <2>3
<1>3. AddChunk(B, c) = B
  BY <1>1, NothingAdded
<1>4. Follows(cl, rd, h, N, B)
  BY DEF Unthinking
<1>5. Suits(cl, h.st, c)
  <2>1. c.text \in Nat /\ c.text \in Int /\ c.text >= CloseTag /\ ~ (c.text > 0)
    BY <1>1, <1>2
  <2>2. QED
    BY <2>1 DEF Suits, TextFits
<1>6. Learns(cl, h.st, rd, B, c, q)
  BY <1>2, <1>4, <1>5, HopFollows
<1>7. QED
  BY <1>2, <1>3, <1>6 DEF Learns

LEMMA AccountAt ==
  ASSUME NEW p, NEW w
  PROVE  Account(p, w) = Account(At(p.started), w)
BY SameAccount DEF At

LEMMA ArrivesAt ==
  ASSUME Knowing, NEW e, Arrives(e), NEW p, p = ToOpenAI(up, e, st), NEW q, q = SecondHop(client, Result(p.st), p.out)
  PROVE  st' = q.st /\ reader' = After(reader, q.out) /\ up' = up /\ client' = client
<1>1. Translate(up, client, e, st) = q
  BY KnowingFacts, TranslateIs
<1>2. QED
  BY <1>1, ArrivesIs

(* A chunk that does not finish the answer.                                *)
LEMMA GeminiGoesOn ==
  ASSUME Knowing, NEW e, Arrives(e), NEW p, p = ToOpenAI(up, e, st), NEW h, h = SecondHop(client, Result(p.st), p.out),
         Unthinking(client, reader, h, {}, Account(prov', said')), prov'.over = "no", up # "claude", up # "responses"
  PROVE  Informed'
<1>1. st' = h.st /\ reader' = After(reader, h.out) /\ up' = up /\ client' = client
  BY ArrivesAt
<1>2. /\ Holds(client, h.st, After(reader, h.out), Account(prov', said'))
      /\ client = "responses" => ~ h.st.inThinking
  BY DEF Unthinking, Follows
<1>3. Conveyed'
  <2>1. Holds(client, st, reader, Account(prov, said))'
    BY <1>1, <1>2
  <2>2. QED
    BY <2>1 DEF Conveyed
<1>4. Noted' /\ Thoughtful(st, prov)'
  BY <1>1, <1>2 DEF Noted, Thoughtful
<1>5. QED
  BY <1>3, <1>4 DEF Informed

(* A chunk that finishes the answer, for a reason that tells of its calls. *)
LEMMA GeminiFinishesIt ==
  ASSUME Knowing, NEW e, Arrives(e), NEW p, p = ToOpenAI(up, e, st), NEW q, q = SecondHop(client, Result(p.st), p.out),
         NEW reason \in Finishings, reason # "", reason = FinishReason',
         Ended(After(reader, q.out), Ending(client, reason), Account(prov', said')),
         prov'.over = "finished", up # "claude", up # "responses"
  PROVE  Informed'
<1> DEFINE why == Ending(client, reason)
<1>1. st' = q.st /\ reader' = After(reader, q.out) /\ up' = up /\ client' = client
  BY ArrivesAt
<1>2. why \in Reasons /\ (client # "responses" => why = FinishReason')
  BY DEF Ending, Reasons, Finishings
<1> HIDE DEF why
<1>3. Conveys(reader', Account(prov', said')) /\ reader'.ends = <<why>>
  BY <1>1 DEF Ended, why
<1>4. /\ Conveys(reader, Account(prov, said))'
      /\ \E x \in Reasons :
           /\ reader'.ends = <<x>>
           /\ prov'.over = "finished" /\ client' # "responses" => x = FinishReason'
  BY <1>1, <1>2, <1>3
<1>5. Conveyed'
  BY <1>4 DEF Conveyed
<1>6. Noted' /\ Thoughtful(st, prov)'
  BY <1>1 DEF Noted, Thoughtful
<1>7. QED
  BY <1>5, <1>6 DEF Informed

LEMMA GeminiChunkConveyed ==
  ASSUME Knowing, Informed, GeminiChunk
  PROVE  Informed'
<1> DEFINE k == prov.started
           A == Account(prov, said)
<1>1. /\ up = "gemini" /\ prov.over = "no" /\ SlotsKnown(up, prov) = {} /\ {} \in SUBSET Slots
      /\ client \in Clients /\ reader \in Readers /\ st \in State /\ prov \in Providers /\ said \in Saids
      /\ Fits(client, st, reader, {}) /\ st.functionIndex = k /\ k \in Nat
      /\ Holds(client, st, reader, A) /\ (client = "responses" => ~ st.inThinking)
  <2>1. up = "gemini" /\ prov.over = "no"
    BY DEF GeminiChunk, Speaking
  <2>2. SlotsKnown(up, prov) = {}
    BY <2>1 DEF SlotsKnown
  <2>3. /\ client \in Clients /\ reader \in Readers /\ st \in State /\ prov \in Providers /\ said \in Saids
        /\ Fits(client, st, reader, {})
    BY <2>1, <2>2, KnowingFacts
  <2>4. st.functionIndex = k /\ k \in Nat
    <3>1. Speaks(up, client, st, prov)
      BY DEF Knowing, Talking, Tells, PassedOn
    <3>2. QED
      BY <2>1, <2>3, <3>1 DEF Speaks, Providers
  <2>5. Holds(client, st, reader, A) /\ (client = "responses" => ~ st.inThinking)
    BY <2>1 DEF Informed, Conveyed, Thoughtful
  <2>6. QED
    BY <2>1, <2>2, <2>3, <2>4, <2>5
<1>2. PICK kinds \in GeminiKinds, finish \in BOOLEAN : \E parts, v : GeminiSaid(kinds, finish, parts, v)
  BY <1>1, GeminiChunkIs
<1>3. PICK parts, v : GeminiSaid(kinds, finish, parts, v)
  BY <1>2
<1> DEFINE e == [parts |-> parts, finish |-> finish]
           n == Len(kinds)
           k1 == k + CallsUpTo(kinds, n)
           B == Account(prov', said')
           r == GeminiParts(Result(st), parts)
           reason == IF r.st.functionIndex > 0 THEN "tools" ELSE "stop"
           c == Finishes(reason)
           p == GeminiToOpenAI(e, st)
           b == Result(r.st)
           h == SecondHop(client, b, r.out)
<1>4. /\ kinds \in GeminiKinds /\ PartsFit(kinds, k, Len(said), parts)
      /\ v \in Saids /\ Len(v) = n /\ \A i \in 1 .. n : v[i] = PieceOf(parts[i])
      /\ said' = said \o v /\ prov'.started = k1
      /\ prov'.over = IF finish THEN "finished" ELSE prov.over
      /\ e.parts = parts /\ e.finish = finish /\ Arrives(e)
  <2>1. Arrives([parts |-> parts, finish |-> finish])
    BY <1>3 DEF GeminiSaid
  <2>2. QED
    BY <1>3, <2>1 DEF GeminiSaid
<1>5. A = Account(At(k), said) /\ B = Account(At(k1), said')
  <2>1. B = Account(At(prov'.started), said')
    BY AccountAt
  <2> HIDE DEF k1, B
  <2>2. QED
    BY <1>4, <2>1, AccountAt
<1> HIDE DEF e
<1>6. p = ToOpenAI(up, e, st) /\ (finish => p = Emit(r, c)) /\ (~ finish => p = r)
  <2>1. p = ToOpenAI(up, e, st)
    BY <1>1 DEF ToOpenAI
  <2>2. (finish => p = Emit(r, c)) /\ (~ finish => p = r)
    BY <1>4 DEF GeminiToOpenAI, GeminiParts
  <2>3. QED
    BY <2>1, <2>2
<1> HIDE DEF A, B, k, k1, n, r, reason, c, p, b, h
<1>7. Partly(client, st, k1, r) /\ Relayed(A, k1, said', r.out) /\ Len(r.out) \in {0, 1, 2}
  <2>1. r = GeminiParts(Result(st), parts)
    BY DEF r
  <2>2. k \in Nat /\ Len(v) = Len(kinds) /\ \A i \in 1 .. Len(kinds) : v[i] = PieceOf(parts[i])
    BY <1>1, <1>4 DEF n
  <2>3. SaysAll(client, st, kinds, k, said, v, r)
    <3>1. st \in State /\ said \in Saids /\ v \in Saids /\ st.functionIndex = k /\ PartsFit(kinds, k, Len(said), parts)
      BY <1>1, <1>4
    <3>2. QED
      BY <2>1, <2>2, <3>1, GeminiPartsSay
  <2>4. Len(kinds) \in {0, 1, 2}
    BY <1>4, GeminiKindsFacts
  <2>5. Relayed(Account(At(k), said), k1, said', r.out)
    BY <1>4, <2>3 DEF SaysAll, k1, n
  <2>6. QED
    BY <1>5, <2>3, <2>4, <2>5 DEF SaysAll, k1, n
<1>8. /\ r.out \in Seq(ChunksSaid) /\ RunsTo(A, r.out, B)
      /\ r.st \in State /\ Same(client, st, r.st) /\ r.st.functionIndex = k1
      /\ \A i \in 1 .. Len(r.out) : Usable(client, r.out[i], {})
  BY <1>5, <1>7 DEF Relayed, Partly, Unfinished
<1>9. Unthinking(client, reader, b, {}, A)
  <2>1. Follows(client, reader, b, {}, A)
    BY <1>1, <1>8, FollowsFirst DEF b
  <2>2. b.st = r.st
    BY <1>1, <1>8, ResultIs DEF b
  <2>3. r.st.inThinking = st.inThinking
    BY <1>8 DEF Same
  <2>4. QED
    BY <1>1, <2>1, <2>2, <2>3 DEF Unthinking
<1>10. Unthinking(client, reader, h, {}, B)
  BY <1>1, <1>7, <1>8, <1>9, HopRuns DEF h
<1>11. CASE ~ finish
  <2>1. p = r /\ prov'.over = "no"
    BY <1>1, <1>4, <1>6, <1>11
  <2>2. h = SecondHop(client, Result(p.st), p.out)
    BY <2>1 DEF h, b
  <2>3. Unthinking(client, reader, h, {}, Account(prov', said'))
    BY <1>10 DEF B
  <2>4. up # "claude" /\ up # "responses"
    BY <1>1
  <2>5. QED
    BY <1>4, <1>6, <2>1, <2>2, <2>3, <2>4, GeminiGoesOn
<1>12. CASE finish
  <2> DEFINE q == FromOpenAI(client, h, c)
             more == Append(r.out, c)
  <2>1. prov'.over = "finished" /\ p = Emit(r, c)
    BY <1>4, <1>6, <1>12
  <2>2. reason \in Finishings /\ reason # "" /\ reason = FinishReason'
    <3>1. reason = IF k1 > 0 THEN "tools" ELSE "stop"
      BY <1>8 DEF reason
    <3>2. FinishReason' = IF prov'.started > 0 THEN "tools" ELSE "stop"
      BY DEF FinishReason
    <3> HIDE DEF k1
    <3>3. reason = FinishReason'
      BY <1>4, <3>1, <3>2
    <3>4. reason \in {"tools", "stop"}
      BY <3>1
    <3>5. QED
      BY <3>3, <3>4 DEF Finishings
  <2>3. c = Plain(Nothing, Nothing, reason) /\ c \in ChunksSaid
    <3>1. c = Plain(Nothing, Nothing, reason)
      BY PlainFacts DEF c
    <3>2. QED
      BY <2>2, <3>1, PlainFacts
  <2>4. p.st = r.st /\ p.out = more
    <3>1. r = [st |-> r.st, out |-> r.out]
      BY <1>7 DEF Partly
    <3> DEFINE t == r.st
               o == r.out
    <3>2. r = [st |-> t, out |-> o]
      BY <3>1
    <3> HIDE DEF t, o
    <3>3. p = [st |-> t, out |-> Append(o, c)]
      BY <2>1, <3>2, EmitIs
    <3>4. p.st = t /\ p.out = Append(o, c)
      BY <3>3
    <3>5. QED
      BY <3>4 DEF t, o
  <2>5. q = SecondHop(client, Result(p.st), p.out)
    <3>1. SecondHop(client, b, more) = FromOpenAI(client, SecondHop(client, b, r.out), c)
      BY <1>7, <1>8, <2>3, HopMore
    <3> HIDE DEF q, more
    <3>2. SecondHop(client, b, more) = q
      BY <3>1 DEF q, h
    <3>3. QED
      BY <2>4, <3>2 DEF b
  <2>6. Ended(After(reader, q.out), Ending(client, reason), B)
    <3>1. q = FromOpenAI(client, h, c)
      OBVIOUS
    <3> HIDE DEF q
    <3>2. QED
      BY <1>1, <1>10, <2>2, <2>3, <3>1, FinishFollows
  <2> HIDE DEF q
  <2>7. Ended(After(reader, q.out), Ending(client, reason), Account(prov', said'))
    BY <2>6 DEF B
  <2>8. up # "claude" /\ up # "responses"
    BY <1>1
  <2>9. QED
    BY <1>4, <1>6, <2>1, <2>2, <2>5, <2>7, <2>8, GeminiFinishesIt
<1>13. QED
  BY <1>11, <1>12

-----------------------------------------------------------------------------
(* A stream that is passed on tells of no call                             *)

Uncalled(q) ==
  /\ q.known = {} /\ \A c \in Calls : q.args[c] = <<>>
  /\ q.ends # <<>> => \E reason \in Reasons : q.ends = <<reason>> /\ reason # "tools"

Callless(p, w) == p.started = 0 /\ \A i \in 1 .. Len(w) : w[i].call = Nothing

PassesTexts == Callless(prov, said) /\ Uncalled(reader)

LEMMA BeganUncalled ==
  ASSUME NEW r \in Readers, Uncalled(r)
  PROVE  Began(r) \in Readers /\ Uncalled(Began(r)) /\ Began(r).ends = r.ends
<1>1. Began(r) \in Readers
  BY BeganSees
<1>2. CASE r.begun
  <2>1. Began(r) = r
    BY <1>2 DEF Began
  <2>2. QED
    BY <1>1, <2>1
<1>3. CASE ~ r.begun
  <2> DEFINE q == Read(r, Begin)
  <2>1. Began(r) = q
    BY <1>3 DEF Began
  <2>2. q.known = r.known /\ q.args = r.args /\ q.ends = r.ends
    BY BeginSays DEF SameWords
  <2> HIDE DEF q
  <2>3. Uncalled(q)
    BY <2>2 DEF Uncalled
  <2>4. QED
    BY <1>1, <2>1, <2>2, <2>3
<1>4. QED
  BY <1>2, <1>3

LEMMA EndUncalled ==
  ASSUME NEW r \in Readers, r.ends = <<>>, Uncalled(r), NEW reason \in Reasons, reason # "tools"
  PROVE  Uncalled(Passed(r, <<End(reason)>>))
<1> DEFINE b == Began(r)
           e == End(reason)
           q == Passed(r, <<e>>)
           none == <<>>
<1>1. b \in Readers /\ Uncalled(b) /\ b.ends = none
  BY BeganUncalled
<1>2. e \in Events
  BY EventFacts DEF Events
<1>3. q = Read(b, e)
  BY <1>2, PassedIs
<1> HIDE DEF b
<1>4. q.known = b.known /\ q.args = b.args /\ q.ends = Append(b.ends, reason)
  BY <1>1, <1>3, EndSays DEF SameWords
<1>5. Append(none, reason) = <<reason>>
  OBVIOUS
<1> HIDE DEF q, e, none
<1>6. q.ends = <<reason>>
  BY <1>1, <1>4, <1>5
<1>7. Uncalled(q)
  BY <1>1, <1>4, <1>6 DEF Uncalled
<1>8. QED
  BY <1>7 DEF q, e

LEMMA TextUncalled ==
  ASSUME NEW r \in Readers, r.ends = <<>>, Uncalled(r), NEW n \in Int
  PROVE  Uncalled(Passed(r, <<Part("text", n)>>))
<1> DEFINE b == Began(r)
           e == Part("text", n)
           q == Passed(r, <<e>>)
<1>1. b \in Readers /\ Uncalled(b) /\ b.ends = r.ends
  BY BeganUncalled
<1>2. e \in Events
  BY EventFacts DEF Events, Kinds
<1>3. q = Read(b, e)
  BY <1>2, PassedIs
<1> HIDE DEF b, q
<1>4. q.known = b.known /\ q.args = b.args /\ q.ends = b.ends
  <2>1. "text" \in {"think", "text"} /\ q = Read(b, Part("text", n))
    BY <1>3
  <2> DEFINE kind == "text"
  <2>2. kind \in {"think", "text"} /\ q = Read(b, Part(kind, n))
    BY <2>1
  <2> HIDE DEF kind
  <2> DEFINE h == IF n > 0 THEN Append(b.heard, [kind |-> kind, piece |-> n]) ELSE b.heard
  <2>3. b \in Readers
    BY <1>1
  <2>4. /\ q.items = b.items /\ q.index = b.index /\ q.ends = b.ends /\ q.known = b.known /\ q.args = b.args
        /\ q.heard = h
    BY <2>2, <2>3, PartSays
  <2>5. QED
    BY <2>4
<1> HIDE DEF e
<1>5. Uncalled(q)
  BY <1>1, <1>4 DEF Uncalled
<1>6. QED
  BY <1>5 DEF q, e

(* A terminal event, unless there has been one.                            *)
LEMMA TerminalUncalled ==
  ASSUME PassingOn, terminalSeen \in BOOLEAN, Uncalled(reader),
         NEW rd, rd = Passed(reader, IF terminalSeen THEN <<>> ELSE <<End("failed")>>)
  PROVE  Uncalled(rd)
<1>1. reader \in Readers /\ Passes(terminalSeen, reader, prov)
  BY DEF PassingOn, StreamTyped
<1>2. CASE terminalSeen
  <2>1. rd = Began(reader)
    BY <1>1, <1>2, PassedIs
  <2>2. QED
    BY <1>1, <2>1, BeganUncalled
<1>3. CASE ~ terminalSeen
  <2>1. rd = Passed(reader, <<End("failed")>>) /\ reader.ends = <<>>
    BY <1>1, <1>3 DEF Passes, Sees
  <2>2. "failed" \in Reasons /\ "failed" # "tools"
    BY DEF Reasons
  <2>3. QED
    BY <1>1, <2>1, <2>2, EndUncalled
<1>4. QED
  BY <1>2, <1>3

LEMMA TextPassesCallless ==
  ASSUME PassingOn, terminalSeen \in BOOLEAN, PassesTexts, TextPassesOn
  PROVE  PassesTexts'
<1>1. /\ reader \in Readers /\ said \in Saids /\ reader.ends = <<>> /\ Next1 \in Int
  BY DEF PassingOn, StreamTyped, Passes, TextPassesOn, Saids, Next1, Sees
<1>2. /\ said' = Append(said, Piece("text", Nothing))
      /\ reader' = Passed(reader, <<Part("text", Next1)>>) /\ prov' = prov
  BY DEF TextPassesOn, PassOn, Passed
<1> DEFINE v == Append(said, Piece("text", Nothing))
<1>3. /\ v \in Saids /\ Len(v) = Len(said) + 1 /\ \A i \in 1 .. Len(said) : v[i] = said[i]
      /\ v[Len(said) + 1].call = Nothing
  <2>1. "text" \in Kinds /\ Nothing \in Nat
    BY DEF Kinds, Nothing
  <2>2. QED
    BY <1>1, <2>1, SaidMore
<1>4. Len(said) \in Nat
  BY <1>1, SaidFacts
<1> HIDE DEF v
<1>5. \A i \in 1 .. Len(v) : i \in 1 .. Len(said) \/ i = Len(said) + 1
  BY <1>3, <1>4
<1>6. Callless(prov, v)
  BY <1>3, <1>5 DEF Callless, PassesTexts
<1>7. Uncalled(reader')
  BY <1>1, <1>2, TextUncalled DEF PassesTexts
<1>8. QED
  BY <1>2, <1>6, <1>7 DEF PassesTexts, v

LEMMA TerminalPassesCallless ==
  ASSUME PassingOn, terminalSeen \in BOOLEAN, PassesTexts, TerminalPassesOn
  PROVE  PassesTexts'
<1>1. reader \in Readers /\ prov \in Providers /\ reader.ends = <<>>
  BY DEF PassingOn, StreamTyped, Passes, TerminalPassesOn, Sees
<1>2. /\ prov' = [prov EXCEPT !.over = "finished"]
      /\ reader' = Passed(reader, <<End("completed")>>) /\ said' = said
  BY DEF TerminalPassesOn, PassOn, Passed
<1>3. "completed" \in Reasons /\ "completed" # "tools"
  BY DEF Reasons
<1>4. Uncalled(reader')
  BY <1>1, <1>2, <1>3, EndUncalled DEF PassesTexts
<1>5. prov'.started = prov.started
  BY <1>1, <1>2 DEF Providers
<1>6. QED
  BY <1>2, <1>4, <1>5 DEF PassesTexts, Callless

LEMMA DonePassesCallless ==
  ASSUME PassingOn, terminalSeen \in BOOLEAN, PassesTexts, DonePassesOn
  PROVE  PassesTexts'
<1> DEFINE over == IF prov.over = "no" THEN "failed" ELSE prov.over
<1>1. prov \in Providers
  BY DEF PassingOn, StreamTyped
<1>2. /\ prov' = [prov EXCEPT !.over = over]
      /\ reader' = Passed(reader, IF terminalSeen THEN <<>> ELSE <<End("failed")>>) /\ said' = said
  BY DEF DonePassesOn, PassOn, Passed
<1> HIDE DEF over
<1>3. Uncalled(reader')
  BY <1>2, TerminalUncalled DEF PassesTexts
<1>4. prov'.started = prov.started
  BY <1>1, <1>2 DEF Providers
<1>5. QED
  BY <1>2, <1>3, <1>4 DEF PassesTexts, Callless

-----------------------------------------------------------------------------
(* What the client has in the end                                          *)

ClosesItself(u, cl) == u = "responses" \/ (u = "openai" /\ cl = "responses")

(* NothingMixed, and FinishReachesClient in the phase ph, of the reader q  *)
(* of an answer of which p and w have been said.                           *)
KeptApart(u, cl, q, p, w) ==
  /\ u # cl => q.heard = TextIn(w)
  /\ q.ends # <<>> => q.known = CallsKnown(p) /\ \A c \in Calls : q.args[c] = ArgsIn(w, c)

Reached(u, cl, ph, q, p) ==
  /\ ph = "ended" /\ q.begun /\ (p.over # "no" \/ ClosesItself(u, cl)) => q.ends # <<>>
  /\ ph # "broken" => Len(q.ends) <= 1
  /\ \A i \in DOMAIN q.ends :
       p.over = "finished" /\ cl # "responses" => (q.ends[i] = "tools" <=> p.started > 0)

Faithful(u, cl, ph, q, p, w) == KeptApart(u, cl, q, p, w) /\ Reached(u, cl, ph, q, p)

LEMMA RightIs ==
  /\ Faithful(up, client, phase, reader, prov, said) <=> NothingMixed /\ FinishReachesClient
  /\ Faithful(up', client', phase', reader', prov', said') <=> NothingMixed' /\ FinishReachesClient'
<1>1. KeptApart(up, client, reader, prov, said) <=> NothingMixed
  BY DEF KeptApart, NothingMixed, CallsKnown, StartedCalls, PassedOn
<1>2. Reached(up, client, phase, reader, prov) <=> FinishReachesClient
  BY DEF Reached, ClosesItself, FinishReachesClient
<1>3. KeptApart(up', client', reader', prov', said') <=> NothingMixed'
  BY DEF KeptApart, NothingMixed, CallsKnown, StartedCalls, PassedOn
<1>4. Reached(up', client', phase', reader', prov') <=> FinishReachesClient'
  BY DEF Reached, ClosesItself, FinishReachesClient
<1>5. QED
  BY <1>1, <1>2, <1>3, <1>4 DEF Faithful

LEMMA AccountParts ==
  ASSUME NEW p, NEW w
  PROVE  /\ Account(p, w).heard = TextIn(w) /\ Account(p, w).known = CallsKnown(p)
         /\ \A c \in Calls : Account(p, w).args[c] = ArgsIn(w, c)
BY DEF Account, ArgsOf

(* One end, with all of the answer.                                        *)
LEMMA EndIsRight ==
  ASSUME NEW u, NEW cl, NEW ph, NEW q, NEW p, NEW w, Conveys(q, Account(p, w)), NEW reason, q.ends = <<reason>>,
         p.over = "finished" /\ cl # "responses" => reason = IF p.started > 0 THEN "tools" ELSE "stop"
  PROVE  Faithful(u, cl, ph, q, p, w)
<1>1. q.heard = TextIn(w) /\ q.known = CallsKnown(p) /\ \A c \in Calls : q.args[c] = ArgsIn(w, c)
  BY AccountParts DEF Conveys
<1>2. q.ends # <<>> /\ Len(q.ends) = 1 /\ DOMAIN q.ends = {1} /\ q.ends[1] = reason
  OBVIOUS
<1>3. p.over = "finished" /\ cl # "responses" => (reason = "tools" <=> p.started > 0)
  OBVIOUS
<1>4. KeptApart(u, cl, q, p, w)
  BY <1>1 DEF KeptApart
<1>5. Len(q.ends) <= 1
  BY <1>2
<1>6. Reached(u, cl, ph, q, p)
  BY <1>2, <1>3, <1>5 DEF Reached
<1>7. QED
  BY <1>4, <1>6 DEF Faithful

(* No end yet, or none that would be owed.                                 *)
LEMMA NoEndIsRight ==
  ASSUME NEW u, NEW cl, NEW ph, NEW q, NEW p, NEW w, q.ends = <<>>, q.heard = TextIn(w),
         ph = "ended" => p.over = "no" /\ ~ (ClosesItself(u, cl) /\ q.begun)
  PROVE  Faithful(u, cl, ph, q, p, w)
<1>1. Len(q.ends) = 0 /\ DOMAIN q.ends = {} /\ 0 <= 1
  OBVIOUS
<1>2. Reached(u, cl, ph, q, p)
  BY <1>1 DEF Reached
<1>3. KeptApart(u, cl, q, p, w)
  BY DEF KeptApart
<1>4. QED
  BY <1>2, <1>3 DEF Faithful

(* A stream that is passed on.                                             *)
LEMMA PassedIsRight ==
  ASSUME NEW u, NEW cl, u = cl, NEW ph, NEW q, NEW p, NEW w \in Saids, Callless(p, w),
         q.known = {}, \A c \in Calls : q.args[c] = <<>>, \A i \in DOMAIN q.ends : q.ends[i] # "tools",
         ph # "broken" => Len(q.ends) <= 1, ph = "ended" => q.ends # <<>>
  PROVE  Faithful(u, cl, ph, q, p, w)
<1>1. CallsKnown(p) = {}
  <2>1. ASSUME NEW c \in Calls PROVE ~ (c <= 0)
    BY CallsAreSlots
  <2>2. QED
    BY <2>1 DEF CallsKnown, Callless
<1>2. ASSUME NEW c \in Calls PROVE ArgsIn(w, c) = <<>>
  <2>1. Nothing # c
    BY CallsAreSlots DEF Nothing
  <2>2. \A i \in 1 .. Len(w) : w[i].call # c
    BY <2>1 DEF Callless
  <2>3. QED
    BY <2>2, ArgsGiven
<1>3. KeptApart(u, cl, q, p, w)
  BY <1>1, <1>2 DEF KeptApart
<1>4. ~ (p.started > 0)
  BY DEF Callless
<1>5. Reached(u, cl, ph, q, p)
  BY <1>4 DEF Reached
<1>6. QED
  BY <1>3, <1>5 DEF Faithful

LEMMA UncalledIsRight ==
  ASSUME NEW u, NEW cl, u = cl, NEW ph, NEW q, NEW p, NEW w \in Saids, Callless(p, w), Uncalled(q),
         ph = "ended" => q.ends # <<>>
  PROVE  Faithful(u, cl, ph, q, p, w)
<1>1. q.known = {} /\ \A c \in Calls : q.args[c] = <<>>
  BY DEF Uncalled
<1>2. (\A i \in DOMAIN q.ends : q.ends[i] # "tools") /\ Len(q.ends) <= 1
  <2>1. CASE q.ends = <<>>
    <3>1. Len(q.ends) = 0 /\ DOMAIN q.ends = {} /\ 0 <= 1
      BY <2>1
    <3>2. QED
      BY <3>1
  <2>2. CASE q.ends # <<>>
    <3>1. PICK reason \in Reasons : q.ends = <<reason>> /\ reason # "tools"
      BY <2>2 DEF Uncalled
    <3>2. Len(q.ends) = 1 /\ DOMAIN q.ends = {1} /\ q.ends[1] = reason /\ 1 <= 1
      BY <3>1
    <3>3. QED
      BY <3>1, <3>2
  <2>3. QED
    BY <2>1, <2>2
<1>3. QED
  BY <1>1, <1>2, PassedIsRight

(* ... and breaks.                                                         *)
LEMMA BreakIsRight ==
  ASSUME NEW u, NEW cl, u = cl, NEW r \in Readers, NEW p, NEW w \in Saids, Callless(p, w), Uncalled(r),
         NEW q, q = [r EXCEPT !.ends = Append(@, "failed")]
  PROVE  Faithful(u, cl, "broken", q, p, w)
<1>1. q.known = r.known /\ q.args = r.args /\ q.ends = Append(r.ends, "failed")
  BY DEF Readers
<1>2. \A i \in DOMAIN q.ends : q.ends[i] # "tools"
  <2> DEFINE x == r.ends
             failed == "failed"
             y == Append(x, failed)
  <2>1. x \in Seq(Reasons) /\ failed \in Reasons /\ failed # "tools"
    BY DEF Readers, Reasons
  <2>2. \A i \in 1 .. Len(x) : x[i] # "tools"
    <3>1. x # <<>> => \E reason \in Reasons : x = <<reason>> /\ reason # "tools"
      BY DEF Uncalled
    <3> HIDE DEF x
    <3>2. QED
      BY <3>1
  <2> HIDE DEF x, failed
  <2>3. y \in Seq(Reasons) /\ Len(y) = Len(x) + 1 /\ (\A i \in 1 .. Len(x) : y[i] = x[i]) /\ y[Len(x) + 1] = failed
    BY <2>1, AppendedIs
  <2>4. DOMAIN y = 1 .. Len(x) + 1 /\ Len(x) \in Nat
    BY <2>1, <2>3
  <2> HIDE DEF y
  <2>5. \A i \in DOMAIN y : y[i] # "tools"
    BY <2>1, <2>2, <2>3, <2>4
  <2>6. q.ends = y
    BY <1>1 DEF x, y, failed
  <2>7. QED
    BY <2>5, <2>6
<1>3. q.known = {} /\ \A c \in Calls : q.args[c] = <<>>
  BY <1>1 DEF Uncalled
<1> DEFINE ph == "broken"
<1>4. ph = "broken" /\ ph # "ended"
  OBVIOUS
<1> HIDE DEF ph
<1>5. Faithful(u, cl, ph, q, p, w)
  BY <1>2, <1>3, <1>4, PassedIsRight
<1>6. QED
  BY <1>5 DEF ph

-----------------------------------------------------------------------------
(* The end of an upstream that is translated                               *)

LEMMA HoldsFacts ==
  ASSUME NEW cl \in Clients, NEW s, NEW q, NEW A, Holds(cl, s, q, A)
  PROVE  q.ends = <<>> /\ q.heard = A.heard
<1>1. CASE cl = "claude"
  BY <1>1 DEF Holds, ClaudeHas, HeardSoFar
<1>2. CASE cl = "responses"
  BY <1>2 DEF Holds, ResponsesHas, Conveys
<1>3. CASE cl = "openai"
  BY <1>3 DEF Holds, ChatHas, Conveys
<1>4. QED
  BY <1>1, <1>2, <1>3 DEF Clients

(* Nothing more for the client.                                            *)
LEMMA StaysRight ==
  ASSUME client \in Clients, Conveyed,
         NEW ph, ph = "ended" => prov.over # "no" \/ ~ (ClosesItself(up, client) /\ reader.begun)
  PROVE  Faithful(up, client, ph, reader, prov, said)
<1>1. CASE prov.over = "no"
  <2>1. Holds(client, st, reader, Account(prov, said))
    BY <1>1 DEF Conveyed
  <2>2. reader.ends = <<>> /\ reader.heard = TextIn(said)
    BY <2>1, HoldsFacts, AccountParts
  <2>3. ph = "ended" => prov.over = "no" /\ ~ (ClosesItself(up, client) /\ reader.begun)
    BY <1>1
  <2>4. QED
    BY <2>2, <2>3, NoEndIsRight
<1>2. CASE prov.over # "no"
  <2>1. PICK reason \in Reasons :
          reader.ends = <<reason>> /\ (prov.over = "finished" /\ client # "responses" => reason = FinishReason)
    BY <1>2 DEF Conveyed
  <2>2. Conveys(reader, Account(prov, said))
    BY <1>2 DEF Conveyed
  <2>3. prov.over = "finished" /\ client # "responses" => reason = IF prov.started > 0 THEN "tools" ELSE "stop"
    BY <2>1 DEF FinishReason
  <2>4. QED
    BY <2>1, <2>2, <2>3, EndIsRight
<1>3. QED
  BY <1>1, <1>2

(* The answer is closed for the provider.                                  *)
LEMMA ClosedIsRight ==
  ASSUME prov.over = "no", NEW q, NEW reason, Ended(q, reason, Account(prov, said)), NEW ph
  PROVE  Faithful(up, client, ph, q, prov, said)
<1>1. Conveys(q, Account(prov, said)) /\ q.ends = <<reason>>
  BY DEF Ended
<1>2. prov.over # "finished"
  OBVIOUS
<1>3. QED
  BY <1>1, <1>2, EndIsRight

LEMMA NothingMore ==
  ASSUME NEW s \in State, reader \in Readers, NEW r, r = Result(s)
  PROVE  After(reader, r.out) = reader
<1>1. r.out = <<>>
  BY DEF Result
<1>2. QED
  BY <1>1, AfterNone

(* A provider of the Responses API that is cut off.                        *)
LEMMA ResponsesCutOff ==
  ASSUME Knowing, Informed, up = "responses", st.started,
         NEW r, r = SecondHop(client, Result(FinishOnce(st).st), FinishOnce(st).out)
  PROVE  Faithful(up, client, "ended", After(reader, r.out), prov, said)
<1>1. /\ client \in Clients /\ reader \in Readers /\ st \in State
      /\ Tells(up, client, st, reader, prov) /\ ResponsesAt(st, prov, said, reader) /\ Conveyed
      /\ prov.over = "no" => Fits(client, st, reader, SlotsKnown(up, prov))
      /\ SlotsKnown(up, prov) \in SUBSET Slots
  BY KnowingFacts DEF Informed, Noted
<1> DEFINE ph == "ended"
           q == After(reader, r.out)
<1>2. CASE prov.over # "no"
  <2>1. st.finishSent
    BY <1>1, <1>2 DEF Tells, Speaks, SpeaksResponses
  <2>2. FinishOnce(st) = Result(st)
    BY <2>1 DEF FinishOnce
  <2>3. Result(st).st = st /\ Result(st).out = <<>>
    BY DEF Result
  <2>4. r = SecondHop(client, Result(st), <<>>)
    BY <2>2, <2>3
  <2>5. q = reader
    BY <1>1, <2>4, NoArrival
  <2> HIDE DEF ph, q
  <2>6. Faithful(up, client, ph, reader, prov, said)
    BY <1>1, <1>2, StaysRight
  <2>7. Faithful(up, client, ph, q, prov, said)
    BY <2>5, <2>6
  <2>8. QED
    BY <2>7 DEF ph, q
<1>3. CASE prov.over = "no"
  <2> DEFINE t == FinishNoted(st)
             none == Nothing
             reason == ComputeFinishReason(st)
             c == Plain(none, none, reason)
             N == SlotsKnown(up, prov)
             A == Account(prov, said)
             E == Ending(client, reason)
  <2>1. ~ st.finishSent
    BY <1>1, <1>3 DEF ResponsesAt
  <2>2. FinishOnce(st) = OnePivot(t, c)
    BY <1>1, <2>1, FinishMade
  <2>3. t \in State /\ Same(client, st, t)
    <3>1. NoBlock \in Int
      BY DEF NoBlock
    <3>2. QED
      BY <1>1, <3>1, NotedFacts
  <2>4. none \in Nat /\ none \in Int /\ none >= CloseTag /\ ~ (none > 0)
    BY TagFacts
  <2>5. reason \in Finishings /\ reason # ""
    BY TagFacts DEF ComputeFinishReason
  <2>6. AddChunk(A, c) = A
    BY NothingAdded
  <2>7. c.text = none /\ c.finish = reason
    BY DEF Plain, Chunk
  <2>8. OnePivot(t, c).st = t
    BY DEF OnePivot
  <2> HIDE DEF t, none, reason, A, N
  <2>9. Takeable(A, c)
    BY <2>4, <2>5, PlainIsTakeable
  <2>10. Usable(client, c, N)
    BY <2>4, <2>5, PlainFacts
  <2> HIDE DEF c
  <2>11. Suits(client, t, c)
    BY <2>4, <2>7 DEF Suits, TextFits
  <2>12. Holds(client, st, reader, A)
    BY <1>1, <1>3 DEF Conveyed, A
  <2>13. r = SecondHop(client, Result(t), OnePivot(t, c).out)
    BY <2>2, <2>8
  <2>14. Fits(client, st, reader, N) /\ N \in SUBSET Slots
    BY <1>1, <1>3 DEF N
  <2>15. Learns(client, t, reader, A, c, r)
    BY <1>1, <2>3, <2>9, <2>10, <2>11, <2>12, <2>13, <2>14, OneSays
  <2> HIDE DEF q, E
  <2>16. Ended(q, E, A)
    BY <2>5, <2>6, <2>7, <2>15 DEF Learns, q, E
  <2>17. Ended(q, E, Account(prov, said))
    BY <2>16 DEF A
  <2> HIDE DEF ph
  <2>18. Faithful(up, client, ph, q, prov, said)
    BY <1>3, <2>17, ClosedIsRight
  <2>19. QED
    BY <2>18 DEF ph, q
<1>4. QED
  BY <1>2, <1>3

(* A client of the Responses API, of a provider of Chat Completions.       *)
LEMMA ChatCutOff ==
  ASSUME Knowing, Conveyed, client = "responses"
  PROVE  Faithful(up, client, "ended", After(reader, FlushEvents(st).out), prov, said)
<1>1. /\ client \in Clients /\ reader \in Readers /\ st \in State
      /\ InResponses(st, reader) \/ (prov.over # "no" /\ Done(client, st, reader))
      /\ prov.over = "no" => InResponses(st, reader)
  BY KnowingFacts DEF Tells, Fits
<1> DEFINE ph == "ended"
           q == After(reader, FlushEvents(st).out)
<1>2. CASE prov.over # "no"
  <2>1. \E reason \in Reasons : reader.ends = <<reason>>
    BY <1>2 DEF Conveyed
  <2>2. ~ InResponses(st, reader)
    BY <2>1 DEF InResponses, Sees
  <2>3. st.completed
    BY <1>1, <2>2 DEF Done
  <2>4. FlushEvents(st) = Result(st)
    BY <2>3 DEF FlushEvents
  <2>5. q = reader
    BY <1>1, <2>4, NothingMore
  <2> HIDE DEF ph, q
  <2>6. Faithful(up, client, ph, reader, prov, said)
    BY <1>1, <1>2, StaysRight
  <2>7. Faithful(up, client, ph, q, prov, said)
    BY <2>5, <2>6
  <2>8. QED
    BY <2>7 DEF ph, q
<1>3. CASE prov.over = "no"
  <2> DEFINE A == Account(prov, said)
  <2>1. ResponsesHas(st, reader, A)
    BY <1>3 DEF Conveyed, Holds
  <2> HIDE DEF A
  <2>2. Ended(q, "completed", A)
    BY <1>1, <1>3, <2>1, FlushToldOf
  <2> DEFINE E == "completed"
  <2>3. Ended(q, E, Account(prov, said))
    BY <2>2 DEF A
  <2> HIDE DEF ph, q, E
  <2>4. Faithful(up, client, ph, q, prov, said)
    BY <1>3, <2>3, ClosedIsRight
  <2>5. QED
    BY <2>4 DEF ph, q
<1>4. QED
  BY <1>2, <1>3

(* The client has been told; of what it is not told straight, the first    *)
(* hop has taken note.                                                     *)
Relating == Conveyed /\ (~ Direct(up, client) => Noted /\ Thoughtful(st, prov))

LEMMA FlushIsRight ==
  ASSUME Talking, <<up, client>> \in Chains, ~ PassedOn, Relating
  PROVE  Faithful(up, client, "ended", After(reader, Flush(up, client, st).out), prov, said)
<1> DEFINE r == Flush(up, client, st)
           ph == "ended"
<1>1. client \in Clients /\ reader \in Readers /\ st \in State /\ Conveyed
  BY ChainIs DEF Talking, StreamTyped, Relating
<1>2. up # "kiro" => Knowing /\ Informed
  BY DEF Knowing, Informed, Relating, Direct
<1>3. CASE up = "responses" /\ st.started
  <2>1. r = SecondHop(client, Result(FinishOnce(st).st), FinishOnce(st).out)
    BY <1>3 DEF Flush, SecondHop
  <2>2. Knowing /\ Informed
    BY <1>2, <1>3
  <2> HIDE DEF r, ph
  <2>3. Faithful(up, client, "ended", After(reader, r.out), prov, said)
    BY <1>3, <2>1, <2>2, ResponsesCutOff
  <2>4. QED
    BY <2>3 DEF r
<1>4. CASE up = "openai" /\ client = "responses"
  <2>1. Flush(up, client, st) = FlushEvents(st)
    BY <1>4 DEF Flush
  <2>2. Knowing /\ Conveyed
    BY <1>1, <1>2, <1>4
  <2> HIDE DEF r, ph
  <2>3. Faithful(up, client, "ended", After(reader, FlushEvents(st).out), prov, said)
    BY <1>4, <2>2, ChatCutOff
  <2>4. QED
    BY <2>1, <2>3
<1>5. CASE ~ (up = "responses" /\ st.started) /\ ~ (up = "openai" /\ client = "responses")
  <2>1. r = Result(st)
    BY <1>5 DEF Flush
  <2>2. ~ (ClosesItself(up, client) /\ reader.begun)
    <3>1. CASE up = "responses"
      <4>1. Noted /\ ~ st.started
        BY <1>2, <1>5, <3>1 DEF Informed
      <4>2. ~ reader.begun
        BY <3>1, <4>1 DEF Noted, ResponsesAt
      <4>3. QED
        BY <4>2
    <3>2. CASE up # "responses"
      BY <1>5, <3>2 DEF ClosesItself
    <3>3. QED
      BY <3>1, <3>2
  <2> DEFINE q == After(reader, r.out)
  <2> HIDE DEF r, ph
  <2>3. q = reader
    BY <1>1, <2>1, NothingMore
  <2> HIDE DEF q
  <2>4. Faithful(up, client, ph, reader, prov, said)
    BY <1>1, <2>2, StaysRight
  <2>5. Faithful(up, client, ph, q, prov, said)
    BY <2>3, <2>4
  <2>6. QED
    BY <2>5 DEF q, r, ph
<1>6. QED
  BY <1>3, <1>4, <1>5

-----------------------------------------------------------------------------
(* The inductive invariant of the contents                                 *)

ContentInv ==
  /\ StreamInv
  /\ phase = "open" => IF PassedOn THEN PassesTexts ELSE Relating
  /\ phase # "open" => NothingMixed /\ FinishReachesClient

LEMMA ContentIsRight ==
  ASSUME ContentInv
  PROVE  NothingMixed /\ FinishReachesClient
<1>1. CASE phase # "open"
  BY <1>1 DEF ContentInv
<1>2. CASE phase = "open" /\ PassedOn
  <2>1. Callless(prov, said) /\ Uncalled(reader) /\ said \in Saids /\ up = client
    BY <1>2 DEF ContentInv, StreamInv, PassesTexts, PassingOn, StreamTyped, PassedOn
  <2>2. phase # "ended"
    BY <1>2
  <2>3. Faithful(up, client, phase, reader, prov, said)
    BY <2>1, <2>2, UncalledIsRight
  <2>4. QED
    BY <2>3, RightIs
<1>3. CASE phase = "open" /\ ~ PassedOn
  <2>1. client \in Clients /\ Conveyed
    BY <1>3, ChainIs DEF ContentInv, StreamInv, Relating
  <2>2. phase # "ended"
    BY <1>3
  <2>3. Faithful(up, client, phase, reader, prov, said)
    BY <2>1, <2>2, StaysRight
  <2>4. QED
    BY <2>3, RightIs
<1>4. QED
  BY <1>1, <1>2, <1>3

LEMMA EndKeepsContent ==
  ASSUME ContentInv, UpstreamEnds
  PROVE  NothingMixed' /\ FinishReachesClient'
<1>1. /\ up' = up /\ client' = client /\ prov' = prov /\ said' = said /\ phase = "open" /\ phase' = "ended"
      /\ StreamInv
  BY DEF UpstreamEnds, ContentInv
<1>2. CASE PassedOn
  <2>1. reader' = Passed(reader, IF terminalSeen THEN <<>> ELSE <<End("failed")>>)
    BY <1>2 DEF UpstreamEnds, Passed
  <2>2. /\ PassingOn /\ terminalSeen \in BOOLEAN /\ Callless(prov, said) /\ Uncalled(reader) /\ said \in Saids
        /\ up = client
    BY <1>1, <1>2 DEF StreamInv, ContentInv, PassesTexts, PassingOn, StreamTyped, PassedOn
  <2>3. Heard(reader') /\ Uncalled(reader')
    BY <2>1, <2>2, TerminalOnce, TerminalUncalled
  <2>4. reader'.ends # <<>>
    BY <2>3 DEF Heard
  <2>5. Faithful(up, client, phase', reader', prov, said)
    BY <2>2, <2>3, <2>4, UncalledIsRight
  <2>6. Faithful(up', client', phase', reader', prov', said')
    BY <1>1, <2>5
  <2>7. QED
    BY <2>6, RightIs
<1>3. CASE ~ PassedOn
  <2>1. reader' = After(reader, Flush(up, client, st).out)
    BY <1>3 DEF UpstreamEnds, After
  <2>2. Talking /\ <<up, client>> \in Chains /\ Relating
    BY <1>1, <1>3 DEF StreamInv, ContentInv
  <2>3. Faithful(up, client, "ended", After(reader, Flush(up, client, st).out), prov, said)
    BY <1>3, <2>2, FlushIsRight
  <2>4. Faithful(up', client', phase', reader', prov', said')
    BY <1>1, <2>1, <2>3
  <2>5. QED
    BY <2>4, RightIs
<1>4. QED
  BY <1>2, <1>3

LEMMA BreakKeepsContent ==
  ASSUME ContentInv, UpstreamBreaks
  PROVE  NothingMixed' /\ FinishReachesClient'
<1>1. /\ up' = up /\ client' = client /\ prov' = prov /\ said' = said /\ phase = "open" /\ phase' = "broken"
      /\ reader' = IF PassedOn THEN [reader EXCEPT !.ends = Append(@, "failed")] ELSE reader
      /\ StreamInv
  BY DEF UpstreamBreaks, ContentInv
<1>2. CASE PassedOn
  <2>1. /\ reader \in Readers /\ Callless(prov, said) /\ Uncalled(reader) /\ said \in Saids /\ up = client
    BY <1>1, <1>2 DEF StreamInv, ContentInv, PassesTexts, PassingOn, StreamTyped, PassedOn
  <2>2. reader' = [reader EXCEPT !.ends = Append(@, "failed")]
    BY <1>1, <1>2
  <2>3. Faithful(up, client, "broken", reader', prov, said)
    BY <2>1, <2>2, BreakIsRight
  <2>4. Faithful(up', client', phase', reader', prov', said')
    BY <1>1, <2>3
  <2>5. QED
    BY <2>4, RightIs
<1>3. CASE ~ PassedOn
  <2>1. client \in Clients /\ Conveyed
    BY <1>1, <1>3, ChainIs DEF ContentInv, StreamInv, Relating
  <2>2. phase' # "ended"
    BY <1>1
  <2>3. Faithful(up, client, phase', reader, prov, said)
    BY <2>1, <2>2, StaysRight
  <2>4. Faithful(up', client', phase', reader', prov', said')
    BY <1>1, <1>3, <2>3
  <2>5. QED
    BY <2>4, RightIs
<1>4. QED
  BY <1>2, <1>3

(* The beginning, of which there is nothing to tell.                       *)
NewAccount == Account(NewProvider, <<>>)

LEMMA NewAccountIs ==
  /\ NewAccount \in Accounts /\ NewAccount.heard = <<>> /\ NewAccount.known = {}
  /\ \A c \in Calls : NewAccount.args[c] = <<>>
<1> DEFINE none == <<>>
           S == Seq(Int)
           args == ArgsOf(none)
<1>1. none \in Saids /\ none \in Heards
  BY DEF Saids, Heards
<1>2. TextIn(none) = none /\ \A c : ArgsIn(none, c) = none
  BY NothingSaid
<1>3. CallsKnown(NewProvider) = {}
  <2>1. NewProvider.started = 0
    BY DEF NewProvider
  <2>2. ASSUME NEW c \in Calls PROVE ~ (c <= 0)
    BY CallsAreSlots
  <2>3. QED
    BY <2>1, <2>2 DEF CallsKnown
<1> HIDE DEF none, args
<1>4. args \in [Calls -> S] /\ \A c \in Calls : args[c] = none
  BY <1>1, <1>2, ArgsOfFacts DEF args
<1> HIDE DEF S
<1>5. NewAccount = [heard |-> none, known |-> {}, args |-> args]
  BY <1>2, <1>3 DEF NewAccount, Account, none, args
<1>6. NewAccount.heard = none /\ NewAccount.known = {} /\ NewAccount.args = args
  BY <1>5
<1>7. NewAccount \in [heard : Heards, known : SUBSET Calls, args : [Calls -> S]]
  BY <1>1, <1>4, <1>5
<1>8. \A c \in Calls : c \notin NewAccount.known => NewAccount.args[c] = none
  BY <1>4, <1>6
<1>9. NewAccount \in Accounts
  BY <1>7, <1>8 DEF Accounts, S, none
<1>10. QED
  BY <1>4, <1>6, <1>9 DEF none

LEMMA NewReaderIs ==
  /\ NewReader.ends = <<>> /\ NewReader.heard = <<>> /\ NewReader.known = {} /\ NewReader.begun = FALSE
  /\ \A i \in Slots : NewReader.index[i] = Nothing
  /\ \A c \in Calls : NewReader.args[c] = <<>>
BY DEF NewReader

LEMMA InitStateIs ==
  /\ InitState.started = FALSE /\ InitState.finishSent = FALSE /\ InitState.current = Nothing
  /\ InitState.argsEmitted = {} /\ InitState.thinkingBlock = NoBlock /\ InitState.serverBlock = NoBlock
  /\ InitState.block["think"] = NoBlock /\ InitState.block["text"] = NoBlock
  /\ InitState.funcAdded = {} /\ InitState.inThinking = FALSE
  /\ InitState.reasoning = "none" /\ InitState.message = "none" /\ InitState.argBuf = Empty
  /\ \A i \in Slots : InitState.toolCalls[i] = NoTool
BY DEF InitState

LEMMA NewHolds ==
  ASSUME NEW cl
  PROVE  Holds(cl, InitState, NewReader, NewAccount)
<1> DEFINE A == NewAccount
           q == NewReader
           s == InitState
           none == <<>>
<1>1. /\ A \in Accounts /\ A.heard = none /\ A.known = {} /\ \A c \in Calls : A.args[c] = none
  BY NewAccountIs
<1>2. /\ q.ends = none /\ q.heard = none /\ q.known = {}
      /\ \A i \in Slots : q.index[i] = Nothing
      /\ \A c \in Calls : q.args[c] = none
  BY NewReaderIs
<1>3. /\ s.block["think"] = NoBlock /\ s.block["text"] = NoBlock /\ s.funcAdded = {}
      /\ s.reasoning = "none" /\ s.message = "none"
      /\ \A i \in Slots : s.toolCalls[i] = NoTool
      /\ \A i \in Slots : s.argBuf[i] = none
  BY InitStateIs DEF Empty
<1> HIDE DEF A, q, s
<1>4. q.args = A.args
  <2>1. A.args \in [Calls -> Seq(Int)]
    BY <1>1 DEF Accounts
  <2>2. q.args \in [Calls -> Seq(Int)]
    BY NewReaderFacts DEF Readers, q
  <2> HIDE DEF none
  <2>3. QED
    BY <1>1, <1>2, <2>1, <2>2
<1>5. \A c \in Calls : c - 1 \in Slots
  BY CallsAreSlots
<1>6. Conveys(q, A) /\ HeardSoFar(q, A)
  BY <1>1, <1>2, <1>4 DEF Conveys, HeardSoFar
<1>7. Buffers(s, A) /\ TextBlocks(s, q) /\ CallBlocks(s, q)
  BY <1>1, <1>3, <1>5 DEF Buffers, TextBlocks, CallBlocks
<1>8. ItemsTold(s, q, A)
  BY <1>1, <1>3 DEF ItemsTold
<1>9. ClaudeHas(s, q, A) /\ ResponsesHas(s, q, A)
  BY <1>1, <1>2, <1>6, <1>7, <1>8 DEF ClaudeHas, ResponsesHas
<1>10. ChatHas(q, A)
  BY <1>1, <1>2, <1>6 DEF ChatHas
<1>11. QED
  BY <1>9, <1>10 DEF Holds, A, q, s

LEMMA ContentBegins ==
  ASSUME StreamInit, <<up, client>> \in Chains
  PROVE  ContentInv
<1>1. /\ st = InitState /\ phase = "open" /\ prov = NewProvider /\ reader = NewReader /\ said = <<>>
  BY DEF StreamInit
<1>2. prov.started = 0 /\ prov.over = "no" /\ prov.kind = "none"
  BY <1>1 DEF NewProvider
<1>3. StreamInv
  BY StreamBegins
<1>4. PassesTexts
  <2>1. Len(said) = 0 /\ 1 .. 0 = {}
    BY <1>1
  <2>2. Callless(prov, said)
    BY <1>2, <2>1 DEF Callless
  <2>3. Uncalled(reader)
    BY <1>1, NewReaderIs DEF Uncalled
  <2>4. QED
    BY <2>2, <2>3 DEF PassesTexts
<1>5. Conveyed
  <2>1. Account(prov, said) = NewAccount
    BY <1>1 DEF NewAccount
  <2>2. Holds(client, st, reader, Account(prov, said))
    BY <1>1, <2>1, NewHolds
  <2>3. QED
    BY <1>2, <2>2 DEF Conveyed
<1>6. ClaudeAt(st, prov)
  BY <1>1, <1>2, InitStateIs DEF ClaudeAt
<1>7. ResponsesAt(st, prov, said, reader)
  <2>1. DOMAIN said = {}
    BY <1>1
  <2>2. QED
    BY <1>1, <2>1, InitStateIs, NewReaderIs DEF ResponsesAt
<1>8. Thoughtful(st, prov)
  BY <1>1, InitStateIs DEF Thoughtful
<1>9. Relating
  BY <1>5, <1>6, <1>7, <1>8 DEF Relating, Noted
<1>10. QED
  BY <1>1, <1>3, <1>4, <1>9 DEF ContentInv

LEMMA ContentStutters ==
  ASSUME ContentInv, UNCHANGED vars
  PROVE  ContentInv'
<1>1. StreamInv'
  BY StreamStutters DEF ContentInv
<1>2. /\ up' = up /\ client' = client /\ st' = st /\ phase' = phase /\ prov' = prov /\ reader' = reader /\ said' = said
  BY DEF vars
<1>3. PassesTexts => PassesTexts'
  BY <1>2 DEF PassesTexts
<1>4. Conveyed => Conveyed'
  BY <1>2 DEF Conveyed, FinishReason
<1>5. Noted => Noted'
  BY <1>2 DEF Noted
<1>6. Relating => Relating'
  BY <1>2, <1>4, <1>5 DEF Relating, Direct, Thoughtful
<1>7. NothingMixed => NothingMixed'
  BY <1>2 DEF NothingMixed, PassedOn, StartedCalls
<1>8. FinishReachesClient => FinishReachesClient'
  BY <1>2 DEF FinishReachesClient
<1>9. QED
  BY <1>1, <1>2, <1>3, <1>6, <1>7, <1>8 DEF ContentInv, PassedOn

LEMMA ContentStays ==
  ASSUME ContentInv, Next
  PROVE  ContentInv'
<1>0. StreamInv /\ StreamInv' /\ <<up, client>> \in Chains /\ terminalSeen \in BOOLEAN
  BY StreamsWell DEF ContentInv, StreamInv
<1> DEFINE Translates == ~ PassedOn /\ phase = "open" /\ up' = up /\ client' = client /\ phase' = phase
           PassesIt == PassedOn /\ phase = "open" /\ up' = up /\ client' = client /\ phase' = phase
           Tell == Knowing /\ Informed
<1>1. ASSUME Translates, ~ Direct(up, client), Informed' PROVE ContentInv'
  <2>1. Relating'
    BY <1>1 DEF Relating, Informed
  <2>2. phase' = "open" /\ up' # client'
    BY <1>1 DEF PassedOn
  <2>3. QED
    BY <1>0, <2>1, <2>2 DEF ContentInv, PassedOn
<1>2. ASSUME Translates, Direct(up, client), Conveyed' PROVE ContentInv'
  <2>1. Direct(up', client')
    BY <1>2
  <2>2. Relating'
    BY <1>2, <2>1 DEF Relating
  <2>3. phase' = "open" /\ up' # client'
    BY <1>2 DEF PassedOn
  <2>4. QED
    BY <1>0, <2>2, <2>3 DEF ContentInv, PassedOn
<1>3. ASSUME PassesIt, PassesTexts' PROVE ContentInv'
  <2>1. phase' = "open" /\ up' = client'
    BY <1>3 DEF PassedOn
  <2>2. QED
    BY <1>0, <1>3, <2>1 DEF ContentInv, PassedOn
<1>4. /\ phase = "open" /\ ~ PassedOn => Talking /\ Relating
      /\ phase = "open" /\ PassedOn => PassingOn /\ PassesTexts
  BY DEF ContentInv, StreamInv
<1>5. ASSUME NEW f, NEW e, Speaking(f), Arrives(e) PROVE Translates /\ Talking /\ Relating /\ up \in f
  BY <1>4, <1>5 DEF Speaking, Arrives
<1>6. ASSUME Translates, Talking, Relating, ~ Direct(up, client) PROVE Tell
  BY <1>0, <1>6 DEF Knowing, Informed, Relating
<1>7. ASSUME NEW f, NEW e, Speaking(f), Arrives(e), "kiro" \notin f PROVE Tell /\ Translates /\ ~ Direct(up, client)
  <2>1. Translates /\ Talking /\ Relating /\ up \in f
    BY <1>5, <1>7
  <2>2. ~ Direct(up, client)
    BY <1>7, <2>1 DEF Direct
  <2> HIDE DEF Translates, Tell
  <2>3. QED
    BY <1>6, <2>1, <2>2
<1>8. CASE ChunkArrives
  <2>1. Talking /\ Relating /\ ~ PassedOn /\ phase = "open"
    BY <1>4, <1>8 DEF ChunkArrives, Speaking
  <2>2. PICK e \in ChunksSaid : Arrives(e)
    BY <1>8, <2>1, ChunkIs
  <2>3. Translates
    BY <2>1, <2>2 DEF Arrives
  <2>4. CASE Direct(up, client)
    <3>1. Conveyed'
      BY <1>0, <1>8, <2>1, <2>4, KiroChunkConveyed DEF Relating
    <3>2. QED
      BY <1>2, <2>3, <2>4, <3>1
  <2>5. CASE ~ Direct(up, client)
    <3>1. Tell
      BY <1>6, <2>1, <2>3, <2>5
    <3>2. Informed'
      BY <1>8, <3>1, ChunkConveyed
    <3>3. QED
      BY <1>1, <2>3, <2>5, <3>2
  <2>6. QED
    BY <2>4, <2>5
<1>9. CASE ClaudeBegins
  <2>1. Tell /\ Translates /\ ~ Direct(up, client)
    BY <1>7, <1>9 DEF ClaudeBegins
  <2>2. Informed'
    BY <1>9, <2>1, ClaudeBeginsConveyed
  <2>3. QED
    BY <1>1, <2>1, <2>2
<1>10. CASE BlockStarts
  <2>1. Tell /\ Translates /\ ~ Direct(up, client)
    BY <1>7, <1>10 DEF BlockStarts
  <2>2. Informed'
    BY <1>10, <2>1, BlockStartsConveyed
  <2>3. QED
    BY <1>1, <2>1, <2>2
<1>11. CASE BlockContinues
  <2>1. Tell /\ Translates /\ ~ Direct(up, client)
    BY <1>7, <1>11 DEF BlockContinues
  <2>2. Informed'
    BY <1>11, <2>1, BlockContinuesConveyed
  <2>3. QED
    BY <1>1, <2>1, <2>2
<1>12. CASE BlockStops
  <2>1. Tell /\ Translates /\ ~ Direct(up, client)
    BY <1>7, <1>12 DEF BlockStops
  <2>2. Informed'
    BY <1>12, <2>1, BlockStopsConveyed
  <2>3. QED
    BY <1>1, <2>1, <2>2
<1>13. CASE ClaudeFinishes
  <2>1. Tell /\ Translates /\ ~ Direct(up, client)
    BY <1>7, <1>13 DEF ClaudeFinishes
  <2>2. Informed'
    BY <1>13, <2>1, ClaudeFinishesConveyed
  <2>3. QED
    BY <1>1, <2>1, <2>2
<1>14. CASE ResponsesSays
  <2>1. Tell /\ Translates /\ ~ Direct(up, client)
    BY <1>7, <1>14 DEF ResponsesSays
  <2>2. Informed'
    BY <1>14, <2>1, ResponsesSaysConveyed
  <2>3. QED
    BY <1>1, <2>1, <2>2
<1>15. CASE ItemAdded
  <2>1. Tell /\ Translates /\ ~ Direct(up, client)
    BY <1>7, <1>15 DEF ItemAdded
  <2>2. Informed'
    BY <1>15, <2>1, ItemAddedConveyed
  <2>3. QED
    BY <1>1, <2>1, <2>2
<1>16. CASE ArgsArrive
  <2>1. Tell /\ Translates /\ ~ Direct(up, client)
    BY <1>7, <1>16 DEF ArgsArrive
  <2>2. Informed'
    BY <1>16, <2>1, ArgsArriveConveyed
  <2>3. QED
    BY <1>1, <2>1, <2>2
<1>17. CASE ItemIsDone
  <2>1. Tell /\ Translates /\ ~ Direct(up, client)
    BY <1>7, <1>17 DEF ItemIsDone
  <2>2. Informed'
    BY <1>17, <2>1, ItemIsDoneConveyed
  <2>3. QED
    BY <1>1, <2>1, <2>2
<1>18. CASE ResponsesFinishes
  <2>1. Tell /\ Translates /\ ~ Direct(up, client)
    BY <1>7, <1>18 DEF ResponsesFinishes
  <2>2. Informed'
    BY <1>18, <2>1, ResponsesFinishesConveyed
  <2>3. QED
    BY <1>1, <2>1, <2>2
<1>19. CASE GeminiChunk
  <2>1. Tell /\ Translates /\ ~ Direct(up, client)
    BY <1>7, <1>19 DEF GeminiChunk
  <2>2. Informed'
    BY <1>19, <2>1, GeminiChunkConveyed
  <2>3. QED
    BY <1>1, <2>1, <2>2
<1>20. CASE TextPassesOn
  <2>1. PassingOn /\ PassesTexts /\ PassesIt
    BY <1>4, <1>20 DEF TextPassesOn, PassOn
  <2>2. QED
    BY <1>0, <1>3, <1>20, <2>1, TextPassesCallless
<1>21. CASE TerminalPassesOn
  <2>1. PassingOn /\ PassesTexts /\ PassesIt
    BY <1>4, <1>21 DEF TerminalPassesOn, PassOn
  <2>2. QED
    BY <1>0, <1>3, <1>21, <2>1, TerminalPassesCallless
<1>22. CASE DonePassesOn
  <2>1. PassingOn /\ PassesTexts /\ PassesIt
    BY <1>4, <1>22 DEF DonePassesOn, PassOn
  <2>2. QED
    BY <1>0, <1>3, <1>22, <2>1, DonePassesCallless
<1>23. CASE UpstreamEnds
  <2>1. phase' # "open"
    BY <1>23 DEF UpstreamEnds
  <2>2. QED
    BY <1>0, <1>23, <2>1, EndKeepsContent DEF ContentInv
<1>24. CASE UpstreamBreaks
  <2>1. phase' # "open"
    BY <1>24 DEF UpstreamBreaks
  <2>2. QED
    BY <1>0, <1>24, <2>1, BreakKeepsContent DEF ContentInv
<1>25. QED
  BY <1>8, <1>9, <1>10, <1>11, <1>12, <1>13, <1>14, <1>15, <1>16, <1>17, <1>18, <1>19, <1>20, <1>21, <1>22, <1>23, <1>24
     DEF Next

(* Thinking, text and arguments reach the client once, in order and each   *)
(* in its place: the translators, for one stream by itself.                *)
THEOREM NothingIsMixed == Spec => []NothingMixed
<1>1. Init => ContentInv
  <2> SUFFICES ASSUME Init PROVE ContentInv
    OBVIOUS
  <2>1. StreamInit /\ <<up, client>> \in Chains
    <3>1. PICK c \in Chains : up = c[1] /\ client = c[2]
      BY DEF Init
    <3>2. c = <<up, client>>
      BY <3>1, StreamAssumption
    <3>3. QED
      BY <3>1, <3>2 DEF Init
  <2>2. QED
    BY <2>1, ContentBegins
<1>2. ContentInv /\ [Next]_vars => ContentInv'
  BY ContentStays, ContentStutters
<1>3. ContentInv => NothingMixed
  BY ContentIsRight
<1>4. QED
  BY <1>1, <1>2, <1>3, PTL DEF Spec

(* An answer the provider has finished is finished for the client, once    *)
(* and for the right reason: the last chunks and flush, for one stream.    *)
THEOREM FinishIsReached == Spec => []FinishReachesClient
<1>1. Init => ContentInv
  <2> SUFFICES ASSUME Init PROVE ContentInv
    OBVIOUS
  <2>1. StreamInit /\ <<up, client>> \in Chains
    <3>1. PICK c \in Chains : up = c[1] /\ client = c[2]
      BY DEF Init
    <3>2. c = <<up, client>>
      BY <3>1, StreamAssumption
    <3>3. QED
      BY <3>1, <3>2 DEF Init
  <2>2. QED
    BY <2>1, ContentBegins
<1>2. ContentInv /\ [Next]_vars => ContentInv'
  BY ContentStays, ContentStutters
<1>3. ContentInv => FinishReachesClient
  BY ContentIsRight
<1>4. QED
  BY <1>1, <1>2, <1>3, PTL DEF Spec

(* Every answer of an exchange, one after the other.                       *)
ExchangeContent == streaming \in BOOLEAN /\ IF streaming THEN ContentInv ELSE StreamInit

LEMMA ExchangeContentInductive == ExchangeContent /\ [ExchangeNext]_exchangeVars => ExchangeContent'
<1> SUFFICES ASSUME ExchangeContent, [ExchangeNext]_exchangeVars PROVE ExchangeContent'
  OBVIOUS
<1>0. StreamInit /\ UNCHANGED vars => StreamInit'
  BY DEF StreamInit, vars
<1>1. CASE Talk
  BY <1>0, <1>1 DEF Talk, ExchangeContent
<1>2. CASE AnswerBegins
  <2>1. StreamInit /\ <<up, client>> \in Chains /\ streaming' = TRUE /\ UNCHANGED vars
    BY <1>2 DEF AnswerBegins, ExchangeContent
  <2>2. ContentInv
    BY <2>1, ContentBegins
  <2>3. ContentInv'
    BY <2>1, <2>2, ContentStutters
  <2>4. QED
    BY <2>1, <2>3 DEF ExchangeContent
<1>3. CASE AnswerGoesOn
  <2>1. streaming /\ streaming' = streaming /\ Next /\ ContentInv
    BY <1>3 DEF AnswerGoesOn, ExchangeContent
  <2>2. ContentInv'
    BY <2>1, ContentStays
  <2>3. QED
    BY <2>1, <2>2 DEF ExchangeContent
<1>4. CASE AnswerIsKept
  <2>1. /\ streaming' = FALSE /\ st' = InitState /\ terminalSeen' = FALSE /\ phase' = "open"
        /\ prov' = NewProvider /\ reader' = NewReader /\ said' = <<>>
    BY <1>4 DEF AnswerIsKept
  <2>2. QED
    BY <2>1 DEF ExchangeContent, StreamInit, InitState, NewProvider, NewReader
<1>5. CASE UNCHANGED exchangeVars
  <2>1. UNCHANGED vars /\ streaming' = streaming
    BY <1>5 DEF exchangeVars
  <2>2. ContentInv => ContentInv'
    BY <2>1, ContentStutters
  <2>3. QED
    BY <1>0, <2>1, <2>2 DEF ExchangeContent
<1>6. QED
  BY <1>1, <1>2, <1>3, <1>4, <1>5 DEF ExchangeNext

LEMMA ExchangeContentIsRight ==
  ASSUME ExchangeContent
  PROVE  NothingMixed /\ FinishReachesClient
<1>1. CASE streaming
  BY <1>1, ContentIsRight DEF ExchangeContent
<1>2. CASE ~ streaming
  <2>1. reader = NewReader /\ said = <<>> /\ prov = NewProvider /\ phase = "open"
    BY <1>2 DEF ExchangeContent, StreamInit
  <2>2. reader.ends = <<>> /\ reader.heard = <<>>
    BY <2>1, NewReaderIs
  <2>3. reader.heard = TextIn(said) /\ phase # "ended"
    BY <2>1, <2>2, NothingSaid
  <2>4. Faithful(up, client, phase, reader, prov, said)
    BY <2>2, <2>3, NoEndIsRight
  <2>5. QED
    BY <2>4, RightIs
<1>3. QED
  BY <1>1, <1>2

(* Nothing is mixed in any answer handleChatCore streams, or between two   *)
(* of them.                                                                *)
THEOREM NothingMixedThroughout == ExchangeSpec => []NothingMixed
<1>1. ExchangeInit => ExchangeContent
  BY DEF ExchangeInit, ExchangeContent
<1>2. ExchangeContent => NothingMixed
  BY ExchangeContentIsRight
<1>3. QED
  BY <1>1, <1>2, ExchangeContentInductive, PTL DEF ExchangeSpec

(* The end of every answer handleChatCore streams reaches the client.      *)
THEOREM FinishReachedThroughout == ExchangeSpec => []FinishReachesClient
<1>1. ExchangeInit => ExchangeContent
  BY DEF ExchangeInit, ExchangeContent
<1>2. ExchangeContent => FinishReachesClient
  BY ExchangeContentIsRight
<1>3. QED
  BY <1>1, <1>2, ExchangeContentInductive, PTL DEF ExchangeSpec

=============================================================================
