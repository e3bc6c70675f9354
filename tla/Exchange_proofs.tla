---------------------------- MODULE Exchange_proofs ----------------------------
(***************************************************************************)
(* Theorems about Exchange: what a client reads of a streamed answer is    *)
(* well framed, for any tool calls, pairs of formats and length of the     *)
(* answer.                                                                 *)
(*                                                                         *)
(* The client is a reader whose open items must be the ones the second hop *)
(* believes to have open.  So for each format of a client there is a       *)
(* relation of the translator's state to the reader (InClaude,             *)
(* InResponses, InChat), which every operator of the hop preserves for     *)
(* what it has put out so far.  The first hop must not touch the fields    *)
(* that relation speaks of, and must make chunks the second one can use.   *)
(*                                                                         *)
(* After these theorems, the lemmas on what each operator of the second    *)
(* hop tells the client (ClaudeTold, ResponsesTold, ChatTold), of which    *)
(* ExchangeContents_proofs is made.                                        *)
(***************************************************************************)
EXTENDS Exchange, FiniteSetTheorems, WellFoundedInduction, TLAPS

-----------------------------------------------------------------------------
(* Loops                                                                   *)

LEMMA NatMin ==
  ASSUME NEW T, T \subseteq Nat, T # {}
  PROVE  \E x \in T : \A y \in T : x <= y
<1> DEFINE less == OpToRel(<, Nat)
<1>1. PICK x \in T : \A y \in T : <<y, x>> \notin less
  BY NatLessThanWellFounded, WFMin
<1>2. \A y \in T : ~ (y < x)
  BY <1>1 DEF OpToRel
<1>3. QED
  BY <1>2

(* What holds at first and is kept by each round holds after every round.  *)
LEMMA Kept ==
  ASSUME NEW n \in Nat, NEW D, NEW f, f[0] \in D[0],
         \A i \in 1 .. n : f[i - 1] \in D[i - 1] => f[i] \in D[i]
  PROVE  \A i \in 0 .. n : f[i] \in D[i]
<1> DEFINE wrong == {i \in 0 .. n : f[i] \notin D[i]}
<1>1. ASSUME wrong # {} PROVE FALSE
  <2>1. wrong \subseteq Nat
    OBVIOUS
  <2>2. PICK i \in wrong : \A k \in wrong : i <= k
    <3> HIDE DEF wrong
    <3>1. QED
      BY <1>1, <2>1, NatMin
  <2>3. i \in 1 .. n /\ i - 1 \in 0 .. n /\ ~ (i <= i - 1)
    BY <2>2
  <2>4. f[i - 1] \in D[i - 1]
    BY <2>2, <2>3
  <2>5. QED
    BY <2>2, <2>3, <2>4
<1>2. QED
  BY <1>1

(* A loop whose rounds are functions runs to its end.                      *)
Loop(f, n, b, step) == f = [i \in 0 .. n |-> IF i = 0 THEN b ELSE step[i][f[i - 1]]]

LEMMA Runs ==
  ASSUME NEW n \in Nat, NEW b, NEW step
  PROVE  \E f : Loop(f, n, b, step)
<1> DEFINE Round(f, i) == IF i = 0 THEN b ELSE step[i][f[i - 1]]
           Defined(m) == \E f : f = [i \in 0 .. m |-> Round(f, i)]
<1> SUFFICES \A m \in Nat : Defined(m)
  BY DEF Loop
<1> SUFFICES ASSUME \E m \in Nat : ~ Defined(m) PROVE FALSE
  OBVIOUS
<1> DEFINE holes == {m \in Nat : ~ Defined(m)}
<1>1. PICK m \in holes : \A k \in holes : m <= k
  <2>1. holes \subseteq Nat /\ holes # {}
    OBVIOUS
  <2> HIDE DEF holes
  <2>2. QED
    BY <2>1, NatMin
<1>2. m # 0
  <2> DEFINE f == [i \in 0 .. 0 |-> b]
  <2>1. f = [i \in 0 .. 0 |-> Round(f, i)]
    OBVIOUS
  <2>2. Defined(0)
    BY <2>1
  <2>3. QED
    BY <2>2
<1>3. m \in Nat /\ m - 1 \in Nat /\ Defined(m - 1)
  <2> HIDE DEF Defined
  <2>1. m \in Nat /\ m - 1 \in Nat /\ ~ (m <= m - 1)
    BY <1>1, <1>2
  <2>2. QED
    BY <1>1, <2>1
<1>4. PICK f : f = [i \in 0 .. m - 1 |-> Round(f, i)]
  BY <1>3
<1> DEFINE g == [i \in 0 .. m |-> IF i = m THEN Round(f, m) ELSE f[i]]
<1>5. ASSUME NEW i \in 0 .. m PROVE g[i] = Round(g, i)
  <2>1. CASE i = 0
    BY <1>2, <1>3, <1>4, <2>1
  <2>2. CASE i # 0
    <3>1. i - 1 \in 0 .. m - 1 /\ i - 1 # m /\ i - 1 \in 0 .. m
      BY <1>3, <2>2
    <3>2. g[i - 1] = f[i - 1]
      BY <3>1
    <3>3. CASE i = m
      BY <2>2, <3>2, <3>3
    <3>4. CASE i # m
      <4>1. i \in 0 .. m - 1
        BY <1>3, <3>4
      <4>2. g[i] = f[i] /\ f[i] = Round(f, i)
        BY <1>4, <3>4, <4>1
      <4>3. QED
        BY <2>2, <3>2, <4>2
    <3>5. QED
      BY <3>3, <3>4
  <2>3. QED
    BY <2>1, <2>2
<1>6. g = [i \in 0 .. m |-> Round(g, i)]
  <2>1. g = [i \in 0 .. m |-> g[i]]
    OBVIOUS
  <2> HIDE DEF g
  <2>2. QED
    BY <1>5, <2>1
<1>7. Defined(m)
  <2> HIDE DEF g
  <2>1. QED
    BY <1>6
<1>8. QED
  BY <1>7

(* A loop whose rounds lead from D[i - 1] to D[i].                         *)
LEMMA LoopRuns ==
  ASSUME NEW n \in Nat, NEW b, NEW D, NEW step, b \in D[0],
         \A i \in 1 .. n : \A x \in D[i - 1] : step[i][x] \in D[i]
  PROVE  \E f : Loop(f, n, b, step) /\ \A i \in 0 .. n : f[i] \in D[i]
<1>1. PICK f : Loop(f, n, b, step)
  BY Runs
<1>2. f[0] = b /\ \A i \in 1 .. n : f[i] = step[i][f[i - 1]]
  BY <1>1 DEF Loop
<1>3. f[0] \in D[0] /\ \A i \in 1 .. n : f[i - 1] \in D[i - 1] => f[i] \in D[i]
  BY <1>2
<1>4. \A i \in 0 .. n : f[i] \in D[i]
  BY <1>3, Kept
<1>5. QED
  BY <1>1, <1>4

-----------------------------------------------------------------------------
(* What is put out and read                                                *)

Kinds == {"think", "text", "call"}
Reasons == {"tools", "stop", "completed", "failed"}
Keys == {"block", "msg", "rs", "fc"} \X Int
ToolEntries == [at : Slots, id : Nat, args : Int]

Opens == [type : {"open"}, key : Keys, kind : Kinds, call : Int]
Deltas == [type : {"delta"}, key : Keys, pieces : Seq(Int)]
Closes == [type : {"close"}, key : Keys]
Parts == [type : {"part"}, kind : Kinds, piece : Int]
EntryEvents == [type : {"entry"}, tool : ToolEntries]
Ends == [type : {"end"}, reason : Reasons]
Events == {Begin} \cup Opens \cup Deltas \cup Closes \cup Parts \cup EntryEvents \cup Ends

ItemsRead == [kind : Kinds, call : Int, open : BOOLEAN]
Items == UNION {[K -> ItemsRead] : K \in SUBSET Keys}
Heards == Seq([kind : Kinds, piece : Int])

Readers ==
  [ begun : BOOLEAN, items : Items, index : [Slots -> Nat], known : SUBSET Int,
    heard : Heards, args : [Calls -> Seq(Int)], ends : Seq(Reasons), bad : BOOLEAN ]

LEMMA EventFacts ==
  /\ Begin \in Events
  /\ \A k \in Keys, kind \in Kinds, c \in Int : Open(k, kind, c) \in Opens
  /\ \A k \in Keys, pieces \in Seq(Int) : Delta(k, pieces) \in Deltas
  /\ \A k \in Keys : Close(k) \in Closes
  /\ \A kind \in Kinds, n \in Int : Part(kind, n) \in Parts
  /\ \A t \in ToolEntries : Entry(t) \in EntryEvents
  /\ \A reason \in Reasons : End(reason) \in Ends
BY DEF Events, Open, Opens, Delta, Deltas, Close, Closes, Part, Parts, Entry, EntryEvents, End, Ends

LEMMA ItemsTyped ==
  ASSUME NEW items \in Items
  PROVE  /\ DOMAIN items \subseteq Keys
         /\ items \in [DOMAIN items -> ItemsRead]
         /\ \A k \in DOMAIN items : items[k] \in ItemsRead
BY DEF Items

LEMMA WrongFacts ==
  ASSUME NEW r \in Readers, NEW cond \in BOOLEAN
  PROVE  /\ Wrong(r, cond) \in Readers
         /\ Wrong(r, cond).bad = (r.bad \/ cond)
         /\ Wrong(r, cond).begun = r.begun /\ Wrong(r, cond).items = r.items
         /\ Wrong(r, cond).index = r.index /\ Wrong(r, cond).ends = r.ends
BY DEF Wrong, Readers

LEMMA TakeFacts ==
  ASSUME NEW r \in Readers, NEW kind \in Kinds, NEW c \in Int, NEW pieces \in Seq(Int)
  PROVE  /\ Take(r, kind, c, pieces) \in Readers
         /\ Take(r, kind, c, pieces).bad = r.bad
         /\ Take(r, kind, c, pieces).begun = r.begun /\ Take(r, kind, c, pieces).items = r.items
         /\ Take(r, kind, c, pieces).index = r.index /\ Take(r, kind, c, pieces).ends = r.ends
<1>1. CASE kind = "call"
  <2> DEFINE a == [r.args EXCEPT ![c] = @ \o pieces]
  <2>1. a \in [Calls -> Seq(Int)]
    <3>1. r.args \in [Calls -> Seq(Int)]
      BY DEF Readers
    <3>2. \A d \in Calls : r.args[d] \o pieces \in Seq(Int)
      BY <3>1
    <3>3. QED
      BY <3>1, <3>2
  <2>2. Take(r, kind, c, pieces) = [r EXCEPT !.args = a]
    BY <1>1 DEF Take
  <2> HIDE DEF a
  <2>3. QED
    BY <2>1, <2>2 DEF Readers
<1>2. CASE kind # "call"
  <2> DEFINE h == r.heard \o Hear(kind, pieces)
  <2>1. h \in Heards
    <3>1. r.heard \in Heards
      BY DEF Readers
    <3>2. Hear(kind, pieces) \in Heards
      <4>1. Len(pieces) \in Nat /\ DOMAIN pieces = 1 .. Len(pieces) /\ \A i \in 1 .. Len(pieces) : pieces[i] \in Int
        OBVIOUS
      <4>2. Hear(kind, pieces) = [i \in 1 .. Len(pieces) |-> [kind |-> kind, piece |-> pieces[i]]]
        BY <4>1 DEF Hear
      <4> DEFINE what(i) == [kind |-> kind, piece |-> pieces[i]]
      <4>3. \A i \in 1 .. Len(pieces) : what(i) \in [kind : Kinds, piece : Int]
        BY <4>1
      <4> HIDE DEF what
      <4>4. [i \in 1 .. Len(pieces) |-> what(i)] \in Seq([kind : Kinds, piece : Int])
        BY <4>1, <4>3
      <4>5. QED
        BY <4>2, <4>4 DEF what, Heards
    <3>3. QED
      BY <3>1, <3>2 DEF Heards
  <2>2. Take(r, kind, c, pieces) = [r EXCEPT !.heard = h]
    BY <1>2 DEF Take
  <2> HIDE DEF h
  <2>3. QED
    BY <2>1, <2>2 DEF Readers
<1>3. QED
  BY <1>1, <1>2

(* A reader for whom nothing has been wrong or at its end, who knows the   *)
(* items K, of which O are open.                                           *)
Sees(r, begun, K, O) ==
  /\ r \in Readers /\ ~ r.bad /\ r.ends = <<>> /\ r.begun = begun
  /\ DOMAIN r.items = K /\ OpenItems(r) = O

Heard(r) == r \in Readers /\ ~ r.bad /\ \E reason \in Reasons : r.ends = <<reason>>

Unless(r, e) == r.ends # <<>> \/ (e.type \notin {"begin", "end"} /\ ~ r.begun)

LEMMA ReadIs ==
  ASSUME NEW r, NEW e, NEW q \in Readers, q = ReadInOrder(r, e)
  PROVE  /\ Read(r, e) \in Readers
         /\ Read(r, e).bad = (q.bad \/ Unless(r, e))
         /\ Read(r, e).begun = q.begun /\ Read(r, e).items = q.items
         /\ Read(r, e).index = q.index /\ Read(r, e).ends = q.ends
<1>1. Read(r, e) = Wrong(q, Unless(r, e)) /\ Unless(r, e) \in BOOLEAN
  BY DEF Read, Unless
<1>2. QED
  BY <1>1, WrongFacts

LEMMA ReadBegin ==
  ASSUME NEW r \in Readers
  PROVE  /\ Read(r, Begin) \in Readers
         /\ \A K, O : Sees(r, FALSE, K, O) => Sees(Read(r, Begin), TRUE, K, O)
         /\ Read(r, Begin).index = r.index
<1> DEFINE p == [r EXCEPT !.begun = TRUE]
           q == Wrong(p, r.begun)
<1>1. p \in Readers /\ p.bad = r.bad /\ p.begun = TRUE /\ p.items = r.items /\ p.index = r.index /\ p.ends = r.ends
  BY DEF Readers
<1>2. r.begun \in BOOLEAN
  BY DEF Readers
<1> HIDE DEF p
<1>3. /\ q \in Readers /\ q.bad = (r.bad \/ r.begun)
      /\ q.begun = TRUE /\ q.items = r.items /\ q.index = r.index /\ q.ends = r.ends
  BY <1>1, <1>2, WrongFacts
<1>4. q = ReadInOrder(r, Begin) /\ Unless(r, Begin) = (r.ends # <<>>)
  BY DEF ReadInOrder, Begin, p, Unless
<1> DEFINE e == Begin
<1> HIDE DEF q, e
<1>5. /\ Read(r, e) \in Readers /\ Read(r, e).bad = (q.bad \/ Unless(r, e))
      /\ Read(r, e).begun = q.begun /\ Read(r, e).items = q.items
      /\ Read(r, e).index = q.index /\ Read(r, e).ends = q.ends
  BY <1>3, <1>4, ReadIs DEF e
<1>6. Unless(r, e) = (r.ends # <<>>)
  BY <1>4 DEF e
<1>7. QED
  BY <1>3, <1>5, <1>6 DEF Sees, OpenItems, e

LEMMA ReadOpen ==
  ASSUME NEW r \in Readers, NEW k \in Keys, NEW kind \in Kinds, NEW c \in Int
  PROVE  /\ Read(r, Open(k, kind, c)) \in Readers
         /\ \A K, O : Sees(r, TRUE, K, O) /\ k \notin K
                        => Sees(Read(r, Open(k, kind, c)), TRUE, K \cup {k}, O \cup {k})
<1> DEFINE e == Open(k, kind, c)
           item == [kind |-> kind, call |-> c, open |-> TRUE]
           items == [x \in {k} \cup DOMAIN r.items |-> IF x = k THEN item ELSE r.items[x]]
           known == IF kind = "call" THEN r.known \cup {c} ELSE r.known
           p == [r EXCEPT !.items = items, !.known = known]
           twice == k \in DOMAIN r.items
           q == Wrong(p, twice)
<1>1. r.items \in Items /\ r.known \in SUBSET Int
  BY DEF Readers
<1>2. twice \in BOOLEAN
  OBVIOUS
<1>3. items \in Items /\ DOMAIN items = {k} \cup DOMAIN r.items
  <2>1. item \in ItemsRead
    BY DEF ItemsRead
  <2>2. DOMAIN r.items \subseteq Keys /\ \A x \in DOMAIN r.items : r.items[x] \in ItemsRead
    BY <1>1, ItemsTyped
  <2> HIDE DEF item
  <2>3. items \in [{k} \cup DOMAIN r.items -> ItemsRead]
    BY <2>1, <2>2
  <2>4. QED
    BY <2>2, <2>3 DEF Items
<1>4. known \in SUBSET Int
  BY <1>1
<1>5. p = [[r EXCEPT !.items = items] EXCEPT !.known = known]
  OBVIOUS
<1>6. e.type = "open" /\ e.key = k /\ e.kind = kind /\ e.call = c
  BY DEF Open
<1>7. q = ReadInOrder(r, e)
  BY <1>6 DEF ReadInOrder
<1>8. \A x \in DOMAIN items : items[x].open <=> x = k \/ (x \in DOMAIN r.items /\ r.items[x].open)
  BY <1>3
<1> HIDE DEF items, known
<1>9. p \in Readers /\ p.bad = r.bad /\ p.begun = r.begun /\ p.items = items /\ p.ends = r.ends
  BY <1>3, <1>4 DEF Readers
<1> HIDE DEF p, twice
<1>10. /\ q \in Readers /\ q.bad = (r.bad \/ twice)
       /\ q.begun = r.begun /\ q.items = items /\ q.ends = r.ends
  BY <1>2, <1>9, WrongFacts
<1> HIDE DEF q
<1>11. /\ Read(r, e) \in Readers /\ Read(r, e).bad = (q.bad \/ Unless(r, e))
       /\ Read(r, e).begun = r.begun /\ Read(r, e).items = items /\ Read(r, e).ends = r.ends
  BY <1>7, <1>10, ReadIs
<1>12. Unless(r, e) = (r.ends # <<>> \/ ~ r.begun)
  BY <1>6 DEF Unless
<1> HIDE DEF e
<1>13. ASSUME NEW K, NEW O, Sees(r, TRUE, K, O), k \notin K
       PROVE  Sees(Read(r, e), TRUE, K \cup {k}, O \cup {k})
  <2>1. ~ Read(r, e).bad /\ Read(r, e).ends = <<>> /\ Read(r, e).begun = TRUE
    BY <1>10, <1>11, <1>12, <1>13 DEF Sees, twice
  <2>2. DOMAIN Read(r, e).items = K \cup {k}
    BY <1>3, <1>11, <1>13 DEF Sees
  <2>3. OpenItems(Read(r, e)) = O \cup {k}
    BY <1>3, <1>8, <1>11, <1>13 DEF Sees, OpenItems
  <2>4. QED
    BY <1>11, <2>1, <2>2, <2>3 DEF Sees
<1>14. QED
  BY <1>11, <1>13 DEF e

LEMMA ReadDelta ==
  ASSUME NEW r \in Readers, NEW k \in Keys, NEW pieces \in Seq(Int)
  PROVE  /\ Read(r, Delta(k, pieces)) \in Readers
         /\ \A K, O : Sees(r, TRUE, K, O) /\ k \in K /\ (k \in O \/ k \in Resumable)
                        => Sees(Read(r, Delta(k, pieces)), TRUE, K, O)
<1> DEFINE e == Delta(k, pieces)
           item == r.items[k]
           p == Take(r, item.kind, item.call, pieces)
           shut == ~ item.open /\ k \notin Resumable
           q == Wrong(p, shut)
<1>1. r.items \in Items
  BY DEF Readers
<1>2. e.type = "delta" /\ e.key = k /\ e.pieces = pieces
  BY DEF Delta
<1>3. Unless(r, e) = (r.ends # <<>> \/ ~ r.begun)
  BY <1>2 DEF Unless
<1>4. CASE k \notin DOMAIN r.items
  <2>1. Item(r, k) = NoItem
    BY <1>4 DEF Item
  <2>2. ReadInOrder(r, e) = Wrong(r, TRUE)
    BY <1>2, <2>1 DEF ReadInOrder
  <2>3. Wrong(r, TRUE) \in Readers
    BY WrongFacts
  <2> HIDE DEF e
  <2>4. Read(r, e) \in Readers
    BY <2>2, <2>3, ReadIs
  <2>5. QED
    BY <1>4, <2>4 DEF Sees, e
<1>5. CASE k \in DOMAIN r.items
  <2>1. item \in ItemsRead
    BY <1>1, <1>5, ItemsTyped
  <2>2. item.kind \in Kinds /\ item.call \in Int /\ item.open \in BOOLEAN /\ item # NoItem
    BY <2>1 DEF ItemsRead, Kinds, NoItem
  <2>3. Item(r, k) = item
    BY <1>5 DEF Item
  <2>4. ReadInOrder(r, e) = q
    BY <1>2, <2>2, <2>3 DEF ReadInOrder
  <2> HIDE DEF item
  <2>5. /\ p \in Readers /\ p.bad = r.bad /\ p.begun = r.begun /\ p.items = r.items /\ p.ends = r.ends
    BY <2>2, TakeFacts
  <2> HIDE DEF p
  <2>6. q \in Readers /\ q.bad = (r.bad \/ shut) /\ q.begun = r.begun /\ q.items = r.items /\ q.ends = r.ends
    BY <2>2, <2>5, WrongFacts
  <2> HIDE DEF q, e
  <2>7. /\ Read(r, e) \in Readers /\ Read(r, e).bad = (q.bad \/ Unless(r, e))
        /\ Read(r, e).begun = r.begun /\ Read(r, e).items = r.items /\ Read(r, e).ends = r.ends
    BY <2>4, <2>6, ReadIs
  <2>8. \A K, O : Sees(r, TRUE, K, O) /\ (k \in O \/ k \in Resumable) => ~ shut
    BY <1>5 DEF Sees, OpenItems, item
  <2> HIDE DEF shut
  <2>9. QED
    BY <1>3, <2>6, <2>7, <2>8 DEF Sees, OpenItems, e
<1>6. QED
  BY <1>4, <1>5

LEMMA ReadClose ==
  ASSUME NEW r \in Readers, NEW k \in Keys
  PROVE  /\ Read(r, Close(k)) \in Readers
         /\ \A K, O : Sees(r, TRUE, K, O) /\ k \in O => Sees(Read(r, Close(k)), TRUE, K, O \ {k})
<1> DEFINE e == Close(k)
           items == [r.items EXCEPT ![k].open = FALSE]
           q == [r EXCEPT !.items = items]
<1>1. r.items \in Items
  BY DEF Readers
<1>2. e.type = "close" /\ e.key = k
  BY DEF Close
<1>3. Unless(r, e) = (r.ends # <<>> \/ ~ r.begun)
  BY <1>2 DEF Unless
<1>4. CASE ~ Item(r, k).open
  <2>1. ReadInOrder(r, e) = Wrong(r, TRUE)
    BY <1>2, <1>4 DEF ReadInOrder
  <2>2. Wrong(r, TRUE) \in Readers
    BY WrongFacts
  <2>3. \A K, O : Sees(r, TRUE, K, O) => k \notin O
    BY <1>4 DEF Sees, OpenItems, Item
  <2> HIDE DEF e
  <2>4. Read(r, e) \in Readers
    BY <2>1, <2>2, ReadIs
  <2>5. QED
    BY <2>3, <2>4 DEF e
<1>5. CASE Item(r, k).open
  <2>1. k \in DOMAIN r.items
    BY <1>5 DEF Item, NoItem
  <2>2. /\ DOMAIN r.items \subseteq Keys /\ r.items \in [DOMAIN r.items -> ItemsRead]
        /\ \A x \in DOMAIN r.items : r.items[x] \in ItemsRead
    BY <1>1, ItemsTyped
  <2>3. /\ items \in [DOMAIN r.items -> ItemsRead]
        /\ \A x \in DOMAIN r.items : items[x].open <=> x # k /\ r.items[x].open
    BY <2>1, <2>2 DEF ItemsRead
  <2>4. items \in Items /\ DOMAIN items = DOMAIN r.items
    BY <2>2, <2>3 DEF Items
  <2>5. ReadInOrder(r, e) = q
    BY <1>2, <1>5 DEF ReadInOrder
  <2> HIDE DEF items
  <2>6. q \in Readers /\ q.bad = r.bad /\ q.begun = r.begun /\ q.items = items /\ q.ends = r.ends
    BY <2>4 DEF Readers
  <2> HIDE DEF q, e
  <2>7. /\ Read(r, e) \in Readers /\ Read(r, e).bad = (q.bad \/ Unless(r, e))
        /\ Read(r, e).begun = r.begun /\ Read(r, e).items = items /\ Read(r, e).ends = r.ends
    BY <2>5, <2>6, ReadIs
  <2>8. ASSUME NEW K, NEW O, Sees(r, TRUE, K, O)
        PROVE  Sees(Read(r, e), TRUE, K, O \ {k})
    <3>1. OpenItems(Read(r, e)) = O \ {k}
      BY <2>3, <2>4, <2>7, <2>8 DEF Sees, OpenItems
    <3>2. QED
      BY <1>3, <2>4, <2>6, <2>7, <2>8, <3>1 DEF Sees
  <2>9. QED
    BY <2>7, <2>8 DEF e
<1>6. QED
  BY <1>4, <1>5

LEMMA ReadEnd ==
  ASSUME NEW r \in Readers, NEW reason \in Reasons
  PROVE  /\ Read(r, End(reason)) \in Readers /\ Read(r, End(reason)).begun = r.begun
         /\ \A begun, K : Sees(r, begun, K, {}) => Heard(Read(r, End(reason)))
<1> DEFINE e == End(reason)
           p == [r EXCEPT !.ends = Append(@, reason)]
           q == Wrong(p, OpenItems(r) # {})
<1>1. e.type = "end" /\ e.reason = reason
  BY DEF End
<1>2. Append(r.ends, reason) \in Seq(Reasons) /\ (r.ends = <<>> => Append(r.ends, reason) = <<reason>>)
  <2>1. Append(r.ends, reason) \in Seq(Reasons)
    BY DEF Readers
  <2>2. Append(<<>>, reason) = <<reason>>
    OBVIOUS
  <2>3. QED
    BY <2>1, <2>2
<1>3. p \in Readers /\ p.bad = r.bad /\ p.begun = r.begun /\ (r.ends = <<>> => p.ends = <<reason>>)
  BY <1>2 DEF Readers
<1>4. q = ReadInOrder(r, e)
  BY <1>1 DEF ReadInOrder
<1> HIDE DEF p
<1>5. q \in Readers /\ q.bad = (r.bad \/ OpenItems(r) # {}) /\ q.begun = r.begun /\ q.ends = p.ends
  BY <1>3, WrongFacts
<1>6. Unless(r, e) = (r.ends # <<>>)
  BY <1>1 DEF Unless
<1> HIDE DEF q, e
<1>7. /\ Read(r, e) \in Readers /\ Read(r, e).bad = (q.bad \/ Unless(r, e))
      /\ Read(r, e).begun = r.begun /\ Read(r, e).ends = p.ends
  BY <1>4, <1>5, ReadIs
<1>8. QED
  BY <1>3, <1>5, <1>6, <1>7 DEF Sees, Heard, e

LEMMA ReadPart ==
  ASSUME NEW r \in Readers, NEW kind \in Kinds, NEW n \in Int
  PROVE  /\ Read(r, Part(kind, n)) \in Readers
         /\ \A K, O : Sees(r, TRUE, K, O) => Sees(Read(r, Part(kind, n)), TRUE, K, O)
         /\ Read(r, Part(kind, n)).index = r.index
<1> DEFINE e == Part(kind, n)
           q == IF n > 0 THEN Take(r, kind, Nothing, <<n>>) ELSE r
<1>1. e.type = "part" /\ e.kind = kind /\ e.piece = n
  BY DEF Part
<1>2. <<n>> \in Seq(Int) /\ Nothing \in Int
  BY DEF Nothing
<1>3. /\ q \in Readers /\ q.bad = r.bad /\ q.begun = r.begun
      /\ q.items = r.items /\ q.index = r.index /\ q.ends = r.ends
  BY <1>2, TakeFacts
<1>4. q = ReadInOrder(r, e)
  BY <1>1 DEF ReadInOrder
<1>5. Unless(r, e) = (r.ends # <<>> \/ ~ r.begun)
  BY <1>1 DEF Unless
<1> HIDE DEF q, e
<1>6. /\ Read(r, e) \in Readers /\ Read(r, e).bad = (q.bad \/ Unless(r, e))
      /\ Read(r, e).begun = r.begun /\ Read(r, e).items = r.items
      /\ Read(r, e).index = r.index /\ Read(r, e).ends = r.ends
  BY <1>3, <1>4, ReadIs
<1>7. QED
  BY <1>3, <1>5, <1>6 DEF Sees, OpenItems, e

LEMMA ReadEntry ==
  ASSUME NEW r \in Readers, NEW t \in ToolEntries
  PROVE  /\ Read(r, Entry(t)) \in Readers
         /\ \A K, O : Sees(r, TRUE, K, O) /\ (t.id # Nothing \/ r.index[t.at] # Nothing)
                        => Sees(Read(r, Entry(t)), TRUE, K, O)
         /\ (t.id # Nothing \/ r.index[t.at] # Nothing)
              => /\ Read(r, Entry(t)).index[t.at] # Nothing
                 /\ \A i \in Slots : r.index[i] # Nothing => Read(r, Entry(t)).index[i] # Nothing
<1> DEFINE e == Entry(t)
           c == IF t.id # Nothing THEN t.id ELSE r.index[t.at]
           index == [r.index EXCEPT ![t.at] = c]
           p == [r EXCEPT !.index = index, !.known = @ \cup {c}]
           q == IF c = Nothing THEN Wrong(r, TRUE)
                ELSE IF t.args = Nothing THEN p ELSE Take(p, "call", c, <<t.args>>)
<1>1. t.at \in Slots /\ t.id \in Nat /\ t.args \in Int /\ r.index \in [Slots -> Nat] /\ r.known \in SUBSET Int
  BY DEF ToolEntries, Readers
<1>2. c \in Nat /\ c \in Int
  BY <1>1
<1>3. e.type = "entry" /\ e.tool = t
  BY DEF Entry
<1>4. q = ReadInOrder(r, e)
  BY <1>3 DEF ReadInOrder
<1>5. Unless(r, e) = (r.ends # <<>> \/ ~ r.begun)
  BY <1>3 DEF Unless
<1>6. /\ index \in [Slots -> Nat] /\ index[t.at] = c
      /\ \A i \in Slots : r.index[i] # Nothing /\ c # Nothing => index[i] # Nothing
  BY <1>1, <1>2
<1>7. (c = Nothing) = ~ (t.id # Nothing \/ r.index[t.at] # Nothing)
  OBVIOUS
<1>8. p = [[r EXCEPT !.index = index] EXCEPT !.known = r.known \cup {c}]
  OBVIOUS
<1>9. r.known \cup {c} \in SUBSET Int
  BY <1>1, <1>2
<1> HIDE DEF index, c
<1>10. /\ p \in Readers /\ p.bad = r.bad /\ p.begun = r.begun /\ p.items = r.items
       /\ p.index = index /\ p.ends = r.ends
  BY <1>6, <1>9 DEF Readers
<1> HIDE DEF p
<1>11. <<t.args>> \in Seq(Int) /\ "call" \in Kinds
  BY <1>1 DEF Kinds
<1>12. /\ q \in Readers
       /\ c # Nothing => /\ q.bad = r.bad /\ q.begun = r.begun /\ q.items = r.items
                         /\ q.index = index /\ q.ends = r.ends
  <2>1. CASE c = Nothing
    BY <2>1, WrongFacts
  <2>2. CASE c # Nothing /\ t.args = Nothing
    BY <1>10, <2>2
  <2>3. CASE c # Nothing /\ t.args # Nothing
    BY <1>2, <1>10, <1>11, <2>3, TakeFacts
  <2>4. QED
    BY <2>1, <2>2, <2>3
<1> HIDE DEF q, e
<1>13. /\ Read(r, e) \in Readers /\ Read(r, e).bad = (q.bad \/ Unless(r, e))
       /\ Read(r, e).begun = q.begun /\ Read(r, e).items = q.items
       /\ Read(r, e).index = q.index /\ Read(r, e).ends = q.ends
  BY <1>4, <1>12, ReadIs
<1>14. QED
  BY <1>5, <1>6, <1>7, <1>12, <1>13 DEF Sees, OpenItems, e

LEMMA ReadTyped ==
  ASSUME NEW r \in Readers, NEW e \in Events
  PROVE  Read(r, e) \in Readers
<1>1. CASE e = Begin
  BY <1>1, ReadBegin
<1>2. ASSUME e \in Opens PROVE Read(r, e) \in Readers
  <2>1. e = Open(e.key, e.kind, e.call) /\ e.key \in Keys /\ e.kind \in Kinds /\ e.call \in Int
    BY <1>2 DEF Opens, Open
  <2>2. QED
    BY <2>1, ReadOpen
<1>3. ASSUME e \in Deltas PROVE Read(r, e) \in Readers
  <2>1. e = Delta(e.key, e.pieces) /\ e.key \in Keys /\ e.pieces \in Seq(Int)
    BY <1>3 DEF Deltas, Delta
  <2>2. QED
    BY <2>1, ReadDelta
<1>4. ASSUME e \in Closes PROVE Read(r, e) \in Readers
  <2>1. e = Close(e.key) /\ e.key \in Keys
    BY <1>4 DEF Closes, Close
  <2>2. QED
    BY <2>1, ReadClose
<1>5. ASSUME e \in Parts PROVE Read(r, e) \in Readers
  <2>1. e = Part(e.kind, e.piece) /\ e.kind \in Kinds /\ e.piece \in Int
    BY <1>5 DEF Parts, Part
  <2>2. QED
    BY <2>1, ReadPart
<1>6. ASSUME e \in EntryEvents PROVE Read(r, e) \in Readers
  <2>1. e = Entry(e.tool) /\ e.tool \in ToolEntries
    BY <1>6 DEF EntryEvents, Entry
  <2>2. QED
    BY <2>1, ReadEntry
<1>7. ASSUME e \in Ends PROVE Read(r, e) \in Readers
  <2>1. e = End(e.reason) /\ e.reason \in Reasons
    BY <1>7 DEF Ends, End
  <2>2. QED
    BY <2>1, ReadEnd
<1>8. QED
  BY <1>1, <1>2, <1>3, <1>4, <1>5, <1>6, <1>7 DEF Events

(* What a reader has read after the events out.                            *)
After(r, out) == Fold(Read, r, out)

ReadOneByOne(g, r, out) ==
  /\ After(r, out) = g[Len(out)] /\ g[0] = r
  /\ \A i \in 1 .. Len(out) : g[i] = Read(g[i - 1], out[i])
  /\ \A i \in 0 .. Len(out) : g[i] \in Readers

LEMMA ReadsAll ==
  ASSUME NEW r \in Readers, NEW out \in Seq(Events)
  PROVE  \E g : ReadOneByOne(g, r, out)
<1> DEFINE n == Len(out)
           step == [i \in 1 .. n |-> [x \in Readers |-> Read(x, out[i])]]
           D == [i \in 0 .. n |-> Readers]
           Reads(f) == f = [i \in 0 .. n |-> IF i = 0 THEN r ELSE Read(f[i - 1], out[i])]
<1>1. n \in Nat /\ \A i \in 1 .. n : out[i] \in Events
  OBVIOUS
<1>2. \A i \in 1 .. n : \A x \in Readers : step[i][x] = Read(x, out[i]) /\ Read(x, out[i]) \in Readers
  BY <1>1, ReadTyped
<1>3. \A i \in 1 .. n : D[i - 1] = Readers /\ D[i] = Readers
  BY <1>1
<1>4. r \in D[0]
  BY <1>1
<1>5. \E f : Reads(f)
  <2> HIDE DEF step, D, n
  <2>0. \A i \in 1 .. n : \A x \in D[i - 1] : step[i][x] \in D[i]
    <3> TAKE i \in 1 .. n
    <3> TAKE x \in D[i - 1]
    <3>1. x \in Readers
      BY <1>3
    <3>2. QED
      BY <1>2, <1>3, <3>1
  <2>1. PICK f : Loop(f, n, r, step) /\ \A i \in 0 .. n : f[i] \in D[i]
    BY <1>1, <1>4, <2>0, LoopRuns
  <2>2. \A i \in 0 .. n : f[i] \in Readers
    BY <2>1 DEF D
  <2>3. \A i \in 0 .. n : i # 0 => step[i][f[i - 1]] = Read(f[i - 1], out[i])
    <3> TAKE i \in 0 .. n
    <3> HAVE i # 0
    <3>1. i \in 1 .. n /\ i - 1 \in 0 .. n
      BY <1>1
    <3>2. QED
      BY <1>2, <2>2, <3>1
  <2>4. [i \in 0 .. n |-> IF i = 0 THEN r ELSE step[i][f[i - 1]]]
          = [i \in 0 .. n |-> IF i = 0 THEN r ELSE Read(f[i - 1], out[i])]
    BY <2>3
  <2>5. QED
    BY <2>1, <2>4 DEF Loop
<1>6. PICK g : Reads(g) /\ After(r, out) = g[n]
  BY <1>5 DEF After, Fold
<1>7. g[0] = r /\ \A i \in 1 .. n : g[i] = Read(g[i - 1], out[i])
  BY <1>1, <1>6
<1>8. g[0] \in D[0] /\ \A i \in 1 .. n : g[i - 1] \in D[i - 1] => g[i] \in D[i]
  BY <1>1, <1>2, <1>3, <1>4, <1>7
<1> HIDE DEF n
<1>9. \A i \in 0 .. n : g[i] \in D[i]
  BY <1>1, <1>8, Kept
<1>10. QED
  BY <1>6, <1>7, <1>9 DEF n, ReadOneByOne

LEMMA AfterTyped ==
  ASSUME NEW r \in Readers, NEW out \in Seq(Events)
  PROVE  After(r, out) \in Readers
<1>1. PICK g : ReadOneByOne(g, r, out)
  BY ReadsAll
<1>2. Len(out) \in 0 .. Len(out)
  OBVIOUS
<1>3. QED
  BY <1>1, <1>2 DEF ReadOneByOne

LEMMA AfterNone ==
  ASSUME NEW r \in Readers
  PROVE  After(r, <<>>) = r
<1> DEFINE none == <<>>
<1>1. none \in Seq(Events) /\ Len(none) = 0
  OBVIOUS
<1> HIDE DEF none
<1>2. PICK g : ReadOneByOne(g, r, none)
  BY <1>1, ReadsAll
<1>3. QED
  BY <1>1, <1>2 DEF ReadOneByOne, none

LEMMA AfterMore ==
  ASSUME NEW r \in Readers, NEW out \in Seq(Events), NEW e \in Events
  PROVE  After(r, Append(out, e)) = Read(After(r, out), e)
<1> DEFINE n == Len(out)
           more == Append(out, e)
<1>1. /\ n \in Nat /\ more \in Seq(Events) /\ Len(more) = n + 1 /\ more[n + 1] = e
      /\ \A i \in 1 .. n : more[i] = out[i]
  OBVIOUS
<1>0. PICK p : ReadOneByOne(p, r, out)
  BY ReadsAll
<1>2. PICK g : After(r, out) = g[n] /\ g[0] = r /\ \A i \in 1 .. n : g[i] = Read(g[i - 1], out[i])
  BY <1>0 DEF ReadOneByOne
<1> HIDE DEF more
<1>3. PICK h : ReadOneByOne(h, r, more)
  BY <1>1, ReadsAll
<1>4. /\ After(r, more) = h[n + 1] /\ h[0] = r
      /\ \A i \in 1 .. n + 1 : h[i] = Read(h[i - 1], more[i])
  BY <1>1, <1>3 DEF ReadOneByOne
<1> DEFINE D == [i \in 0 .. n |-> {g[i]}]
<1>5. h[0] \in D[0] /\ \A i \in 1 .. n : h[i - 1] \in D[i - 1] => h[i] \in D[i]
  <2>1. h[0] \in D[0]
    BY <1>1, <1>2, <1>4
  <2>2. ASSUME NEW i \in 1 .. n, h[i - 1] \in D[i - 1] PROVE h[i] \in D[i]
    <3>1. h[i - 1] = g[i - 1] /\ i \in 1 .. n + 1
      BY <1>1, <2>2
    <3>2. h[i] = g[i]
      BY <1>1, <1>2, <1>4, <3>1
    <3>3. QED
      BY <1>1, <3>2
  <2>3. QED
    BY <2>1, <2>2
<1>6. \A i \in 0 .. n : h[i] \in D[i]
  <2> HIDE DEF D, n
  <2>1. QED
    BY <1>1, <1>5, Kept
<1>7. h[n] = g[n] /\ n + 1 \in 1 .. n + 1 /\ (n + 1) - 1 = n
  BY <1>1, <1>6
<1>8. QED
  BY <1>1, <1>2, <1>4, <1>7 DEF more

-----------------------------------------------------------------------------
(* The state of the translation                                            *)

ToolsUsed == {NoTool} \cup [call : Int, at : Nat]
Numbers == Nat \cup {NoBlock}

State ==
  [ begun : BOOLEAN, started : BOOLEAN, nextBlock : Nat, block : [{"think", "text"} -> Numbers],
    toolCalls : [Slots -> ToolsUsed], argBuf : [Slots -> Seq(Int)], toolIndex : Nat,
    finishSent : BOOLEAN, current : Int, respIndex : [Calls -> Int], argsEmitted : SUBSET Int,
    thinkingBlock : Int, serverBlock : Int, functionIndex : Nat, inThinking : BOOLEAN,
    reasoning : {"none", "open", "done"}, message : {"none", "open", "done"},
    funcIds : [Slots -> Int], funcAdded : SUBSET Slots, funcDone : SUBSET Slots, completed : BOOLEAN ]

Results == [st : State, out : Seq(Events)]
With(s, out) == [st |-> s, out |-> out]

LEMMA WithFacts ==
  ASSUME NEW s \in State, NEW out \in Seq(Events)
  PROVE  With(s, out) \in Results /\ With(s, out).st = s /\ With(s, out).out = out
BY DEF With, Results

LEMMA EmitFacts ==
  ASSUME NEW r \in Results, NEW e \in Events
  PROVE  /\ Emit(r, e) = With(r.st, Append(r.out, e))
         /\ Emit(r, e) \in Results /\ Emit(r, e).st = r.st /\ Emit(r, e).out = Append(r.out, e)
         /\ Append(r.out, e) \in Seq(Events)
         /\ \A rd \in Readers : After(rd, Append(r.out, e)) = Read(After(rd, r.out), e)
<1>1. r.st \in State /\ r.out \in Seq(Events) /\ r = With(r.st, r.out)
  BY DEF Results, With
<1>2. Append(r.out, e) \in Seq(Events)
  BY <1>1
<1>3. Emit(r, e) = With(r.st, Append(r.out, e))
  BY <1>1, SMTT(30) DEF Emit, With
<1>4. \A rd \in Readers : After(rd, Append(r.out, e)) = Read(After(rd, r.out), e)
  BY <1>1, AfterMore
<1>5. /\ With(r.st, Append(r.out, e)) \in Results /\ With(r.st, Append(r.out, e)).st = r.st
      /\ With(r.st, Append(r.out, e)).out = Append(r.out, e)
  BY <1>1, <1>2, WithFacts
<1>6. QED
  BY <1>2, <1>3, <1>4, <1>5

(* What the second hop leaves to the first.                                *)
Frame(s, t) ==
  /\ t.toolIndex = s.toolIndex /\ t.finishSent = s.finishSent
  /\ t.functionIndex = s.functionIndex /\ t.respIndex = s.respIndex
  /\ t.started = s.started /\ t.current = s.current /\ t.argsEmitted = s.argsEmitted
  /\ t.thinkingBlock = s.thinkingBlock /\ t.serverBlock = s.serverBlock

LEMMA FrameIsTransitive ==
  ASSUME NEW s, NEW t, NEW u, Frame(s, t), Frame(t, u)
  PROVE  Frame(s, u)
BY DEF Frame

-----------------------------------------------------------------------------
(* A client of Claude Messages                                             *)

Blocks(S) == {Block(n) : n \in S}

LEMMA BlockFacts ==
  /\ \A n \in Nat : Block(n) \in Keys
  /\ \A m, n : Block(m) = Block(n) => m = n
  /\ \A S, n : Block(n) \in Blocks(S) <=> n \in S
  /\ \A S, n : Blocks(S \cup {n}) = Blocks(S) \cup {Block(n)}
  /\ \A S, n : Blocks(S \ {n}) = Blocks(S) \ {Block(n)}
<1>1. \A m, n : Block(m) = Block(n) => m = n
  BY DEF Block
<1>2. \A n \in Nat : Block(n) \in Keys
  BY DEF Block, Keys
<1>3. QED
  BY <1>1, <1>2 DEF Blocks

Made(s) == 0 .. s.nextBlock - 1
OpenNow(s) ==
  {n \in Made(s) : n = s.block["think"] \/ n = s.block["text"] \/ \E i \in Slots : n = s.toolCalls[i].at}

BlocksApart(s) ==
  /\ s.block["think"] < s.nextBlock /\ s.block["text"] < s.nextBlock
  /\ s.block["think"] # NoBlock => s.block["think"] # s.block["text"]
  /\ \A i \in Slots : s.toolCalls[i].at # NoBlock =>
       /\ s.toolCalls[i].at < s.nextBlock
       /\ s.toolCalls[i].at # s.block["think"] /\ s.toolCalls[i].at # s.block["text"]
       /\ \A j \in Slots : i # j => s.toolCalls[i].at # s.toolCalls[j].at

InClaude(s, rd) == BlocksApart(s) /\ Sees(rd, s.begun, Blocks(Made(s)), Blocks(OpenNow(s)))

TellsClaude(rd, r) == r \in Results /\ r.st.begun /\ InClaude(r.st, After(rd, r.out))

LEMMA ClaudeBegun ==
  ASSUME NEW rd \in Readers, NEW r \in Results, InClaude(r.st, After(rd, r.out))
  PROVE  /\ TellsClaude(rd, MessageStart(r))
         /\ Frame(r.st, MessageStart(r).st) /\ MessageStart(r).st.toolCalls = r.st.toolCalls
<1> DEFINE s == [r.st EXCEPT !.begun = TRUE]
<1>1. r.st \in State /\ r.out \in Seq(Events)
  BY DEF Results
<1>2. CASE r.st.begun
  BY <1>2 DEF MessageStart, TellsClaude, Frame
<1>3. CASE ~ r.st.begun
  <2>1. r.st.begun = FALSE
    BY <1>1, <1>3 DEF State
  <2>2. /\ s \in State /\ s.begun = TRUE /\ Frame(r.st, s)
        /\ s.nextBlock = r.st.nextBlock /\ s.block = r.st.block /\ s.toolCalls = r.st.toolCalls
    BY <1>1 DEF State, Frame
  <2>3. MessageStart(r) = With(s, Append(r.out, Begin))
    <3>1. MessageStart(r) = [With(r.st, Append(r.out, Begin)) EXCEPT !.st.begun = TRUE]
      BY <1>3, EventFacts, EmitFacts DEF MessageStart
    <3>2. QED
      BY <3>1 DEF With
  <2> HIDE DEF s
  <2>4. MessageStart(r) \in Results /\ MessageStart(r).st = s /\ MessageStart(r).out = Append(r.out, Begin)
    <3>1. Append(r.out, Begin) \in Seq(Events)
      BY EventFacts, EmitFacts
    <3>2. QED
      BY <2>2, <2>3, <3>1, WithFacts
  <2>5. After(rd, Append(r.out, Begin)) = Read(After(rd, r.out), Begin) /\ After(rd, r.out) \in Readers
    BY <1>1, EventFacts, EmitFacts, AfterTyped
  <2>6. Sees(After(rd, Append(r.out, Begin)), TRUE, Blocks(Made(r.st)), Blocks(OpenNow(r.st)))
    BY <2>1, <2>5, ReadBegin DEF InClaude
  <2>7. Made(s) = Made(r.st) /\ OpenNow(s) = OpenNow(r.st) /\ BlocksApart(s)
    BY <2>2 DEF InClaude, Made, OpenNow, BlocksApart
  <2>8. QED
    BY <2>2, <2>4, <2>6, <2>7 DEF TellsClaude, InClaude
<1>4. QED
  BY <1>2, <1>3

(* A step that emits one event and leaves the state s.                     *)
LEMMA ClaudeStep ==
  ASSUME NEW rd \in Readers, NEW r \in Results, NEW e \in Events, NEW s \in State,
         s.begun, BlocksApart(s),
         Sees(Read(After(rd, r.out), e), TRUE, Blocks(Made(s)), Blocks(OpenNow(s)))
  PROVE  TellsClaude(rd, With(s, Append(r.out, e)))
<1>1. s.begun = TRUE
  BY DEF State
<1>2. Append(r.out, e) \in Seq(Events) /\ After(rd, Append(r.out, e)) = Read(After(rd, r.out), e)
  BY EmitFacts
<1>3. QED
  BY <1>1, <1>2, WithFacts DEF TellsClaude, InClaude

LEMMA SeesOpened ==
  ASSUME NEW rd \in Readers, NEW r \in Results, TellsClaude(rd, r)
  PROVE  /\ After(rd, r.out) \in Readers /\ r.st \in State /\ r.out \in Seq(Events)
         /\ r.st.begun = TRUE /\ BlocksApart(r.st)
         /\ Sees(After(rd, r.out), TRUE, Blocks(Made(r.st)), Blocks(OpenNow(r.st)))
<1>1. r.st \in State /\ r.out \in Seq(Events)
  BY DEF Results
<1>2. r.st.begun = TRUE
  BY <1>1 DEF State, TellsClaude
<1>3. QED
  BY <1>1, <1>2, AfterTyped DEF TellsClaude, InClaude

LEMMA ClaudeStopsBlock ==
  ASSUME NEW rd \in Readers, NEW r \in Results, TellsClaude(rd, r), NEW kind \in {"think", "text"}
  PROVE  /\ TellsClaude(rd, StopBlock(kind, r))
         /\ Frame(r.st, StopBlock(kind, r).st)
         /\ StopBlock(kind, r).st.toolCalls = r.st.toolCalls
         /\ StopBlock(kind, r).st.nextBlock = r.st.nextBlock
         /\ StopBlock(kind, r).st.block[kind] = NoBlock
         /\ \A k \in {"think", "text"} : r.st.block[k] = NoBlock => StopBlock(kind, r).st.block[k] = NoBlock
<1> DEFINE q == StopBlock(kind, r)
           b == r.st.block[kind]
           e == Close(Block(b))
           s == [r.st EXCEPT !.block[kind] = NoBlock]
<1>1. /\ After(rd, r.out) \in Readers /\ r.st \in State /\ r.out \in Seq(Events)
      /\ r.st.begun = TRUE /\ BlocksApart(r.st)
      /\ Sees(After(rd, r.out), TRUE, Blocks(Made(r.st)), Blocks(OpenNow(r.st)))
  BY SeesOpened
<1>2. CASE b = NoBlock
  BY <1>2 DEF StopBlock, Frame
<1>3. CASE b # NoBlock
  <2>1. r.st.block \in [{"think", "text"} -> Numbers] /\ b \in Nat
    BY <1>1, <1>3 DEF State, Numbers
  <2>2. /\ s \in State /\ s.begun = TRUE /\ Frame(r.st, s)
        /\ s.nextBlock = r.st.nextBlock /\ s.toolCalls = r.st.toolCalls
        /\ s.block = [r.st.block EXCEPT ![kind] = NoBlock]
    BY <1>1, <2>1 DEF State, Frame, Numbers
  <2>3. s.block[kind] = NoBlock /\ \A k \in {"think", "text"} : k # kind => s.block[k] = r.st.block[k]
    BY <2>1, <2>2
  <2>4. Block(b) \in Keys /\ e \in Events
    BY <2>1, BlockFacts, EventFacts DEF Events
  <2>5. q = With(s, Append(r.out, e))
    <3>1. q = [With(r.st, Append(r.out, e)) EXCEPT !.st.block[kind] = NoBlock]
      BY <1>3, <2>4, EmitFacts DEF StopBlock
    <3>2. QED
      BY <3>1 DEF With
  <2>6. Made(s) = Made(r.st) /\ OpenNow(s) = OpenNow(r.st) \ {b} /\ b \in OpenNow(r.st) /\ BlocksApart(s)
    <3>1. Made(s) = Made(r.st)
      BY <2>2 DEF Made
    <3>2. BlocksApart(s)
      <4>1. r.st.nextBlock \in Nat
        BY <1>1 DEF State
      <4>2. CASE kind = "think"
        BY <1>1, <2>1, <2>2, <2>3, <4>1, <4>2 DEF BlocksApart, NoBlock
      <4>3. CASE kind = "text"
        BY <1>1, <2>1, <2>2, <2>3, <4>1, <4>3 DEF BlocksApart, NoBlock
      <4>4. QED
        BY <4>2, <4>3
    <3>3. b \in OpenNow(r.st)
      BY <1>1, <2>1 DEF BlocksApart, OpenNow, Made, State
    <3>4. OpenNow(s) = OpenNow(r.st) \ {b}
      BY <1>1, <2>1, <2>2, <2>3 DEF BlocksApart, OpenNow, Made, NoBlock
    <3>5. QED
      BY <3>1, <3>2, <3>3, <3>4
  <2> HIDE DEF s, b, q
  <2>7. Sees(Read(After(rd, r.out), Close(Block(b))), TRUE, Blocks(Made(s)), Blocks(OpenNow(s)))
    <3>1. Blocks(OpenNow(s)) = Blocks(OpenNow(r.st)) \ {Block(b)} /\ Block(b) \in Blocks(OpenNow(r.st))
      BY <2>6, BlockFacts
    <3>2. QED
      <4>1. Sees(Read(After(rd, r.out), Close(Block(b))), TRUE, Blocks(Made(r.st)), Blocks(OpenNow(r.st)) \ {Block(b)})
        BY <1>1, <2>4, <3>1, ReadClose
      <4>2. QED
        BY <2>6, <3>1, <4>1
  <2> HIDE DEF e
  <2>8. TellsClaude(rd, With(s, Append(r.out, e)))
    BY <2>2, <2>4, <2>6, <2>7, ClaudeStep DEF e
  <2>9. q.st = s
    BY <2>5 DEF With
  <2>10. QED
    BY <1>1, <2>2, <2>3, <2>5, <2>8, <2>9 DEF q
<1>4. QED
  BY <1>2, <1>3

LEMMA ClaudeStartsBlock ==
  ASSUME NEW rd \in Readers, NEW r \in Results, TellsClaude(rd, r), NEW kind \in {"think", "text"}
  PROVE  /\ TellsClaude(rd, StartBlock(kind, r))
         /\ Frame(r.st, StartBlock(kind, r).st)
         /\ StartBlock(kind, r).st.toolCalls = r.st.toolCalls
         /\ StartBlock(kind, r).st.block[kind] # NoBlock
<1> DEFINE q == StartBlock(kind, r)
           n == r.st.nextBlock
           e == Open(Block(n), kind, Nothing)
           s1 == [r.st EXCEPT !.block[kind] = n]
           s == [s1 EXCEPT !.nextBlock = n + 1]
<1>1. /\ After(rd, r.out) \in Readers /\ r.st \in State /\ r.out \in Seq(Events)
      /\ r.st.begun = TRUE /\ BlocksApart(r.st)
      /\ Sees(After(rd, r.out), TRUE, Blocks(Made(r.st)), Blocks(OpenNow(r.st)))
  BY SeesOpened
<1>2. CASE r.st.block[kind] # NoBlock
  BY <1>2 DEF StartBlock, Frame
<1>3. CASE r.st.block[kind] = NoBlock
  <2>1. r.st.block \in [{"think", "text"} -> Numbers] /\ n \in Nat
    BY <1>1 DEF State
  <2>2. /\ s1 \in State /\ s1.begun = TRUE /\ Frame(r.st, s1) /\ s1.toolCalls = r.st.toolCalls
        /\ s1.block = [r.st.block EXCEPT ![kind] = n]
    BY <1>1, <2>1 DEF State, Frame, Numbers
  <2>3. s1.block[kind] = n /\ \A k \in {"think", "text"} : k # kind => s1.block[k] = r.st.block[k]
    BY <2>1, <2>2
  <2>4. Block(n) \in Keys /\ kind \in Kinds /\ Nothing \in Int /\ e \in Events
    BY <2>1, BlockFacts, EventFacts DEF Events, Kinds, Nothing
  <2>5. q = With(s, Append(r.out, e))
    <3>1. q = [With(r.st, Append(r.out, e)) EXCEPT !.st.block[kind] = n, !.st.nextBlock = @ + 1]
      BY <1>3, <2>4, EmitFacts DEF StartBlock
    <3>2. QED
      BY <3>1 DEF With
  <2> HIDE DEF s1
  <2>6. /\ s \in State /\ s.begun = TRUE /\ Frame(r.st, s) /\ s.toolCalls = r.st.toolCalls
        /\ s.block = s1.block /\ s.nextBlock = n + 1
    <3> DEFINE m == n + 1
    <3>1. m \in Nat
      BY <2>1
    <3> HIDE DEF m
    <3>2. s = [s1 EXCEPT !.nextBlock = m]
      BY DEF m
    <3>3. QED
      BY <2>2, <3>1, <3>2 DEF State, Frame, m
  <2> HIDE DEF s
  <2>7. /\ Made(s) = Made(r.st) \cup {n} /\ n \notin Made(r.st)
        /\ OpenNow(s) = OpenNow(r.st) \cup {n} /\ BlocksApart(s)
    <3>1. Made(s) = Made(r.st) \cup {n} /\ n \notin Made(r.st)
      BY <2>1, <2>6 DEF Made
    <3>2. BlocksApart(s)
      <4>1. \A i \in Slots : r.st.toolCalls[i].at \in Numbers
        BY <1>1 DEF State, ToolsUsed, Numbers, NoTool, NoBlock
      <4>2. CASE kind = "think"
        BY <1>1, <2>1, <2>3, <2>6, <4>1, <4>2 DEF BlocksApart, NoBlock, Numbers
      <4>3. CASE kind = "text"
        BY <1>1, <2>1, <2>3, <2>6, <4>1, <4>3 DEF BlocksApart, NoBlock, Numbers
      <4>4. QED
        BY <4>2, <4>3
    <3>3. OpenNow(s) = OpenNow(r.st) \cup {n}
      BY <1>1, <1>3, <2>1, <2>3, <2>6, <3>1 DEF BlocksApart, OpenNow, Made, NoBlock
    <3>4. QED
      BY <3>1, <3>2, <3>3
  <2> HIDE DEF q, n
  <2>8. Sees(Read(After(rd, r.out), Open(Block(n), kind, Nothing)), TRUE, Blocks(Made(s)), Blocks(OpenNow(s)))
    <3>1. /\ Blocks(Made(s)) = Blocks(Made(r.st)) \cup {Block(n)} /\ Block(n) \notin Blocks(Made(r.st))
          /\ Blocks(OpenNow(s)) = Blocks(OpenNow(r.st)) \cup {Block(n)}
      BY <2>7, BlockFacts
    <3>2. QED
      <4>1. Sees(Read(After(rd, r.out), Open(Block(n), kind, Nothing)), TRUE,
                 Blocks(Made(r.st)) \cup {Block(n)}, Blocks(OpenNow(r.st)) \cup {Block(n)})
        BY <1>1, <2>4, <3>1, ReadOpen
      <4>2. QED
        BY <3>1, <4>1
  <2> HIDE DEF e
  <2>9. TellsClaude(rd, With(s, Append(r.out, e)))
    BY <2>4, <2>6, <2>7, <2>8, ClaudeStep DEF e
  <2>10. q.st = s /\ s.block[kind] # NoBlock
    BY <2>1, <2>3, <2>5, <2>6 DEF With, NoBlock, n
  <2>11. QED
    BY <2>5, <2>6, <2>9, <2>10 DEF q
<1>4. QED
  BY <1>2, <1>3

LEMMA ClaudeSays ==
  ASSUME NEW rd \in Readers, NEW r \in Results, TellsClaude(rd, r),
         NEW kind \in {"think", "text"}, NEW other \in {"think", "text"}, NEW n \in Int
  PROVE  /\ TellsClaude(rd, BlockDelta(kind, other, n, r))
         /\ Frame(r.st, BlockDelta(kind, other, n, r).st)
         /\ BlockDelta(kind, other, n, r).st.toolCalls = r.st.toolCalls
<1> DEFINE p == StopBlock(other, r)
           q == StartBlock(kind, p)
           b == q.st.block[kind]
           e == Delta(Block(b), <<n>>)
<1>1. CASE n = Nothing
  BY <1>1 DEF BlockDelta, Frame
<1>2. CASE n # Nothing
  <2>1. TellsClaude(rd, p) /\ p \in Results /\ Frame(r.st, p.st) /\ p.st.toolCalls = r.st.toolCalls
    BY ClaudeStopsBlock DEF TellsClaude
  <2> HIDE DEF p
  <2>2. /\ TellsClaude(rd, q) /\ q \in Results /\ Frame(p.st, q.st) /\ q.st.toolCalls = p.st.toolCalls
        /\ b # NoBlock
    BY <2>1, ClaudeStartsBlock DEF TellsClaude
  <2> HIDE DEF q
  <2>3. /\ After(rd, q.out) \in Readers /\ q.st \in State /\ q.out \in Seq(Events)
        /\ q.st.begun = TRUE /\ BlocksApart(q.st)
        /\ Sees(After(rd, q.out), TRUE, Blocks(Made(q.st)), Blocks(OpenNow(q.st)))
    BY <2>2, SeesOpened
  <2>4. b \in Nat /\ b \in Made(q.st) /\ b \in OpenNow(q.st)
    BY <2>2, <2>3 DEF State, Numbers, Made, OpenNow, BlocksApart
  <2>5. /\ Block(b) \in Keys /\ <<n>> \in Seq(Int)
        /\ Block(b) \in Blocks(Made(q.st)) /\ Block(b) \in Blocks(OpenNow(q.st))
    BY <2>4, BlockFacts
  <2>6. e \in Events
    BY <2>5, EventFacts DEF Events
  <2> HIDE DEF b
  <2>7. Sees(Read(After(rd, q.out), e), TRUE, Blocks(Made(q.st)), Blocks(OpenNow(q.st)))
    BY <2>3, <2>5, ReadDelta
  <2> HIDE DEF e
  <2>8. TellsClaude(rd, With(q.st, Append(q.out, e)))
    BY <2>2, <2>3, <2>6, <2>7, ClaudeStep
  <2>9. BlockDelta(kind, other, n, r) = Emit(q, e)
    BY <1>2 DEF BlockDelta, p, q, b, e
  <2>10. Emit(q, e) = With(q.st, Append(q.out, e)) /\ Emit(q, e).st = q.st
    BY <2>2, <2>6, EmitFacts
  <2>11. QED
    BY <2>1, <2>2, <2>8, <2>9, <2>10, FrameIsTransitive
<1>3. QED
  BY <1>1, <1>2

OpenCall(r, t) ==
  LET q == StopBlocks(r)
  IN  [Emit(q, Open(Block(q.st.nextBlock), "call", t.id))
         EXCEPT !.st.toolCalls[t.at] = [call |-> t.id, at |-> q.st.nextBlock], !.st.nextBlock = @ + 1]

LEMMA ClaudeStopsBlocks ==
  ASSUME NEW rd \in Readers, NEW r \in Results, TellsClaude(rd, r)
  PROVE  /\ TellsClaude(rd, StopBlocks(r))
         /\ Frame(r.st, StopBlocks(r).st)
         /\ StopBlocks(r).st.toolCalls = r.st.toolCalls
         /\ StopBlocks(r).st.nextBlock = r.st.nextBlock
         /\ StopBlocks(r).st.block["think"] = NoBlock /\ StopBlocks(r).st.block["text"] = NoBlock
<1> DEFINE p == StopBlock("think", r)
           q == StopBlock("text", p)
<1>1. "think" \in {"think", "text"} /\ "text" \in {"think", "text"}
  OBVIOUS
<1>2. /\ TellsClaude(rd, p) /\ p \in Results /\ Frame(r.st, p.st) /\ p.st.toolCalls = r.st.toolCalls
      /\ p.st.nextBlock = r.st.nextBlock /\ p.st.block["think"] = NoBlock
  BY <1>1, ClaudeStopsBlock DEF TellsClaude
<1> HIDE DEF p
<1>3. /\ TellsClaude(rd, q) /\ Frame(p.st, q.st) /\ q.st.toolCalls = p.st.toolCalls
      /\ q.st.nextBlock = p.st.nextBlock /\ q.st.block["text"] = NoBlock /\ q.st.block["think"] = NoBlock
  BY <1>1, <1>2, ClaudeStopsBlock
<1>4. q = StopBlocks(r)
  BY DEF StopBlocks, p
<1> HIDE DEF q
<1>5. QED
  BY <1>2, <1>3, <1>4, FrameIsTransitive

LEMMA ClaudeOpensCall ==
  ASSUME NEW rd \in Readers, NEW r \in Results, TellsClaude(rd, r),
         NEW t \in ToolEntries, t.id # Nothing, r.st.toolCalls[t.at] = NoTool
  PROVE  /\ TellsClaude(rd, OpenCall(r, t))
         /\ Frame(r.st, OpenCall(r, t).st)
         /\ \A i \in Slots : i # t.at => OpenCall(r, t).st.toolCalls[i] = r.st.toolCalls[i]
<1> DEFINE q == StopBlocks(r)
           n == q.st.nextBlock
           tool == [call |-> t.id, at |-> n]
           calls2 == [q.st.toolCalls EXCEPT ![t.at] = tool]
           e == Open(Block(n), "call", t.id)
           s1 == [q.st EXCEPT !.toolCalls = calls2]
           m == n + 1
           s == [s1 EXCEPT !.nextBlock = m]
           new == With(s, Append(q.out, e))
<1>0. /\ TellsClaude(rd, q) /\ q \in Results /\ Frame(r.st, q.st) /\ q.st.toolCalls = r.st.toolCalls
      /\ q.st.block["think"] = NoBlock /\ q.st.block["text"] = NoBlock
  BY ClaudeStopsBlocks DEF TellsClaude
<1>1. new = OpenCall(r, t) \/ e \notin Events
  <2>1. ASSUME e \in Events PROVE new = OpenCall(r, t)
    <3>1. OpenCall(r, t) = [With(q.st, Append(q.out, e)) EXCEPT !.st.toolCalls[t.at] = tool, !.st.nextBlock = @ + 1]
      BY <1>0, <2>1, EmitFacts DEF OpenCall
    <3> HIDE DEF q, e, tool
    <3>2. QED
      BY <3>1 DEF With, n
  <2>2. QED
    BY <2>1
<1> HIDE DEF q
<1>2. /\ After(rd, q.out) \in Readers /\ q.st \in State /\ q.out \in Seq(Events)
      /\ q.st.begun = TRUE /\ BlocksApart(q.st)
      /\ Sees(After(rd, q.out), TRUE, Blocks(Made(q.st)), Blocks(OpenNow(q.st)))
  BY <1>0, SeesOpened
<1>3. t.at \in Slots /\ t.id \in Nat
  BY DEF ToolEntries
<1>4. n \in Nat /\ m \in Nat /\ q.st.toolCalls \in [Slots -> ToolsUsed] /\ tool \in ToolsUsed
  BY <1>2, <1>3, SMTT(30) DEF State, ToolsUsed
<1>5. /\ calls2 \in [Slots -> ToolsUsed] /\ calls2[t.at].at = n
      /\ \A i \in Slots : i # t.at => calls2[i] = q.st.toolCalls[i]
  BY <1>3, <1>4
<1>6. Block(n) \in Keys /\ "call" \in Kinds /\ t.id \in Int /\ e \in Events
  BY <1>3, <1>4, BlockFacts, EventFacts DEF Events, Kinds
<1> HIDE DEF calls2, m
<1>7. /\ s1 \in State /\ s1.begun = TRUE /\ Frame(q.st, s1) /\ s1.toolCalls = calls2 /\ s1.block = q.st.block
  BY <1>2, <1>5 DEF State, Frame
<1> HIDE DEF s1
<1>8. /\ s \in State /\ s.begun = TRUE /\ Frame(q.st, s) /\ s.toolCalls = calls2 /\ s.block = q.st.block
      /\ s.nextBlock = m
  BY <1>4, <1>7 DEF State, Frame
<1> HIDE DEF s
<1>9. \A i \in Slots : q.st.toolCalls[i].at \in Numbers
  BY <1>2 DEF State, ToolsUsed, Numbers, NoTool, NoBlock
<1>10. /\ Made(s) = Made(q.st) \cup {n} /\ n \notin Made(q.st)
       /\ OpenNow(s) = OpenNow(q.st) \cup {n} /\ BlocksApart(s)
  <2>1. Made(s) = Made(q.st) \cup {n} /\ n \notin Made(q.st)
    BY <1>4, <1>8 DEF Made, m
  <2>2. BlocksApart(s)
    BY <1>0, <1>2, <1>3, <1>4, <1>5, <1>8, <1>9, SMTT(30) DEF BlocksApart, NoBlock, Numbers, m
  <2>3. q.st.toolCalls[t.at].at = NoBlock
    BY <1>0 DEF NoTool
  <2>4. OpenNow(s) = OpenNow(q.st) \cup {n}
    BY <1>0, <1>3, <1>4, <1>5, <1>8, <2>1, <2>3 DEF OpenNow, Made, NoBlock
  <2>5. QED
    BY <2>1, <2>2, <2>4
<1> HIDE DEF n
<1>11. Sees(Read(After(rd, q.out), Open(Block(n), "call", t.id)), TRUE, Blocks(Made(s)), Blocks(OpenNow(s)))
  <2>1. /\ Blocks(Made(s)) = Blocks(Made(q.st)) \cup {Block(n)} /\ Block(n) \notin Blocks(Made(q.st))
        /\ Blocks(OpenNow(s)) = Blocks(OpenNow(q.st)) \cup {Block(n)}
    BY <1>10, BlockFacts
  <2>2. Sees(Read(After(rd, q.out), Open(Block(n), "call", t.id)), TRUE,
             Blocks(Made(q.st)) \cup {Block(n)}, Blocks(OpenNow(q.st)) \cup {Block(n)})
    BY <1>2, <1>6, <2>1, ReadOpen
  <2>3. QED
    BY <2>1, <2>2
<1>12. TellsClaude(rd, new)
  <2> HIDE DEF e
  <2>1. QED
    BY <1>0, <1>6, <1>8, <1>10, <1>11, ClaudeStep DEF e
<1>13. new.st = s
  BY DEF With
<1> HIDE DEF new
<1>14. QED
  BY <1>0, <1>1, <1>5, <1>6, <1>8, <1>12, <1>13, FrameIsTransitive

LEMMA ClaudeKeepsArgs ==
  ASSUME NEW rd \in Readers, NEW r \in Results, TellsClaude(rd, r), NEW t \in ToolEntries
  PROVE  /\ TellsClaude(rd, ToolArgs(r, t)) /\ Frame(r.st, ToolArgs(r, t).st)
         /\ ToolArgs(r, t).st.toolCalls = r.st.toolCalls
<1> DEFINE buf == [r.st.argBuf EXCEPT ![t.at] = Append(@, t.args)]
           s == [r.st EXCEPT !.argBuf = buf]
<1>1. r.st \in State /\ r.out \in Seq(Events) /\ r = With(r.st, r.out)
  BY DEF TellsClaude, Results, With
<1>2. t.at \in Slots /\ t.args \in Int
  BY DEF ToolEntries
<1>3. CASE ToolArgs(r, t) = r
  BY <1>3 DEF Frame
<1>4. CASE ToolArgs(r, t) # r
  <2>1. ToolArgs(r, t) = [r EXCEPT !.st.argBuf[t.at] = Append(@, t.args)]
    BY <1>4 DEF ToolArgs
  <2>2. ToolArgs(r, t) = With(s, r.out)
    BY <1>1, <2>1 DEF With
  <2>3. buf \in [Slots -> Seq(Int)]
    BY <1>1, <1>2 DEF State
  <2> HIDE DEF buf
  <2>4. /\ s \in State /\ Frame(r.st, s) /\ s.toolCalls = r.st.toolCalls /\ s.begun = r.st.begun
        /\ s.block = r.st.block /\ s.nextBlock = r.st.nextBlock
    BY <1>1, <2>3 DEF State, Frame
  <2> HIDE DEF s
  <2>5. With(s, r.out) \in Results /\ With(s, r.out).st = s /\ With(s, r.out).out = r.out
    BY <1>1, <2>4, WithFacts
  <2>6. Made(s) = Made(r.st) /\ OpenNow(s) = OpenNow(r.st) /\ BlocksApart(s)
    BY <2>4 DEF TellsClaude, InClaude, Made, OpenNow, BlocksApart
  <2>7. QED
    BY <2>2, <2>4, <2>5, <2>6 DEF TellsClaude, InClaude
<1>5. QED
  BY <1>3, <1>4

TakeCall(q, t) == ToolArgs(ToolStart(q, t), t)
TakeKiroCall(q, t) == ToolArgs(KiroToolStart(q, t), t)

LEMMA ClaudeTakesCall ==
  ASSUME NEW rd \in Readers, NEW r \in Results, TellsClaude(rd, r), NEW t \in ToolEntries
  PROVE  TellsClaude(rd, TakeCall(r, t)) /\ Frame(r.st, TakeCall(r, t).st)
<1> DEFINE p == ToolStart(r, t)
<1>1. TellsClaude(rd, p) /\ Frame(r.st, p.st) /\ p \in Results
  <2>1. CASE t.id = Nothing \/ r.st.toolCalls[t.at] # NoTool
    BY <2>1 DEF ToolStart, Frame
  <2>2. CASE t.id # Nothing /\ r.st.toolCalls[t.at] = NoTool
    <3>1. p = OpenCall(r, t)
      BY <2>2 DEF ToolStart, OpenCall
    <3>2. QED
      BY <2>2, <3>1, ClaudeOpensCall DEF TellsClaude
  <2>3. QED
    BY <2>1, <2>2
<1> HIDE DEF p
<1>2. TellsClaude(rd, ToolArgs(p, t)) /\ Frame(p.st, ToolArgs(p, t).st)
  BY <1>1, ClaudeKeepsArgs
<1>3. QED
  BY <1>1, <1>2, FrameIsTransitive DEF TakeCall, p

LEMMA ClaudeTakesKiroCall ==
  ASSUME NEW rd \in Readers, NEW r \in Results, TellsClaude(rd, r), NEW t \in ToolEntries,
         t.id # Nothing => r.st.toolCalls[t.at] = NoTool
  PROVE  /\ TellsClaude(rd, TakeKiroCall(r, t)) /\ Frame(r.st, TakeKiroCall(r, t).st)
         /\ \A i \in Slots : i # t.at \/ t.id = Nothing => TakeKiroCall(r, t).st.toolCalls[i] = r.st.toolCalls[i]
<1> DEFINE p == KiroToolStart(r, t)
<1>1. /\ TellsClaude(rd, p) /\ Frame(r.st, p.st) /\ p \in Results
      /\ \A i \in Slots : i # t.at \/ t.id = Nothing => p.st.toolCalls[i] = r.st.toolCalls[i]
  <2>1. CASE t.id = Nothing
    BY <2>1 DEF KiroToolStart, Frame
  <2>2. CASE t.id # Nothing
    <3>1. p = OpenCall(r, t)
      BY <2>2 DEF KiroToolStart, OpenCall
    <3>2. QED
      BY <2>2, <3>1, ClaudeOpensCall DEF TellsClaude
  <2>3. QED
    BY <2>1, <2>2
<1> HIDE DEF p
<1>2. /\ TellsClaude(rd, ToolArgs(p, t)) /\ Frame(p.st, ToolArgs(p, t).st)
      /\ ToolArgs(p, t).st.toolCalls = p.st.toolCalls
  BY <1>1, ClaudeKeepsArgs
<1>3. QED
  BY <1>1, <1>2, FrameIsTransitive DEF TakeKiroCall, p

TakeCalls(r, tools) == Fold(TakeCall, r, tools)
TakeKiroCalls(r, tools) == Fold(TakeKiroCall, r, tools)

LEMMA ClaudeTakesCalls ==
  ASSUME NEW rd \in Readers, NEW r \in Results, TellsClaude(rd, r), NEW tools \in Seq(ToolEntries)
  PROVE  TellsClaude(rd, TakeCalls(r, tools)) /\ Frame(r.st, TakeCalls(r, tools).st)
<1> DEFINE n == Len(tools)
           good == {x \in Results : TellsClaude(rd, x) /\ Frame(r.st, x.st)}
           step == [i \in 1 .. n |-> [x \in good |-> TakeCall(x, tools[i])]]
           D == [i \in 0 .. n |-> good]
           Runs2(f) == f = [i \in 0 .. n |-> IF i = 0 THEN r ELSE TakeCall(f[i - 1], tools[i])]
<1>1. n \in Nat /\ \A i \in 1 .. n : tools[i] \in ToolEntries
  OBVIOUS
<1>2. \A i \in 1 .. n : \A x \in good : step[i][x] = TakeCall(x, tools[i]) /\ TakeCall(x, tools[i]) \in good
  BY <1>1, ClaudeTakesCall, FrameIsTransitive DEF TellsClaude
<1>3. \A i \in 1 .. n : D[i - 1] = good /\ D[i] = good
  BY <1>1
<1>4. r \in D[0]
  BY <1>1 DEF Frame
<1>5. \E f : Runs2(f)
  <2> HIDE DEF step, D, n
  <2>0. \A i \in 1 .. n : \A x \in D[i - 1] : step[i][x] \in D[i]
    <3> HIDE DEF good
    <3> TAKE i \in 1 .. n
    <3> TAKE x \in D[i - 1]
    <3>1. x \in good
      BY <1>3
    <3>2. QED
      BY <1>2, <1>3, <3>1
  <2>1. PICK f : Loop(f, n, r, step) /\ \A i \in 0 .. n : f[i] \in D[i]
    BY <1>1, <1>4, <2>0, LoopRuns
  <2>2. \A i \in 0 .. n : f[i] \in good
    BY <2>1 DEF D
  <2>3. \A i \in 0 .. n : i # 0 => step[i][f[i - 1]] = TakeCall(f[i - 1], tools[i])
    <3> HIDE DEF good
    <3> TAKE i \in 0 .. n
    <3> HAVE i # 0
    <3>1. i \in 1 .. n /\ i - 1 \in 0 .. n
      BY <1>1
    <3>2. QED
      BY <1>2, <2>2, <3>1
  <2>4. [i \in 0 .. n |-> IF i = 0 THEN r ELSE step[i][f[i - 1]]]
          = [i \in 0 .. n |-> IF i = 0 THEN r ELSE TakeCall(f[i - 1], tools[i])]
    BY <2>3
  <2>5. QED
    BY <2>1, <2>4 DEF Loop
<1>6. PICK g : Runs2(g) /\ TakeCalls(r, tools) = g[n]
  BY <1>5 DEF TakeCalls, Fold
<1>7. g[0] = r /\ \A i \in 1 .. n : g[i] = TakeCall(g[i - 1], tools[i])
  BY <1>1, <1>6
<1> HIDE DEF good
<1>8. g[0] \in D[0] /\ \A i \in 1 .. n : g[i - 1] \in D[i - 1] => g[i] \in D[i]
  BY <1>1, <1>2, <1>3, <1>4, <1>7
<1> HIDE DEF n
<1>9. \A i \in 0 .. n : g[i] \in D[i]
  BY <1>1, <1>8, Kept
<1>10. g[n] \in good
  BY <1>1, <1>9
<1>11. QED
  BY <1>6, <1>10 DEF good

LEMMA ClaudeTakesKiroCalls ==
  ASSUME NEW rd \in Readers, NEW r \in Results, TellsClaude(rd, r), NEW tools \in Seq(ToolEntries),
         \A i \in 1 .. Len(tools) : tools[i].id # Nothing =>
           /\ r.st.toolCalls[tools[i].at] = NoTool
           /\ \A j \in 1 .. i - 1 : tools[j].id # Nothing => tools[j].at # tools[i].at
  PROVE  TellsClaude(rd, TakeKiroCalls(r, tools)) /\ Frame(r.st, TakeKiroCalls(r, tools).st)
         /\ \A j \in Slots : r.st.toolCalls[j] = NoTool /\ TakeKiroCalls(r, tools).st.toolCalls[j] # NoTool
              => \E i \in 1 .. Len(tools) : tools[i].id # Nothing /\ tools[i].at = j
<1> DEFINE n == Len(tools)
           named(i, j) == \E k \in 1 .. i : tools[k].id # Nothing /\ tools[k].at = j
           good(i) == {x \in Results :
                         /\ TellsClaude(rd, x) /\ Frame(r.st, x.st)
                         /\ \A j \in Slots : named(i, j) \/ x.st.toolCalls[j] = r.st.toolCalls[j]}
           step == [i \in 1 .. n |-> [x \in good(i - 1) |-> TakeKiroCall(x, tools[i])]]
           D == [i \in 0 .. n |-> good(i)]
           Runs2(f) == f = [i \in 0 .. n |-> IF i = 0 THEN r ELSE TakeKiroCall(f[i - 1], tools[i])]
<1>1. n \in Nat /\ \A i \in 1 .. n : tools[i] \in ToolEntries
  OBVIOUS
<1>2. \A i \in 1 .. n : \A x \in good(i - 1) :
        step[i][x] = TakeKiroCall(x, tools[i]) /\ TakeKiroCall(x, tools[i]) \in good(i)
  <2> TAKE i \in 1 .. n
  <2> TAKE x \in good(i - 1)
  <2> DEFINE t == tools[i]
  <2>1. /\ i - 1 \in Nat /\ i \in 1 .. i /\ t \in ToolEntries /\ t.at \in Slots
        /\ \A k \in 1 .. i : k \in 1 .. i - 1 \/ k = i
        /\ \A k \in 1 .. i - 1 : k \in 1 .. i
    BY <1>1 DEF ToolEntries
  <2>2. \A j \in Slots : named(i, j) <=> named(i - 1, j) \/ (t.id # Nothing /\ t.at = j)
    BY <2>1
  <2>3. t.id # Nothing => ~ named(i - 1, t.at) /\ r.st.toolCalls[t.at] = NoTool
    OBVIOUS
  <2> HIDE DEF named
  <2>4. t.id # Nothing => x.st.toolCalls[t.at] = NoTool
    BY <2>1, <2>3
  <2>5. /\ TellsClaude(rd, TakeKiroCall(x, t)) /\ Frame(x.st, TakeKiroCall(x, t).st)
        /\ \A j \in Slots : j # t.at \/ t.id = Nothing => TakeKiroCall(x, t).st.toolCalls[j] = x.st.toolCalls[j]
    BY <2>1, <2>4, ClaudeTakesKiroCall
  <2>6. Frame(r.st, TakeKiroCall(x, t).st) /\ TakeKiroCall(x, t) \in Results
    BY <2>5, FrameIsTransitive DEF TellsClaude
  <2>7. \A j \in Slots : named(i, j) \/ TakeKiroCall(x, t).st.toolCalls[j] = r.st.toolCalls[j]
    BY <2>2, <2>5
  <2>8. TakeKiroCall(x, t) \in good(i)
    BY <2>5, <2>6, <2>7
  <2>9. step[i][x] = TakeKiroCall(x, tools[i])
    <3> HIDE DEF good, t
    <3>1. QED
      OBVIOUS
  <2> HIDE DEF good, step
  <2>10. QED
    BY <2>8, <2>9
<1>3. \A i \in 1 .. n : D[i - 1] = good(i - 1) /\ D[i] = good(i)
  <2> HIDE DEF good
  <2>1. QED
    BY <1>1
<1>4. r \in D[0]
  BY <1>1 DEF Frame, TellsClaude
<1>5. \E f : Runs2(f)
  <2> HIDE DEF step, D, n
  <2>0. \A i \in 1 .. n : \A x \in D[i - 1] : step[i][x] \in D[i]
    <3> HIDE DEF good
    <3> TAKE i \in 1 .. n
    <3> TAKE x \in D[i - 1]
    <3>1. x \in good(i - 1)
      BY <1>3
    <3>2. QED
      BY <1>2, <1>3, <3>1
  <2>1. PICK f : Loop(f, n, r, step) /\ \A i \in 0 .. n : f[i] \in D[i]
    BY <1>1, <1>4, <2>0, LoopRuns
  <2>2. \A i \in 0 .. n : f[i] \in good(i)
    BY <2>1 DEF D
  <2>3. \A i \in 0 .. n : i # 0 => step[i][f[i - 1]] = TakeKiroCall(f[i - 1], tools[i])
    <3> HIDE DEF good
    <3> TAKE i \in 0 .. n
    <3> HAVE i # 0
    <3>1. i \in 1 .. n /\ i - 1 \in 0 .. n
      BY <1>1
    <3>2. QED
      BY <1>2, <2>2, <3>1
  <2>4. [i \in 0 .. n |-> IF i = 0 THEN r ELSE step[i][f[i - 1]]]
          = [i \in 0 .. n |-> IF i = 0 THEN r ELSE TakeKiroCall(f[i - 1], tools[i])]
    BY <2>3
  <2>5. QED
    BY <2>1, <2>4 DEF Loop
<1>6. PICK g : Runs2(g) /\ TakeKiroCalls(r, tools) = g[n]
  BY <1>5 DEF TakeKiroCalls, Fold
<1>7. g[0] = r /\ \A i \in 1 .. n : g[i] = TakeKiroCall(g[i - 1], tools[i])
  BY <1>1, <1>6
<1> HIDE DEF good
<1>8. g[0] \in D[0] /\ \A i \in 1 .. n : g[i - 1] \in D[i - 1] => g[i] \in D[i]
  BY <1>1, <1>2, <1>3, <1>4, <1>7
<1> HIDE DEF n
<1>9. \A i \in 0 .. n : g[i] \in D[i]
  BY <1>1, <1>8, Kept
<1>10. g[n] \in good(n)
  BY <1>1, <1>9
<1>11. \A j \in Slots : named(n, j) \/ g[n].st.toolCalls[j] = r.st.toolCalls[j]
  <2> HIDE DEF named
  <2>1. QED
    BY <1>10 DEF good
<1>12. QED
  BY <1>6, <1>10, <1>11 DEF good, n

(* At the end the blocks of calls are closed, in the order of their        *)
(* numbers: the open ones left after the first k numbers.                  *)
LeftOpen(s, k) == {b \in OpenNow(s) : b >= k}

Closing(rd, s, k) ==
  {x \in Results : x.st = s /\ Sees(After(rd, x.out), TRUE, Blocks(Made(s)), Blocks(LeftOpen(s, k)))}

LEMMA ClaudeStopsCall ==
  ASSUME NEW rd \in Readers, NEW s \in State, BlocksApart(s),
         s.block["think"] = NoBlock, s.block["text"] = NoBlock,
         NEW k \in 1 .. s.nextBlock, NEW x \in Closing(rd, s, k - 1)
  PROVE  StopTool(x, k - 1) \in Closing(rd, s, k)
<1> DEFINE b == k - 1
           here == {i \in Slots : x.st.toolCalls[i].at = b}
           i == CHOOSE j \in here : TRUE
           key == Block(b)
           args == x.st.argBuf[i]
           e1 == Delta(key, args)
           e2 == Close(key)
           p == IF args = <<>> THEN x ELSE Emit(x, e1)
<1>1. /\ x \in Results /\ x.st = s /\ x.out \in Seq(Events)
      /\ Sees(After(rd, x.out), TRUE, Blocks(Made(s)), Blocks(LeftOpen(s, b)))
  BY DEF Closing, Results
<1>2. s.nextBlock \in Nat /\ b \in Nat /\ b \in Made(s) /\ k \in Int /\ k = b + 1
  BY DEF State, Made
<1>3. CASE here = {}
  <2>1. b \notin OpenNow(s)
    BY <1>1, <1>2, <1>3 DEF OpenNow, NoBlock
  <2>2. LeftOpen(s, k) = LeftOpen(s, b)
    BY <1>2, <2>1 DEF LeftOpen, OpenNow, Made
  <2>3. StopTool(x, b) = x
    BY <1>3 DEF StopTool
  <2>4. QED
    BY <1>1, <2>2, <2>3 DEF Closing
<1>4. CASE here # {}
  <2>1. i \in here
    BY <1>4
  <2>2. i \in Slots /\ s.toolCalls[i].at = b
    BY <1>1, <2>1
  <2>3. b \in LeftOpen(s, b) /\ LeftOpen(s, k) = LeftOpen(s, b) \ {b}
    BY <1>2, <2>2 DEF LeftOpen, OpenNow, Made
  <2>4. args \in Seq(Int)
    BY <1>1, <2>2 DEF State
  <2>5. StopTool(x, b) = Emit(p, e2)
    BY <1>4 DEF StopTool
  <2> HIDE DEF i, args
  <2>6. key \in Keys /\ key \in Blocks(LeftOpen(s, b)) /\ key \in Blocks(Made(s))
    BY <1>2, <2>3, BlockFacts
  <2>7. e1 \in Events /\ e2 \in Events
    BY <2>4, <2>6, EventFacts DEF Events
  <2>8. After(rd, x.out) \in Readers
    BY <1>1, AfterTyped
  <2> HIDE DEF key
  <2>9. p \in Results /\ p.st = s /\ Sees(After(rd, p.out), TRUE, Blocks(Made(s)), Blocks(LeftOpen(s, b)))
    <3>1. CASE args = <<>>
      BY <1>1, <3>1
    <3>2. CASE args # <<>>
      <4>1. Sees(Read(After(rd, x.out), e1), TRUE, Blocks(Made(s)), Blocks(LeftOpen(s, b)))
        BY <1>1, <2>4, <2>6, <2>8, ReadDelta
      <4> HIDE DEF e1
      <4>2. /\ Emit(x, e1) \in Results /\ Emit(x, e1).st = s
            /\ Emit(x, e1).out = Append(x.out, e1) /\ After(rd, Append(x.out, e1)) = Read(After(rd, x.out), e1)
        BY <1>1, <2>7, EmitFacts
      <4>3. QED
        BY <3>2, <4>1, <4>2
    <3>3. QED
      BY <3>1, <3>2
  <2> HIDE DEF p
  <2>10. p.out \in Seq(Events) /\ After(rd, p.out) \in Readers
    BY <2>9, AfterTyped DEF Results
  <2>11. Sees(Read(After(rd, p.out), e2), TRUE, Blocks(Made(s)), Blocks(LeftOpen(s, b)) \ {key})
    BY <2>6, <2>9, <2>10, ReadClose
  <2>12. Blocks(LeftOpen(s, k)) = Blocks(LeftOpen(s, b)) \ {key}
    BY <2>3, BlockFacts DEF key
  <2> HIDE DEF e2
  <2>13. /\ Emit(p, e2) \in Results /\ Emit(p, e2).st = s
         /\ Emit(p, e2).out = Append(p.out, e2) /\ After(rd, Append(p.out, e2)) = Read(After(rd, p.out), e2)
    BY <2>7, <2>9, EmitFacts
  <2>14. QED
    BY <2>5, <2>11, <2>12, <2>13 DEF Closing
<1>5. QED
  BY <1>3, <1>4

StopCalls(r, s) == Fold(StopTool, r, Opened(s))

(* The rounds of the loop.                                                 *)
Stopping(g, rd, r, s0) ==
  /\ g[0] = r /\ g[r.st.nextBlock] = StopCalls(r, s0)
  /\ \A i \in 1 .. r.st.nextBlock : g[i] = StopTool(g[i - 1], i - 1)
  /\ \A i \in 0 .. r.st.nextBlock : g[i] \in Closing(rd, r.st, i)

LEMMA StopCallsRuns ==
  ASSUME NEW rd \in Readers, NEW r \in Results, TellsClaude(rd, r), NEW s0, s0.nextBlock = r.st.nextBlock,
         r.st.block["think"] = NoBlock, r.st.block["text"] = NoBlock
  PROVE  \E g : Stopping(g, rd, r, s0)
<1> DEFINE s == r.st
           n == s.nextBlock
           nums == Opened(s0)
           step == [i \in 1 .. n |-> [x \in Closing(rd, s, i - 1) |-> StopTool(x, nums[i])]]
           D == [i \in 0 .. n |-> Closing(rd, s, i)]
           Runs2(f) == f = [i \in 0 .. n |-> IF i = 0 THEN r ELSE StopTool(f[i - 1], nums[i])]
<1>0. /\ After(rd, r.out) \in Readers /\ s \in State /\ BlocksApart(s)
      /\ Sees(After(rd, r.out), TRUE, Blocks(Made(s)), Blocks(OpenNow(s)))
  BY SeesOpened
<1>1. n \in Nat /\ Len(nums) = n /\ \A i \in 1 .. n : nums[i] = i - 1
  BY <1>0 DEF State, Opened
<1> HIDE DEF nums, s
<1>2. \A i \in 1 .. n : \A x \in Closing(rd, s, i - 1) :
        step[i][x] = StopTool(x, nums[i]) /\ StopTool(x, nums[i]) \in Closing(rd, s, i)
  BY <1>0, <1>1, ClaudeStopsCall DEF s
<1>3. \A i \in 1 .. n : D[i - 1] = Closing(rd, s, i - 1) /\ D[i] = Closing(rd, s, i)
  BY <1>1
<1>4. r \in D[0]
  <2>1. LeftOpen(s, 0) = OpenNow(s)
    BY <1>0 DEF LeftOpen, OpenNow, Made, State
  <2>2. D[0] = Closing(rd, s, 0)
    BY <1>1
  <2>3. QED
    BY <1>0, <2>1, <2>2 DEF Closing, s
<1>5. \E f : Runs2(f)
  <2> HIDE DEF step, D, n
  <2>0. \A i \in 1 .. n : \A x \in D[i - 1] : step[i][x] \in D[i]
    <3> TAKE i \in 1 .. n
    <3> TAKE x \in D[i - 1]
    <3>1. x \in Closing(rd, s, i - 1)
      BY <1>3
    <3>2. QED
      BY <1>2, <1>3, <3>1
  <2>1. PICK f : Loop(f, n, r, step) /\ \A i \in 0 .. n : f[i] \in D[i]
    BY <1>1, <1>4, <2>0, LoopRuns
  <2>2. \A i \in 0 .. n : f[i] \in Closing(rd, s, i)
    BY <2>1 DEF D
  <2>3. \A i \in 0 .. n : i # 0 => step[i][f[i - 1]] = StopTool(f[i - 1], nums[i])
    <3> TAKE i \in 0 .. n
    <3> HAVE i # 0
    <3>1. i \in 1 .. n /\ i - 1 \in 0 .. n
      BY <1>1
    <3>2. QED
      BY <1>2, <2>2, <3>1
  <2>4. [i \in 0 .. n |-> IF i = 0 THEN r ELSE step[i][f[i - 1]]]
          = [i \in 0 .. n |-> IF i = 0 THEN r ELSE StopTool(f[i - 1], nums[i])]
    BY <2>3
  <2>5. QED
    BY <2>1, <2>4 DEF Loop
<1>6. PICK g : Runs2(g) /\ StopCalls(r, s0) = g[n]
  <2> DEFINE m == Len(nums)
  <2>1. \E f : f = [i \in 0 .. m |-> IF i = 0 THEN r ELSE StopTool(f[i - 1], nums[i])]
    BY <1>1, <1>5
  <2> HIDE DEF m
  <2>2. PICK g : g = [i \in 0 .. m |-> IF i = 0 THEN r ELSE StopTool(g[i - 1], nums[i])] /\ StopCalls(r, s0) = g[m]
    BY <2>1 DEF StopCalls, Fold, nums, m
  <2>3. m = n
    BY <1>1 DEF m
  <2>4. QED
    BY <2>2, <2>3
<1>7. g[0] = r /\ \A i \in 1 .. n : g[i] = StopTool(g[i - 1], nums[i])
  <2> HIDE DEF n
  <2>1. \A i \in 1 .. n : i \in 0 .. n /\ i # 0
    BY <1>1
  <2>2. 0 \in 0 .. n
    BY <1>1
  <2>3. QED
    BY <1>6, <2>1, <2>2
<1>8. g[0] \in D[0] /\ \A i \in 1 .. n : g[i - 1] \in D[i - 1] => g[i] \in D[i]
  <2> HIDE DEF n, D, step
  <2>1. \A i \in 1 .. n : g[i - 1] \in D[i - 1] => StopTool(g[i - 1], nums[i]) \in D[i]
    BY <1>2, <1>3
  <2>2. QED
    BY <1>4, <1>7, <2>1
<1> HIDE DEF n
<1>9. \A i \in 0 .. n : g[i] \in D[i]
  BY <1>1, <1>8, Kept
<1>10. \A i \in 0 .. n : g[i] \in Closing(rd, s, i)
  BY <1>1, <1>3, <1>9
<1>11. \A i \in 1 .. n : g[i] = StopTool(g[i - 1], i - 1)
  BY <1>1, <1>7
<1>12. Stopping(g, rd, r, s0)
  BY <1>6, <1>7, <1>10, <1>11 DEF Stopping, s, n
<1>13. QED
  BY <1>12

LEMMA ClaudeStopsCalls ==
  ASSUME NEW rd \in Readers, NEW r \in Results, TellsClaude(rd, r), NEW s0, s0.nextBlock = r.st.nextBlock,
         r.st.block["think"] = NoBlock, r.st.block["text"] = NoBlock
  PROVE  /\ StopCalls(r, s0) \in Results /\ StopCalls(r, s0).st = r.st
         /\ Sees(After(rd, StopCalls(r, s0).out), TRUE, Blocks(Made(r.st)), {})
<1> DEFINE s == r.st
           n == s.nextBlock
<1>1. PICK g : Stopping(g, rd, r, s0)
  BY StopCallsRuns
<1>2. n \in Nat /\ s \in State
  BY DEF Results, State
<1>3. n \in 0 .. n
  BY <1>2
<1>4. StopCalls(r, s0) \in Closing(rd, s, n)
  BY <1>1, <1>3 DEF Stopping
<1>5. Blocks(LeftOpen(s, n)) = {}
  BY <1>2 DEF LeftOpen, OpenNow, Made, Blocks
<1>6. QED
  BY <1>4, <1>5 DEF Closing

Finishings == {"", "tools", "stop"}
ChunksSaid == [think : Int, text : Int, tools : Seq(ToolEntries), finish : Finishings]

LEMMA ClaudeEnds ==
  ASSUME NEW rd \in Readers, NEW r \in Results, TellsClaude(rd, r), NEW reason \in Finishings
  PROVE  /\ ClaudeFinish(reason, r) \in Results
         /\ Frame(r.st, ClaudeFinish(reason, r).st)
         /\ ClaudeFinish(reason, r).st.toolCalls = r.st.toolCalls
         /\ reason = "" => TellsClaude(rd, ClaudeFinish(reason, r))
         /\ reason # "" => Heard(After(rd, ClaudeFinish(reason, r).out))
<1> DEFINE p == StopBlocks(r)
           q == StopCalls(p, r.st)
           e == End(reason)
<1>1. CASE reason = ""
  BY <1>1 DEF ClaudeFinish, Frame
<1>2. CASE reason # ""
  <2>1. reason \in Reasons
    BY <1>2 DEF Finishings, Reasons
  <2>2. e \in Events
    BY <2>1, EventFacts DEF Events
  <2>3. /\ TellsClaude(rd, p) /\ p \in Results /\ Frame(r.st, p.st) /\ p.st.toolCalls = r.st.toolCalls
        /\ r.st.nextBlock = p.st.nextBlock /\ p.st.block["think"] = NoBlock /\ p.st.block["text"] = NoBlock
    BY ClaudeStopsBlocks DEF TellsClaude
  <2>4. ClaudeFinish(reason, r) = Emit(q, e)
    BY <1>2 DEF ClaudeFinish, StopCalls
  <2> HIDE DEF p
  <2>5. q \in Results /\ q.st = p.st /\ Sees(After(rd, q.out), TRUE, Blocks(Made(p.st)), {})
    BY <2>3, ClaudeStopsCalls
  <2> HIDE DEF q
  <2>6. After(rd, q.out) \in Readers
    BY <2>5, AfterTyped DEF Results
  <2>7. Heard(Read(After(rd, q.out), e))
    BY <2>1, <2>5, <2>6, ReadEnd
  <2> HIDE DEF e
  <2>8. /\ Emit(q, e) \in Results /\ Emit(q, e).st = q.st /\ Emit(q, e).out = Append(q.out, e)
        /\ After(rd, Append(q.out, e)) = Read(After(rd, q.out), e)
    BY <2>2, <2>5, EmitFacts
  <2>9. QED
    BY <1>2, <2>3, <2>4, <2>5, <2>7, <2>8
<1>3. QED
  BY <1>1, <1>2

ClaudeHearsTexts(r, c) == BlockDelta("text", "think", c.text, BlockDelta("think", "text", c.think, MessageStart(r)))

LEMMA ClaudeTexts ==
  ASSUME NEW rd \in Readers, NEW r \in Results, InClaude(r.st, After(rd, r.out)), NEW c \in ChunksSaid
  PROVE  /\ TellsClaude(rd, ClaudeHearsTexts(r, c)) /\ ClaudeHearsTexts(r, c) \in Results
         /\ Frame(r.st, ClaudeHearsTexts(r, c).st) /\ ClaudeHearsTexts(r, c).st.toolCalls = r.st.toolCalls
<1> DEFINE o == MessageStart(r)
           p == BlockDelta("think", "text", c.think, o)
           q == BlockDelta("text", "think", c.text, p)
<1>1. "think" \in {"think", "text"} /\ "text" \in {"think", "text"} /\ c.think \in Int /\ c.text \in Int
  BY DEF ChunksSaid
<1>2. TellsClaude(rd, o) /\ o \in Results /\ Frame(r.st, o.st) /\ o.st.toolCalls = r.st.toolCalls
  BY ClaudeBegun DEF TellsClaude
<1> HIDE DEF o
<1>3. TellsClaude(rd, p) /\ p \in Results /\ Frame(o.st, p.st) /\ p.st.toolCalls = o.st.toolCalls
  BY <1>1, <1>2, ClaudeSays DEF TellsClaude
<1> HIDE DEF p
<1>4. TellsClaude(rd, q) /\ q \in Results /\ Frame(p.st, q.st) /\ q.st.toolCalls = p.st.toolCalls
  BY <1>1, <1>3, ClaudeSays DEF TellsClaude
<1>5. ClaudeHearsTexts(r, c) = q
  BY DEF ClaudeHearsTexts, o, p
<1> HIDE DEF q
<1>6. Frame(r.st, p.st)
  BY <1>2, <1>3, FrameIsTransitive
<1>7. Frame(r.st, q.st)
  BY <1>4, <1>6, FrameIsTransitive
<1>8. QED
  BY <1>2, <1>3, <1>4, <1>5, <1>7

LEMMA ClaudeHears ==
  ASSUME NEW rd \in Readers, NEW r \in Results, InClaude(r.st, After(rd, r.out)), NEW c \in ChunksSaid
  PROVE  /\ OpenAIToClaude(r, c) \in Results
         /\ Frame(r.st, OpenAIToClaude(r, c).st)
         /\ c.finish = "" => InClaude(OpenAIToClaude(r, c).st, After(rd, OpenAIToClaude(r, c).out))
         /\ c.finish # "" => Heard(After(rd, OpenAIToClaude(r, c).out))
<1> DEFINE p == ClaudeHearsTexts(r, c)
           q == TakeCalls(p, c.tools)
           f == ClaudeFinish(c.finish, q)
<1>1. c.tools \in Seq(ToolEntries) /\ c.finish \in Finishings
  BY DEF ChunksSaid
<1>2. OpenAIToClaude(r, c) = f
  BY DEF OpenAIToClaude, ClaudeHearsTexts, TakeCalls, TakeCall, Fold
<1>3. TellsClaude(rd, p) /\ p \in Results /\ Frame(r.st, p.st)
  BY ClaudeTexts
<1> HIDE DEF p
<1>4. TellsClaude(rd, q) /\ q \in Results /\ Frame(p.st, q.st)
  BY <1>1, <1>3, ClaudeTakesCalls DEF TellsClaude
<1> HIDE DEF q
<1>5. /\ f \in Results /\ Frame(q.st, f.st)
      /\ c.finish = "" => TellsClaude(rd, f)
      /\ c.finish # "" => Heard(After(rd, f.out))
  BY <1>1, <1>4, ClaudeEnds
<1> HIDE DEF f
<1>6. Frame(r.st, q.st)
  BY <1>3, <1>4, FrameIsTransitive
<1>7. Frame(r.st, f.st)
  BY <1>5, <1>6, FrameIsTransitive
<1>8. QED
  BY <1>2, <1>5, <1>7 DEF TellsClaude

LEMMA ClaudeHearsKiro ==
  ASSUME NEW rd \in Readers, NEW r \in Results, InClaude(r.st, After(rd, r.out)), NEW c \in ChunksSaid,
         \A i \in 1 .. Len(c.tools) : c.tools[i].id # Nothing =>
           /\ r.st.toolCalls[c.tools[i].at] = NoTool
           /\ \A j \in 1 .. i - 1 : c.tools[j].id # Nothing => c.tools[j].at # c.tools[i].at
  PROVE  /\ KiroToClaude(r, c) \in Results
         /\ Frame(r.st, KiroToClaude(r, c).st)
         /\ c.finish = "" => InClaude(KiroToClaude(r, c).st, After(rd, KiroToClaude(r, c).out))
         /\ c.finish # "" => Heard(After(rd, KiroToClaude(r, c).out))
         /\ \A j \in Slots : r.st.toolCalls[j] = NoTool /\ KiroToClaude(r, c).st.toolCalls[j] # NoTool
              => \E i \in 1 .. Len(c.tools) : c.tools[i].id # Nothing /\ c.tools[i].at = j
<1> DEFINE p == ClaudeHearsTexts(r, c)
           q == TakeKiroCalls(p, c.tools)
           f == ClaudeFinish(c.finish, q)
<1>1. c.tools \in Seq(ToolEntries) /\ c.finish \in Finishings
  BY DEF ChunksSaid
<1>2. KiroToClaude(r, c) = f
  BY DEF KiroToClaude, ClaudeHearsTexts, TakeKiroCalls, TakeKiroCall, Fold
<1>3. TellsClaude(rd, p) /\ p \in Results /\ Frame(r.st, p.st) /\ p.st.toolCalls = r.st.toolCalls
  BY ClaudeTexts
<1> HIDE DEF p
<1>4. /\ TellsClaude(rd, q) /\ q \in Results /\ Frame(p.st, q.st)
      /\ \A j \in Slots : p.st.toolCalls[j] = NoTool /\ q.st.toolCalls[j] # NoTool
           => \E i \in 1 .. Len(c.tools) : c.tools[i].id # Nothing /\ c.tools[i].at = j
  BY <1>1, <1>3, ClaudeTakesKiroCalls, SMTT(30) DEF TellsClaude
<1> HIDE DEF q
<1>5. /\ f \in Results /\ Frame(q.st, f.st) /\ f.st.toolCalls = q.st.toolCalls
      /\ c.finish = "" => TellsClaude(rd, f)
      /\ c.finish # "" => Heard(After(rd, f.out))
  BY <1>1, <1>4, ClaudeEnds
<1> HIDE DEF f
<1>6. Frame(r.st, q.st)
  BY <1>3, <1>4, FrameIsTransitive
<1>7. Frame(r.st, f.st)
  BY <1>5, <1>6, FrameIsTransitive
<1>8. QED
  BY <1>2, <1>3, <1>4, <1>5, <1>7 DEF TellsClaude

-----------------------------------------------------------------------------
(* A client of the Responses API                                           *)

Framed(s, t) == Frame(s, t) /\ t.toolCalls = s.toolCalls

LEMMA FramedIsTransitive ==
  ASSUME NEW s, NEW t, NEW u, Framed(s, t), Framed(t, u)
  PROVE  Framed(s, u)
BY DEF Framed, Frame

Functions2(S) == {Function(i + 1) : i \in S}

Known(s) ==
  (IF s.message = "none" THEN {} ELSE {Message})
    \cup (IF s.reasoning = "none" THEN {} ELSE {Reasoning})
    \cup Functions2(s.funcAdded)

Live(s) ==
  (IF s.message = "open" THEN {Message} ELSE {})
    \cup (IF s.reasoning = "open" THEN {Reasoning} ELSE {})
    \cup Functions2(s.funcAdded \ s.funcDone)

Orderly(s) ==
  /\ ~ s.completed /\ s.funcDone = {}
  /\ \A i \in Slots : s.funcIds[i] = IF i \in s.funcAdded THEN i + 1 ELSE Nothing
  /\ s.inThinking => s.reasoning # "none"
  /\ s.begun \/ (s.message = "none" /\ s.reasoning = "none" /\ s.funcAdded = {})

InResponses(s, rd) == Orderly(s) /\ Sees(rd, s.begun, Known(s), Live(s))

TellsResponses(rd, r) == r \in Results /\ r.st.begun /\ InResponses(r.st, After(rd, r.out))

LEMMA OutputItems ==
  /\ Message \in Keys /\ Reasoning \in Keys /\ Message # Reasoning
  /\ \A c \in Int : Function(c) \in Keys
  /\ \A c : Function(c) # Message /\ Function(c) # Reasoning
  /\ \A c, d : Function(c) = Function(d) => c = d
  /\ \A S \in SUBSET Slots, i \in Slots : Function(i + 1) \in Functions2(S) <=> i \in S
  /\ \A S \in SUBSET Slots, i \in Slots : Functions2(S \cup {i}) = Functions2(S) \cup {Function(i + 1)}
  /\ \A S \in SUBSET Slots, i \in Slots : Functions2(S \ {i}) = Functions2(S) \ {Function(i + 1)}
  /\ \A S \in SUBSET Slots : Message \notin Functions2(S) /\ Reasoning \notin Functions2(S)
<1>1. /\ Message \in Keys /\ Reasoning \in Keys /\ Message # Reasoning
      /\ \A c \in Int : Function(c) \in Keys
      /\ \A c : Function(c) # Message /\ Function(c) # Reasoning
      /\ \A c, d : Function(c) = Function(d) => c = d
  BY DEF Message, Reasoning, Function, Keys
<1>2. Slots \subseteq Int
  BY TranslatorAssumption DEF Slots
<1>3. \A i, j \in Slots : Function(i + 1) = Function(j + 1) => i = j
  <2> TAKE i, j \in Slots
  <2> HAVE Function(i + 1) = Function(j + 1)
  <2>1. i + 1 = j + 1
    BY <1>1
  <2>2. QED
    BY <1>2, <2>1
<1>4. \A S \in SUBSET Slots, i \in Slots : Function(i + 1) \in Functions2(S) <=> i \in S
  BY <1>3 DEF Functions2
<1>5. \A S \in SUBSET Slots, i \in Slots : Functions2(S \cup {i}) = Functions2(S) \cup {Function(i + 1)}
  BY DEF Functions2
<1>6. \A S \in SUBSET Slots, i \in Slots : Functions2(S \ {i}) = Functions2(S) \ {Function(i + 1)}
  BY <1>3 DEF Functions2
<1>7. \A S \in SUBSET Slots : Message \notin Functions2(S) /\ Reasoning \notin Functions2(S)
  BY <1>1 DEF Functions2
<1>8. QED
  BY <1>1, <1>4, <1>5, <1>6, <1>7

(* Whatever the client, the beginning is sent first and once.              *)
LEMMA Begins ==
  ASSUME NEW rd \in Readers, NEW r \in Results, NEW K, NEW O, Sees(After(rd, r.out), r.st.begun, K, O)
  PROVE  /\ MessageStart(r) \in Results
         /\ MessageStart(r).st \in State /\ MessageStart(r).st = [r.st EXCEPT !.begun = TRUE]
         /\ Sees(After(rd, MessageStart(r).out), TRUE, K, O)
         /\ After(rd, MessageStart(r).out).index = After(rd, r.out).index
<1> DEFINE s == [r.st EXCEPT !.begun = TRUE]
<1>1. r.st \in State /\ r.out \in Seq(Events)
  BY DEF Results
<1>2. s \in State
  BY <1>1 DEF State
<1>3. CASE r.st.begun
  <2>1. r.st.begun = TRUE
    BY <1>1, <1>3 DEF State
  <2>2. s = r.st
    BY <1>1, <2>1 DEF State
  <2>3. MessageStart(r) = r
    BY <1>3 DEF MessageStart
  <2> HIDE DEF s
  <2>4. QED
    BY <1>1, <2>1, <2>2, <2>3 DEF s
<1>4. CASE ~ r.st.begun
  <2>1. r.st.begun = FALSE
    BY <1>1, <1>4 DEF State
  <2>2. Begin \in Events
    BY EventFacts
  <2>3. MessageStart(r) = With(s, Append(r.out, Begin))
    <3>1. MessageStart(r) = [With(r.st, Append(r.out, Begin)) EXCEPT !.st.begun = TRUE]
      BY <1>4, <2>2, EmitFacts DEF MessageStart
    <3>2. QED
      BY <3>1 DEF With
  <2> HIDE DEF s
  <2>4. Append(r.out, Begin) \in Seq(Events)
    BY <2>2, EmitFacts
  <2>5. MessageStart(r) \in Results /\ MessageStart(r).st = s /\ MessageStart(r).out = Append(r.out, Begin)
    <3>1. With(s, Append(r.out, Begin)) \in Results
      BY <1>2, <2>4, WithFacts
    <3>2. QED
      BY <2>3, <3>1 DEF With
  <2>6. After(rd, Append(r.out, Begin)) = Read(After(rd, r.out), Begin) /\ After(rd, r.out) \in Readers
    BY <1>1, <2>2, EmitFacts, AfterTyped
  <2>7. /\ Sees(After(rd, Append(r.out, Begin)), TRUE, K, O)
        /\ After(rd, Append(r.out, Begin)).index = After(rd, r.out).index
    BY <2>1, <2>6, ReadBegin
  <2>8. QED
    BY <1>2, <2>5, <2>7 DEF s
<1>5. QED
  BY <1>3, <1>4

LEMMA ResponsesBegun ==
  ASSUME NEW rd \in Readers, NEW r \in Results, InResponses(r.st, After(rd, r.out))
  PROVE  /\ TellsResponses(rd, MessageStart(r)) /\ Framed(r.st, MessageStart(r).st)
         /\ MessageStart(r).st.inThinking = r.st.inThinking
<1> DEFINE s == [r.st EXCEPT !.begun = TRUE]
           q == MessageStart(r)
<1>1. q \in Results /\ q.st = s /\ Sees(After(rd, q.out), TRUE, Known(r.st), Live(r.st))
  BY Begins DEF InResponses
<1>2. r.st \in State
  BY DEF Results
<1>3. /\ s.begun = TRUE /\ Framed(r.st, s) /\ s.message = r.st.message /\ s.reasoning = r.st.reasoning
      /\ s.funcAdded = r.st.funcAdded /\ s.funcDone = r.st.funcDone /\ s.funcIds = r.st.funcIds
      /\ s.inThinking = r.st.inThinking /\ s.completed = r.st.completed
  BY <1>2 DEF State, Framed, Frame
<1> HIDE DEF s, q
<1>4. Known(s) = Known(r.st) /\ Live(s) = Live(r.st) /\ Orderly(s)
  BY <1>3 DEF Known, Live, Orderly, InResponses
<1>5. QED
  BY <1>1, <1>3, <1>4 DEF TellsResponses, InResponses, q

LEMMA ResponsesHeard ==
  ASSUME NEW rd \in Readers, NEW r \in Results, TellsResponses(rd, r)
  PROVE  /\ After(rd, r.out) \in Readers /\ r.st \in State /\ r.out \in Seq(Events)
         /\ r.st.begun = TRUE /\ Orderly(r.st) /\ r.st.funcAdded \in SUBSET Slots
         /\ Sees(After(rd, r.out), TRUE, Known(r.st), Live(r.st))
<1>1. r.st \in State /\ r.out \in Seq(Events)
  BY DEF Results
<1>2. r.st.begun = TRUE /\ r.st.funcAdded \in SUBSET Slots
  BY <1>1 DEF State, TellsResponses
<1>3. QED
  BY <1>1, <1>2, AfterTyped DEF TellsResponses, InResponses

(* A step that emits one event and leaves the state s.                     *)
LEMMA ResponsesStep ==
  ASSUME NEW rd \in Readers, NEW r \in Results, NEW e \in Events, NEW s \in State,
         s.begun, Orderly(s),
         Sees(Read(After(rd, r.out), e), TRUE, Known(s), Live(s))
  PROVE  TellsResponses(rd, With(s, Append(r.out, e))) /\ With(s, Append(r.out, e)).st = s
<1>1. s.begun = TRUE
  BY DEF State
<1>2. Append(r.out, e) \in Seq(Events) /\ After(rd, Append(r.out, e)) = Read(After(rd, r.out), e)
  BY EmitFacts
<1>3. QED
  BY <1>1, <1>2, WithFacts DEF TellsResponses, InResponses

(* A delta of an item the client knows: a call, or one it goes on reading. *)
LEMMA ResponsesDelta ==
  ASSUME NEW rd \in Readers, NEW r \in Results, TellsResponses(rd, r),
         NEW k \in Keys, k \in Known(r.st), k \in Live(r.st) \/ k \in Resumable, NEW n \in Int
  PROVE  /\ TellsResponses(rd, Emit(r, Delta(k, <<n>>))) /\ Emit(r, Delta(k, <<n>>)).st = r.st
<1> DEFINE e == Delta(k, <<n>>)
<1>1. /\ After(rd, r.out) \in Readers /\ r.st \in State /\ r.st.begun = TRUE /\ Orderly(r.st)
      /\ Sees(After(rd, r.out), TRUE, Known(r.st), Live(r.st))
  BY ResponsesHeard
<1>2. <<n>> \in Seq(Int)
  OBVIOUS
<1>3. e \in Events
  BY <1>2, EventFacts DEF Events
<1>4. Sees(Read(After(rd, r.out), e), TRUE, Known(r.st), Live(r.st))
  BY <1>1, <1>2, ReadDelta
<1> HIDE DEF e
<1>5. TellsResponses(rd, With(r.st, Append(r.out, e)))
  BY <1>1, <1>3, <1>4, ResponsesStep
<1>6. QED
  BY <1>3, <1>5, EmitFacts DEF e

LEMMA ReasoningStarts ==
  ASSUME NEW rd \in Readers, NEW r \in Results, TellsResponses(rd, r)
  PROVE  /\ TellsResponses(rd, StartReasoning(r)) /\ Framed(r.st, StartReasoning(r).st)
         /\ Reasoning \in Known(StartReasoning(r).st) /\ StartReasoning(r).st.reasoning # "none"
<1> DEFINE q == StartReasoning(r)
           e == Open(Reasoning, "think", Nothing)
           s == [r.st EXCEPT !.reasoning = "open"]
<1>1. /\ After(rd, r.out) \in Readers /\ r.st \in State /\ r.out \in Seq(Events)
      /\ r.st.begun = TRUE /\ Orderly(r.st) /\ r.st.funcAdded \in SUBSET Slots
      /\ Sees(After(rd, r.out), TRUE, Known(r.st), Live(r.st))
  BY ResponsesHeard
<1>2. CASE r.st.reasoning # "none"
  BY <1>2 DEF StartReasoning, Framed, Frame, Known
<1>3. CASE r.st.reasoning = "none"
  <2>1. /\ s \in State /\ s.begun = TRUE /\ Framed(r.st, s) /\ s.reasoning = "open"
        /\ s.message = r.st.message /\ s.funcAdded = r.st.funcAdded /\ s.funcDone = r.st.funcDone
        /\ s.funcIds = r.st.funcIds /\ s.inThinking = r.st.inThinking /\ s.completed = r.st.completed
    BY <1>1 DEF State, Framed, Frame
  <2>2. e \in Events /\ Reasoning \in Keys /\ "think" \in Kinds /\ Nothing \in Int
    BY OutputItems, EventFacts DEF Events, Kinds, Nothing
  <2>3. q = With(s, Append(r.out, e))
    <3>1. q = [With(r.st, Append(r.out, e)) EXCEPT !.st.reasoning = "open"]
      BY <1>3, <2>2, EmitFacts DEF StartReasoning
    <3>2. QED
      BY <3>1 DEF With
  <2> HIDE DEF s, q
  <2>4. /\ Known(s) = Known(r.st) \cup {Reasoning} /\ Reasoning \notin Known(r.st)
        /\ Live(s) = Live(r.st) \cup {Reasoning}
    <3>1. Reasoning \notin Known(r.st)
      BY <1>1, <1>3, OutputItems DEF Known
    <3>2. QED
      BY <1>3, <2>1, <3>1 DEF Known, Live
  <2>5. Orderly(s)
    BY <1>1, <2>1 DEF Orderly
  <2>6. Sees(Read(After(rd, r.out), e), TRUE, Known(s), Live(s))
    <3>1. Sees(Read(After(rd, r.out), e), TRUE, Known(r.st) \cup {Reasoning}, Live(r.st) \cup {Reasoning})
      BY <1>1, <2>2, <2>4, ReadOpen
    <3>2. QED
      BY <2>4, <3>1
  <2> HIDE DEF e
  <2>7. TellsResponses(rd, With(s, Append(r.out, e))) /\ With(s, Append(r.out, e)).st = s
    BY <2>1, <2>2, <2>5, <2>6, ResponsesStep
  <2>8. QED
    BY <2>1, <2>3, <2>4, <2>7 DEF q
<1>4. QED
  BY <1>2, <1>3

LEMMA ReasoningGoesOn ==
  ASSUME NEW rd \in Readers, NEW r \in Results, TellsResponses(rd, r), NEW n \in Int
  PROVE  /\ TellsResponses(rd, ReasoningDelta(n, r)) /\ Framed(r.st, ReasoningDelta(n, r).st)
<1> DEFINE p == StartReasoning(r)
<1>1. CASE n = Nothing
  BY <1>1 DEF ReasoningDelta, Framed, Frame
<1>2. CASE n # Nothing
  <2>1. TellsResponses(rd, p) /\ p \in Results /\ Framed(r.st, p.st) /\ Reasoning \in Known(p.st)
    BY ReasoningStarts DEF TellsResponses
  <2>2. ReasoningDelta(n, r) = Emit(p, Delta(Reasoning, <<n>>))
    BY <1>2 DEF ReasoningDelta
  <2> HIDE DEF p
  <2>3. Reasoning \in Keys /\ Reasoning \in Resumable
    BY OutputItems DEF Resumable
  <2>4. TellsResponses(rd, Emit(p, Delta(Reasoning, <<n>>))) /\ Emit(p, Delta(Reasoning, <<n>>)).st = p.st
    BY <2>1, <2>3, ResponsesDelta
  <2>5. QED
    BY <2>1, <2>2, <2>4
<1>3. QED
  BY <1>1, <1>2

(* Items are closed also when nothing has begun: there are none then.      *)
FitsResponses(rd, r) == r \in Results /\ InResponses(r.st, After(rd, r.out))

LEMMA ReasoningStops ==
  ASSUME NEW rd \in Readers, NEW r \in Results, FitsResponses(rd, r)
  PROVE  /\ FitsResponses(rd, CloseReasoning(r)) /\ Framed(r.st, CloseReasoning(r).st)
         /\ CloseReasoning(r).st.begun = r.st.begun /\ CloseReasoning(r).st.reasoning # "open"
         /\ CloseReasoning(r).st.message = r.st.message
<1> DEFINE q == CloseReasoning(r)
           e == Close(Reasoning)
           s == [r.st EXCEPT !.reasoning = "done"]
<1>1. CASE r.st.reasoning # "open"
  BY <1>1 DEF CloseReasoning, Framed, Frame
<1>2. CASE r.st.reasoning = "open"
  <2>0. TellsResponses(rd, r)
    BY <1>2 DEF TellsResponses, FitsResponses, InResponses, Orderly
  <2>1. /\ After(rd, r.out) \in Readers /\ r.st \in State /\ r.out \in Seq(Events)
        /\ r.st.begun = TRUE /\ Orderly(r.st) /\ r.st.funcAdded \in SUBSET Slots
        /\ Sees(After(rd, r.out), TRUE, Known(r.st), Live(r.st))
    BY <2>0, ResponsesHeard
  <2>2. /\ s \in State /\ s.begun = TRUE /\ Framed(r.st, s) /\ s.reasoning = "done"
        /\ s.message = r.st.message /\ s.funcAdded = r.st.funcAdded /\ s.funcDone = r.st.funcDone
        /\ s.funcIds = r.st.funcIds /\ s.inThinking = r.st.inThinking /\ s.completed = r.st.completed
    BY <2>1 DEF State, Framed, Frame
  <2>3. e \in Events /\ Reasoning \in Keys
    BY OutputItems, EventFacts DEF Events
  <2>4. q = With(s, Append(r.out, e))
    <3>1. q = [With(r.st, Append(r.out, e)) EXCEPT !.st.reasoning = "done"]
      BY <1>2, <2>3, EmitFacts DEF CloseReasoning
    <3>2. QED
      BY <3>1 DEF With
  <2> HIDE DEF s, q
  <2>5. Known(s) = Known(r.st)
    BY <1>2, <2>2 DEF Known
  <2>6. Live(s) = Live(r.st) \ {Reasoning} /\ Reasoning \in Live(r.st)
    <3>1. r.st.funcAdded \ r.st.funcDone \in SUBSET Slots
      BY <2>1
    <3>2. Reasoning \notin Functions2(r.st.funcAdded \ r.st.funcDone) /\ Reasoning # Message
      BY <3>1, OutputItems
    <3>3. QED
      BY <1>2, <2>2, <3>2 DEF Live
  <2>7. Orderly(s)
    BY <2>1, <2>2 DEF Orderly
  <2>8. Sees(Read(After(rd, r.out), e), TRUE, Known(s), Live(s))
    <3>1. Sees(Read(After(rd, r.out), e), TRUE, Known(r.st), Live(r.st) \ {Reasoning})
      BY <2>1, <2>3, <2>6, ReadClose
    <3>2. QED
      BY <2>5, <2>6, <3>1
  <2> HIDE DEF e
  <2>9. TellsResponses(rd, With(s, Append(r.out, e))) /\ With(s, Append(r.out, e)).st = s
    BY <2>1, <2>2, <2>3, <2>7, <2>8, ResponsesStep
  <2>10. QED
    BY <2>1, <2>2, <2>4, <2>9 DEF q, TellsResponses, FitsResponses
<1>3. QED
  BY <1>1, <1>2

LEMMA MessageStops ==
  ASSUME NEW rd \in Readers, NEW r \in Results, FitsResponses(rd, r)
  PROVE  /\ FitsResponses(rd, CloseMessage(r)) /\ Framed(r.st, CloseMessage(r).st)
         /\ CloseMessage(r).st.begun = r.st.begun /\ CloseMessage(r).st.message # "open"
<1> DEFINE q == CloseMessage(r)
           e == Close(Message)
           s == [r.st EXCEPT !.message = "done"]
<1>1. CASE r.st.message # "open"
  BY <1>1 DEF CloseMessage, Framed, Frame
<1>2. CASE r.st.message = "open"
  <2>0. TellsResponses(rd, r)
    BY <1>2 DEF TellsResponses, FitsResponses, InResponses, Orderly
  <2>1. /\ After(rd, r.out) \in Readers /\ r.st \in State /\ r.out \in Seq(Events)
        /\ r.st.begun = TRUE /\ Orderly(r.st) /\ r.st.funcAdded \in SUBSET Slots
        /\ Sees(After(rd, r.out), TRUE, Known(r.st), Live(r.st))
    BY <2>0, ResponsesHeard
  <2>2. /\ s \in State /\ s.begun = TRUE /\ Framed(r.st, s) /\ s.message = "done"
        /\ s.reasoning = r.st.reasoning /\ s.funcAdded = r.st.funcAdded /\ s.funcDone = r.st.funcDone
        /\ s.funcIds = r.st.funcIds /\ s.inThinking = r.st.inThinking /\ s.completed = r.st.completed
    BY <2>1 DEF State, Framed, Frame
  <2>3. e \in Events /\ Message \in Keys
    BY OutputItems, EventFacts DEF Events
  <2>4. q = With(s, Append(r.out, e))
    <3>1. q = [With(r.st, Append(r.out, e)) EXCEPT !.st.message = "done"]
      BY <1>2, <2>3, EmitFacts DEF CloseMessage
    <3>2. QED
      BY <3>1 DEF With
  <2> HIDE DEF s, q
  <2>5. Known(s) = Known(r.st)
    BY <1>2, <2>2 DEF Known
  <2>6. Live(s) = Live(r.st) \ {Message} /\ Message \in Live(r.st)
    <3>1. r.st.funcAdded \ r.st.funcDone \in SUBSET Slots
      BY <2>1
    <3>2. Message \notin Functions2(r.st.funcAdded \ r.st.funcDone) /\ Reasoning # Message
      BY <3>1, OutputItems
    <3>3. QED
      BY <1>2, <2>2, <3>2 DEF Live
  <2>7. Orderly(s)
    BY <2>1, <2>2 DEF Orderly
  <2>8. Sees(Read(After(rd, r.out), e), TRUE, Known(s), Live(s))
    <3>1. Sees(Read(After(rd, r.out), e), TRUE, Known(r.st), Live(r.st) \ {Message})
      BY <2>1, <2>3, <2>6, ReadClose
    <3>2. QED
      BY <2>5, <2>6, <3>1
  <2> HIDE DEF e
  <2>9. TellsResponses(rd, With(s, Append(r.out, e))) /\ With(s, Append(r.out, e)).st = s
    BY <2>1, <2>2, <2>3, <2>7, <2>8, ResponsesStep
  <2>10. QED
    BY <2>1, <2>2, <2>4, <2>9 DEF q, TellsResponses, FitsResponses
<1>3. QED
  BY <1>1, <1>2

(* The message, opened if it is not.                                       *)
OpenMessage(r) ==
  IF r.st.message # "none" THEN r
  ELSE [Emit(r, Open(Message, "text", Nothing)) EXCEPT !.st.message = "open"]

LEMMA MessageOpens ==
  ASSUME NEW rd \in Readers, NEW r \in Results, TellsResponses(rd, r)
  PROVE  /\ TellsResponses(rd, OpenMessage(r)) /\ OpenMessage(r) \in Results /\ Framed(r.st, OpenMessage(r).st)
         /\ Message \in Known(OpenMessage(r).st) /\ OpenMessage(r).st.message # "none"
<1> DEFINE p == OpenMessage(r)
           e == Open(Message, "text", Nothing)
           s == [r.st EXCEPT !.message = "open"]
<1>1. /\ After(rd, r.out) \in Readers /\ r.st \in State /\ r.out \in Seq(Events)
      /\ r.st.begun = TRUE /\ Orderly(r.st) /\ r.st.funcAdded \in SUBSET Slots
      /\ Sees(After(rd, r.out), TRUE, Known(r.st), Live(r.st))
  BY ResponsesHeard
<1>2. /\ TellsResponses(rd, p) /\ p \in Results /\ Framed(r.st, p.st)
      /\ Message \in Known(p.st) /\ p.st.message # "none"
  <2>1. CASE r.st.message # "none"
    BY <2>1 DEF Framed, Frame, Known, TellsResponses, OpenMessage
  <2>2. CASE r.st.message = "none"
    <3>1. /\ s \in State /\ s.begun = TRUE /\ Framed(r.st, s) /\ s.message = "open"
          /\ s.reasoning = r.st.reasoning /\ s.funcAdded = r.st.funcAdded /\ s.funcDone = r.st.funcDone
          /\ s.funcIds = r.st.funcIds /\ s.inThinking = r.st.inThinking /\ s.completed = r.st.completed
      BY <1>1 DEF State, Framed, Frame
    <3>2. e \in Events /\ Message \in Keys /\ "text" \in Kinds /\ Nothing \in Int
      BY OutputItems, EventFacts DEF Events, Kinds, Nothing
    <3>3. p = With(s, Append(r.out, e))
      <4>1. p = [With(r.st, Append(r.out, e)) EXCEPT !.st.message = "open"]
        BY <2>2, <3>2, EmitFacts DEF OpenMessage
      <4>2. QED
        BY <4>1 DEF With
    <3> HIDE DEF s, p
    <3>4. /\ Known(s) = Known(r.st) \cup {Message} /\ Message \notin Known(r.st)
          /\ Live(s) = Live(r.st) \cup {Message}
      <4>1. Message \notin Known(r.st)
        BY <1>1, <2>2, OutputItems DEF Known
      <4>2. QED
        BY <2>2, <3>1, <4>1 DEF Known, Live
    <3>5. Orderly(s)
      BY <1>1, <3>1 DEF Orderly
    <3>6. Sees(Read(After(rd, r.out), e), TRUE, Known(s), Live(s))
      <4>1. Sees(Read(After(rd, r.out), e), TRUE, Known(r.st) \cup {Message}, Live(r.st) \cup {Message})
        BY <1>1, <3>2, <3>4, ReadOpen
      <4>2. QED
        BY <3>4, <4>1
    <3> HIDE DEF e
    <3>7. TellsResponses(rd, With(s, Append(r.out, e))) /\ With(s, Append(r.out, e)).st = s
      BY <3>1, <3>2, <3>5, <3>6, ResponsesStep
    <3>8. QED
      BY <3>1, <3>3, <3>4, <3>7 DEF TellsResponses
  <2>3. QED
    BY <2>1, <2>2
<1>3. QED
  BY <1>2

LEMMA TextIsTold ==
  ASSUME NEW rd \in Readers, NEW r \in Results, TellsResponses(rd, r), NEW n \in Int
  PROVE  TellsResponses(rd, EmitTextContent(n, r)) /\ Framed(r.st, EmitTextContent(n, r).st)
<1> DEFINE p == OpenMessage(r)
<1>1. EmitTextContent(n, r) = Emit(p, Delta(Message, <<n>>))
  BY DEF EmitTextContent, OpenMessage
<1>2. TellsResponses(rd, p) /\ p \in Results /\ Framed(r.st, p.st) /\ Message \in Known(p.st)
  BY MessageOpens
<1> HIDE DEF p
<1>3. Message \in Keys /\ Message \in Resumable
  BY OutputItems DEF Resumable
<1>4. TellsResponses(rd, Emit(p, Delta(Message, <<n>>))) /\ Emit(p, Delta(Message, <<n>>)).st = p.st
  BY <1>2, <1>3, ResponsesDelta
<1>5. QED
  BY <1>1, <1>2, <1>4

LEMMA ThinkingIsSet ==
  ASSUME NEW rd \in Readers, NEW r \in Results, TellsResponses(rd, r),
         NEW b \in BOOLEAN, b => r.st.reasoning # "none"
  PROVE  TellsResponses(rd, [r EXCEPT !.st.inThinking = b]) /\ Framed(r.st, [r EXCEPT !.st.inThinking = b].st)
<1> DEFINE s == [r.st EXCEPT !.inThinking = b]
           q == [r EXCEPT !.st.inThinking = b]
<1>1. /\ r.st \in State /\ r.out \in Seq(Events)
      /\ r.st.begun = TRUE /\ Orderly(r.st)
      /\ Sees(After(rd, r.out), TRUE, Known(r.st), Live(r.st))
  BY ResponsesHeard
<1>2. r = With(r.st, r.out)
  BY DEF Results, With
<1>3. q = With(s, r.out)
  BY <1>2 DEF With
<1>4. /\ s \in State /\ s.begun = TRUE /\ Framed(r.st, s) /\ s.reasoning = r.st.reasoning
      /\ s.message = r.st.message /\ s.funcAdded = r.st.funcAdded /\ s.funcDone = r.st.funcDone
      /\ s.funcIds = r.st.funcIds /\ s.inThinking = b /\ s.completed = r.st.completed
  BY <1>1 DEF State, Framed, Frame
<1> HIDE DEF s, q
<1>5. Known(s) = Known(r.st) /\ Live(s) = Live(r.st)
  BY <1>4 DEF Known, Live
<1>6. Orderly(s)
  BY <1>1, <1>4 DEF Orderly
<1>7. With(s, r.out) \in Results /\ With(s, r.out).st = s /\ With(s, r.out).out = r.out
  BY <1>1, <1>4, WithFacts
<1>8. QED
  BY <1>1, <1>3, <1>4, <1>5, <1>6, <1>7 DEF TellsResponses, InResponses, q

LEMMA ContentIsTold ==
  ASSUME NEW rd \in Readers, NEW r \in Results, TellsResponses(rd, r), NEW n \in Int
  PROVE  TellsResponses(rd, EmitContent(n, r)) /\ Framed(r.st, EmitContent(n, r).st)
<1>0. FitsResponses(rd, r)
  BY DEF FitsResponses, TellsResponses
<1>1. CASE n = Nothing
  <2>1. EmitContent(n, r) = r
    BY <1>1 DEF EmitContent, OpenTag, CloseTag, Nothing
  <2>2. QED
    BY <2>1 DEF Framed, Frame
<1>2. CASE n = OpenTag
  <2> DEFINE p == StartReasoning(r)
  <2>1. TellsResponses(rd, p) /\ p \in Results /\ Framed(r.st, p.st) /\ p.st.reasoning # "none"
    BY ReasoningStarts DEF TellsResponses
  <2>2. EmitContent(n, r) = [p EXCEPT !.st.inThinking = TRUE]
    BY <1>2 DEF EmitContent, OpenTag, CloseTag, Nothing
  <2> HIDE DEF p
  <2>3. /\ TellsResponses(rd, [p EXCEPT !.st.inThinking = TRUE])
        /\ Framed(p.st, [p EXCEPT !.st.inThinking = TRUE].st)
    BY <2>1, ThinkingIsSet
  <2>4. QED
    BY <2>1, <2>2, <2>3, FramedIsTransitive
<1>3. CASE n = CloseTag
  <2> DEFINE p == CloseReasoning(r)
  <2>1. TellsResponses(rd, p) /\ p \in Results /\ Framed(r.st, p.st)
    BY <1>0, ReasoningStops DEF TellsResponses, FitsResponses
  <2>2. EmitContent(n, r) = [p EXCEPT !.st.inThinking = FALSE]
    BY <1>3 DEF EmitContent, OpenTag, CloseTag, Nothing
  <2> HIDE DEF p
  <2>3. /\ TellsResponses(rd, [p EXCEPT !.st.inThinking = FALSE])
        /\ Framed(p.st, [p EXCEPT !.st.inThinking = FALSE].st)
    BY <2>1, ThinkingIsSet
  <2>4. QED
    BY <2>1, <2>2, <2>3, FramedIsTransitive
<1>4. CASE n > 0 /\ r.st.inThinking
  <2>1. EmitContent(n, r) = Emit(r, Delta(Reasoning, <<n>>))
    BY <1>4 DEF EmitContent, OpenTag, CloseTag, Nothing
  <2>2. Reasoning \in Keys /\ Reasoning \in Known(r.st) /\ Reasoning \in Resumable
    BY <1>4, OutputItems DEF TellsResponses, InResponses, Orderly, Known, Resumable
  <2>3. TellsResponses(rd, Emit(r, Delta(Reasoning, <<n>>))) /\ Emit(r, Delta(Reasoning, <<n>>)).st = r.st
    BY <2>2, ResponsesDelta
  <2>4. QED
    BY <2>1, <2>3 DEF Framed, Frame
<1>5. CASE n # Nothing /\ n # OpenTag /\ n # CloseTag /\ ~ (n > 0 /\ r.st.inThinking)
  <2>1. EmitContent(n, r) = EmitTextContent(n, r)
    BY <1>5 DEF EmitContent
  <2>2. QED
    BY <2>1, TextIsTold
<1>6. QED
  BY <1>1, <1>2, <1>3, <1>4, <1>5

Numbered(t) == t.id \in {Nothing, t.at + 1}

(* The id of an entry's call, whose item is added if it has not been.      *)
CallOf(r, t) == IF t.id # Nothing THEN t.id ELSE r.st.funcIds[t.at]
AddItem(r, t) ==
  IF CallOf(r, t) = Nothing \/ t.at \in r.st.funcAdded THEN r
  ELSE [Emit(r, Open(Function(CallOf(r, t)), "call", CallOf(r, t)))
          EXCEPT !.st.funcIds[t.at] = CallOf(r, t), !.st.funcAdded = @ \cup {t.at}]

LEMMA ItemIsAdded ==
  ASSUME NEW rd \in Readers, NEW r \in Results, TellsResponses(rd, r), NEW t \in ToolEntries, Numbered(t)
  PROVE  /\ TellsResponses(rd, AddItem(r, t)) /\ AddItem(r, t) \in Results
         /\ Framed(r.st, AddItem(r, t).st) /\ AddItem(r, t).st.funcAdded \in SUBSET Slots
         /\ t.at \in AddItem(r, t).st.funcAdded => CallOf(r, t) = t.at + 1
         /\ CallOf(r, t) \in {Nothing, t.at + 1}
<1> DEFINE c == CallOf(r, t)
           e == Open(Function(c), "call", c)
           q == AddItem(r, t)
           ids == [r.st.funcIds EXCEPT ![t.at] = c]
           added == r.st.funcAdded \cup {t.at}
           s1 == [r.st EXCEPT !.funcIds = ids]
           s == [s1 EXCEPT !.funcAdded = added]
<1>1. /\ After(rd, r.out) \in Readers /\ r.st \in State /\ r.out \in Seq(Events)
      /\ r.st.begun = TRUE /\ Orderly(r.st) /\ r.st.funcAdded \in SUBSET Slots
      /\ Sees(After(rd, r.out), TRUE, Known(r.st), Live(r.st))
  BY ResponsesHeard
<1>2. t.at \in Slots /\ t.at \in Nat /\ t.id \in Nat /\ t.args \in Int
  BY TranslatorAssumption DEF ToolEntries, Slots
<1>3. c = Nothing \/ c = t.at + 1
  BY <1>1, <1>2 DEF Orderly, Numbered, Nothing, CallOf
<1>4. t.at \in r.st.funcAdded => c = t.at + 1
  BY <1>1, <1>2 DEF Orderly, Numbered, Nothing, CallOf
<1>5. c \in Int /\ t.at + 1 # Nothing /\ Function(c) \in Keys
  BY <1>2, <1>3, OutputItems DEF Nothing
<1>6. /\ TellsResponses(rd, q) /\ q \in Results /\ Framed(r.st, q.st) /\ q.st.funcAdded \in SUBSET Slots
      /\ t.at \in q.st.funcAdded => c = t.at + 1
  <2>1. CASE c = Nothing \/ t.at \in r.st.funcAdded
    BY <1>1, <1>4, <2>1 DEF TellsResponses, Framed, Frame, AddItem
  <2>2. CASE ~ (c = Nothing \/ t.at \in r.st.funcAdded)
    <3>1. e \in Events /\ "call" \in Kinds
      BY <1>5, EventFacts DEF Events, Kinds
    <3>2. q = With(s, Append(r.out, e))
      <4>1. q = [With(r.st, Append(r.out, e)) EXCEPT !.st.funcIds[t.at] = c, !.st.funcAdded = @ \cup {t.at}]
        BY <2>2, <3>1, EmitFacts DEF AddItem
      <4> HIDE DEF c, e, q
      <4>2. QED
        BY <4>1 DEF With
    <3>3. c = t.at + 1
      BY <1>3, <2>2
    <3>4. ids \in [Slots -> Int] /\ ids[t.at] = t.at + 1 /\ \A i \in Slots : i # t.at => ids[i] = r.st.funcIds[i]
      <4>1. r.st.funcIds \in [Slots -> Int]
        BY <1>1 DEF State
      <4> HIDE DEF c
      <4>2. QED
        BY <1>2, <1>5, <3>3, <4>1
    <3>5. added \in SUBSET Slots
      BY <1>1, <1>2
    <3> HIDE DEF ids, added, q, c
    <3>6. /\ s1 \in State /\ s1.begun = TRUE /\ Framed(r.st, s1) /\ s1.reasoning = r.st.reasoning
          /\ s1.message = r.st.message /\ s1.funcDone = r.st.funcDone
          /\ s1.funcIds = ids /\ s1.inThinking = r.st.inThinking /\ s1.completed = r.st.completed
      BY <1>1, <3>4 DEF State, Framed, Frame
    <3> HIDE DEF s1
    <3>7. /\ s \in State /\ s.begun = TRUE /\ Framed(r.st, s) /\ s.reasoning = r.st.reasoning
          /\ s.message = r.st.message /\ s.funcDone = r.st.funcDone /\ s.funcAdded = added
          /\ s.funcIds = ids /\ s.inThinking = r.st.inThinking /\ s.completed = r.st.completed
      BY <3>5, <3>6 DEF State, Framed, Frame
    <3> HIDE DEF s
    <3>8. /\ Known(s) = Known(r.st) \cup {Function(c)} /\ Function(c) \notin Known(r.st)
          /\ Live(s) = Live(r.st) \cup {Function(c)}
      <4>1. Functions2(added) = Functions2(r.st.funcAdded) \cup {Function(c)}
        BY <1>1, <1>2, <3>3, OutputItems DEF added
      <4>2. Function(c) \notin Functions2(r.st.funcAdded) /\ Function(c) # Message /\ Function(c) # Reasoning
        BY <1>1, <1>2, <2>2, <3>3, OutputItems
      <4>3. r.st.funcDone = {} /\ r.st.funcAdded \ {} = r.st.funcAdded /\ added \ {} = added
        BY <1>1 DEF Orderly
      <4>4. QED
        BY <3>7, <4>1, <4>2, <4>3 DEF Known, Live
    <3>9. Orderly(s)
      BY <1>1, <3>4, <3>7 DEF Orderly, added
    <3>10. Sees(Read(After(rd, r.out), e), TRUE, Known(s), Live(s))
      <4>1. Sees(Read(After(rd, r.out), e), TRUE, Known(r.st) \cup {Function(c)}, Live(r.st) \cup {Function(c)})
        BY <1>1, <1>5, <3>1, <3>8, ReadOpen
      <4>2. QED
        BY <3>8, <4>1
    <3> HIDE DEF e
    <3>11. TellsResponses(rd, With(s, Append(r.out, e))) /\ With(s, Append(r.out, e)).st = s
      BY <3>1, <3>7, <3>9, <3>10, ResponsesStep
    <3>12. QED
      BY <3>2, <3>3, <3>5, <3>7, <3>11 DEF TellsResponses
  <2>3. QED
    BY <2>1, <2>2
<1>7. QED
  BY <1>3, <1>6

LEMMA CallIsTold ==
  ASSUME NEW rd \in Readers, NEW r \in Results, TellsResponses(rd, r), NEW t \in ToolEntries, Numbered(t)
  PROVE  TellsResponses(rd, EmitToolCall(r, t)) /\ Framed(r.st, EmitToolCall(r, t).st)
<1> DEFINE c == CallOf(r, t)
           q == AddItem(r, t)
<1>1. /\ TellsResponses(rd, q) /\ q \in Results /\ Framed(r.st, q.st) /\ q.st.funcAdded \in SUBSET Slots
      /\ t.at \in q.st.funcAdded => c = t.at + 1
  BY ItemIsAdded
<1>2. t.at \in Slots /\ t.at + 1 \in Int /\ t.args \in Int
  BY TranslatorAssumption DEF ToolEntries, Slots
<1>3. EmitToolCall(r, t) = IF t.args = Nothing \/ t.at \notin q.st.funcAdded THEN q
                           ELSE Emit(q, Delta(Function(c), <<t.args>>))
  BY DEF EmitToolCall, AddItem, CallOf
<1> HIDE DEF q, c
<1>4. CASE t.args = Nothing \/ t.at \notin q.st.funcAdded
  BY <1>1, <1>3, <1>4
<1>5. CASE ~ (t.args = Nothing \/ t.at \notin q.st.funcAdded)
  <2>1. Function(c) \in Known(q.st) /\ Function(c) \in Live(q.st) /\ Function(c) \in Keys
    BY <1>1, <1>2, <1>5, OutputItems DEF Known, Live, TellsResponses, InResponses, Orderly
  <2>2. /\ TellsResponses(rd, Emit(q, Delta(Function(c), <<t.args>>)))
        /\ Emit(q, Delta(Function(c), <<t.args>>)).st = q.st
    BY <1>1, <1>2, <2>1, ResponsesDelta
  <2>3. QED
    BY <1>1, <1>3, <1>5, <2>2
<1>6. QED
  BY <1>4, <1>5

TellCalls(r, tools) == Fold(EmitToolCall, r, tools)

LEMMA CallsAreTold ==
  ASSUME NEW rd \in Readers, NEW r \in Results, TellsResponses(rd, r), NEW tools \in Seq(ToolEntries),
         \A i \in 1 .. Len(tools) : Numbered(tools[i])
  PROVE  TellsResponses(rd, TellCalls(r, tools)) /\ Framed(r.st, TellCalls(r, tools).st)
<1> DEFINE n == Len(tools)
           good == {x \in Results : TellsResponses(rd, x) /\ Framed(r.st, x.st)}
           step == [i \in 1 .. n |-> [x \in good |-> EmitToolCall(x, tools[i])]]
           D == [i \in 0 .. n |-> good]
           Runs2(f) == f = [i \in 0 .. n |-> IF i = 0 THEN r ELSE EmitToolCall(f[i - 1], tools[i])]
<1>1. n \in Nat /\ \A i \in 1 .. n : tools[i] \in ToolEntries
  OBVIOUS
<1>2. \A i \in 1 .. n : \A x \in good : step[i][x] = EmitToolCall(x, tools[i]) /\ EmitToolCall(x, tools[i]) \in good
  BY <1>1, CallIsTold, FramedIsTransitive DEF TellsResponses
<1>3. \A i \in 1 .. n : D[i - 1] = good /\ D[i] = good
  BY <1>1
<1>4. r \in D[0]
  BY <1>1 DEF Framed, Frame
<1>5. \E f : Runs2(f)
  <2> HIDE DEF step, D, n
  <2>0. \A i \in 1 .. n : \A x \in D[i - 1] : step[i][x] \in D[i]
    <3> HIDE DEF good
    <3> TAKE i \in 1 .. n
    <3> TAKE x \in D[i - 1]
    <3>1. x \in good
      BY <1>3
    <3>2. QED
      BY <1>2, <1>3, <3>1
  <2>1. PICK f : Loop(f, n, r, step) /\ \A i \in 0 .. n : f[i] \in D[i]
    BY <1>1, <1>4, <2>0, LoopRuns
  <2>2. \A i \in 0 .. n : f[i] \in good
    BY <2>1 DEF D
  <2>3. \A i \in 0 .. n : i # 0 => step[i][f[i - 1]] = EmitToolCall(f[i - 1], tools[i])
    <3> HIDE DEF good
    <3> TAKE i \in 0 .. n
    <3> HAVE i # 0
    <3>1. i \in 1 .. n /\ i - 1 \in 0 .. n
      BY <1>1
    <3>2. QED
      BY <1>2, <2>2, <3>1
  <2>4. [i \in 0 .. n |-> IF i = 0 THEN r ELSE step[i][f[i - 1]]]
          = [i \in 0 .. n |-> IF i = 0 THEN r ELSE EmitToolCall(f[i - 1], tools[i])]
    BY <2>3
  <2>5. QED
    BY <2>1, <2>4 DEF Loop
<1>6. PICK g : Runs2(g) /\ TellCalls(r, tools) = g[n]
  BY <1>5 DEF TellCalls, Fold
<1>7. g[0] = r /\ \A i \in 1 .. n : g[i] = EmitToolCall(g[i - 1], tools[i])
  BY <1>1, <1>6
<1> HIDE DEF good
<1>8. g[0] \in D[0] /\ \A i \in 1 .. n : g[i - 1] \in D[i - 1] => g[i] \in D[i]
  BY <1>1, <1>2, <1>3, <1>4, <1>7
<1> HIDE DEF n
<1>9. \A i \in 0 .. n : g[i] \in D[i]
  BY <1>1, <1>8, Kept
<1>10. g[n] \in good
  BY <1>1, <1>9
<1>11. QED
  BY <1>6, <1>10 DEF good

(* At the end the calls are closed in the order of their slots: the first  *)
(* k of them are.                                                          *)
FirstDone(s, k) == {i \in s.funcAdded : i < k}
StillOpen(s, k) == {i \in s.funcAdded : i >= k}

Finishing(rd, s, k) ==
  {x \in Results : /\ x.st = [s EXCEPT !.funcDone = FirstDone(s, k)]
                   /\ Sees(After(rd, x.out), s.begun, Known(s), Functions2(StillOpen(s, k)))}

LEMMA CallIsClosed ==
  ASSUME NEW rd \in Readers, NEW s \in State, Orderly(s),
         NEW k \in 1 .. LastSlot + 1, NEW x \in Finishing(rd, s, k - 1)
  PROVE  CloseToolCall(x, k - 1) \in Finishing(rd, s, k)
<1> DEFINE i == k - 1
           before == FirstDone(s, i)
           after == FirstDone(s, k)
           s1 == [s EXCEPT !.funcDone = before]
           s2 == [s EXCEPT !.funcDone = after]
           key == Function(i + 1)
           e == Close(key)
<1>1. /\ x \in Results /\ x.st = s1 /\ x.out \in Seq(Events)
      /\ Sees(After(rd, x.out), s.begun, Known(s), Functions2(StillOpen(s, i)))
  BY DEF Finishing, Results
<1>2. /\ i \in Slots /\ i \in Nat /\ k \in Nat /\ Slots \subseteq Int /\ s.funcAdded \in SUBSET Slots
  BY TranslatorAssumption DEF Slots, State
<1>3. before \in SUBSET Slots /\ after \in SUBSET Slots /\ StillOpen(s, i) \in SUBSET Slots
  BY <1>2 DEF FirstDone, StillOpen
<1> HIDE DEF before, after
<1>4. /\ s1.funcIds = s.funcIds /\ s1.funcDone = before /\ [s1 EXCEPT !.funcDone = after] = s2
      /\ s2 \in State
  BY <1>3 DEF State
<1> HIDE DEF s1, s2
<1>5. CASE i \notin s.funcAdded
  <2>1. s.funcIds[i] = Nothing
    BY <1>2, <1>5 DEF Orderly
  <2>2. CloseToolCall(x, i) = x
    BY <1>1, <1>4, <2>1 DEF CloseToolCall
  <2>3. before = after /\ StillOpen(s, i) = StillOpen(s, k)
    <3>1. ASSUME NEW j \in s.funcAdded PROVE (j < i <=> j < k) /\ (j >= i <=> j >= k)
      <4>1. j \in Int /\ j # k - 1
        BY <1>2, <1>5
      <4>2. QED
        BY <1>2, <4>1
    <3> HIDE DEF i
    <3>2. QED
      BY <3>1 DEF before, after, FirstDone, StillOpen
  <2>4. QED
    BY <1>1, <2>2, <2>3 DEF Finishing, s1, before, after
<1>6. CASE i \in s.funcAdded
  <2>1. s.funcIds[i] = i + 1 /\ i + 1 # Nothing /\ s.begun
    BY <1>2, <1>6 DEF Orderly, Nothing
  <2>2. s.begun = TRUE
    BY <2>1 DEF State
  <2>3. i \notin before /\ before \cup {i} = after /\ StillOpen(s, k) = StillOpen(s, i) \ {i} /\ i \in StillOpen(s, i)
    <3>1. ASSUME NEW j \in s.funcAdded PROVE (j < k <=> j < i \/ j = i) /\ (j >= k <=> j >= i /\ j # i)
      <4>1. j \in Int
        BY <1>2
      <4>2. QED
        BY <1>2, <4>1
    <3>2. ~ (i < i) /\ i >= i
      BY <1>2
    <3> HIDE DEF i
    <3>3. QED
      BY <1>6, <3>1, <3>2 DEF before, after, FirstDone, StillOpen
  <2>4. key \in Keys /\ key \in Functions2(StillOpen(s, i)) /\ Functions2(StillOpen(s, k)) = Functions2(StillOpen(s, i)) \ {key}
    BY <1>2, <1>3, <2>3, OutputItems
  <2> HIDE DEF key
  <2>5. e \in Events
    BY <2>4, EventFacts DEF Events
  <2>6. After(rd, x.out) \in Readers
    BY <1>1, AfterTyped
  <2>7. CloseToolCall(x, i) = With(s2, Append(x.out, e))
    <3>1. CloseToolCall(x, i) = [Emit(x, e) EXCEPT !.st.funcDone = @ \cup {i}]
      BY <1>1, <1>4, <2>1, <2>3 DEF CloseToolCall, key
    <3>2. Emit(x, e) = With(s1, Append(x.out, e))
      BY <1>1, <2>5, EmitFacts
    <3>3. CloseToolCall(x, i) = [With(s1, Append(x.out, e)) EXCEPT !.st.funcDone = @ \cup {i}]
      BY <3>1, <3>2
    <3> HIDE DEF e
    <3>4. CloseToolCall(x, i) = With([s1 EXCEPT !.funcDone = before \cup {i}], Append(x.out, e))
      BY <1>4, <3>3 DEF With
    <3>5. QED
      BY <1>4, <2>3, <3>4
  <2>8. Sees(Read(After(rd, x.out), e), TRUE, Known(s), Functions2(StillOpen(s, i)) \ {key})
    BY <1>1, <2>2, <2>4, <2>6, ReadClose
  <2> HIDE DEF e
  <2>9. Append(x.out, e) \in Seq(Events) /\ After(rd, Append(x.out, e)) = Read(After(rd, x.out), e)
    BY <1>1, <2>5, EmitFacts
  <2>10. /\ With(s2, Append(x.out, e)) \in Results /\ With(s2, Append(x.out, e)).st = s2
         /\ With(s2, Append(x.out, e)).out = Append(x.out, e)
    BY <1>4, <2>9, WithFacts
  <2>11. With(s2, Append(x.out, e)) \in Finishing(rd, s, k)
    BY <2>2, <2>4, <2>8, <2>9, <2>10 DEF Finishing, s2, after
  <2>12. QED
    BY <2>7, <2>11
<1>7. QED
  BY <1>5, <1>6

SlotsInOrder == [n \in 1 .. LastSlot + 1 |-> n - 1]
CloseCalls(r) == Fold(CloseToolCall, r, SlotsInOrder)

(* The rounds of the loop.                                                 *)
ClosingCalls(g, rd, r) ==
  /\ g[0] = r /\ g[LastSlot + 1] = CloseCalls(r)
  /\ \A i \in 1 .. LastSlot + 1 : g[i] = CloseToolCall(g[i - 1], i - 1)
  /\ \A i \in 0 .. LastSlot + 1 : g[i] \in Finishing(rd, r.st, i)

LEMMA CloseCallsRuns ==
  ASSUME NEW rd \in Readers, NEW r \in Results, FitsResponses(rd, r),
         r.st.message # "open", r.st.reasoning # "open"
  PROVE  \E g : ClosingCalls(g, rd, r)
<1> DEFINE s == r.st
           n == LastSlot + 1
           nums == SlotsInOrder
           step == [i \in 1 .. n |-> [x \in Finishing(rd, s, i - 1) |-> CloseToolCall(x, nums[i])]]
           D == [i \in 0 .. n |-> Finishing(rd, s, i)]
           Runs2(f) == f = [i \in 0 .. n |-> IF i = 0 THEN r ELSE CloseToolCall(f[i - 1], nums[i])]
<1>0. s \in State /\ Orderly(s) /\ Sees(After(rd, r.out), s.begun, Known(s), Live(s))
  BY DEF FitsResponses, InResponses, Results
<1>1. n \in Nat /\ Len(nums) = n /\ \A i \in 1 .. n : nums[i] = i - 1
  BY TranslatorAssumption DEF SlotsInOrder
<1>2. \A i \in 1 .. n : \A x \in Finishing(rd, s, i - 1) :
        step[i][x] = CloseToolCall(x, nums[i]) /\ CloseToolCall(x, nums[i]) \in Finishing(rd, s, i)
  <2> HIDE DEF nums, s
  <2>1. QED
    BY <1>0, <1>1, CallIsClosed
<1> HIDE DEF nums
<1>3. \A i \in 1 .. n : D[i - 1] = Finishing(rd, s, i - 1) /\ D[i] = Finishing(rd, s, i)
  <2> HIDE DEF s
  <2>1. QED
    BY <1>1
<1>4. r \in D[0]
  <2>1. FirstDone(s, 0) = {} /\ StillOpen(s, 0) = s.funcAdded
    BY <1>0, TranslatorAssumption DEF FirstDone, StillOpen, State, Slots
  <2>2. s.funcDone = {} /\ s = [s EXCEPT !.funcDone = {}]
    BY <1>0 DEF State, Orderly
  <2>3. Live(s) = Functions2(s.funcAdded)
    BY <2>2 DEF Live
  <2>4. D[0] = Finishing(rd, s, 0)
    BY <1>1
  <2>5. QED
    BY <1>0, <2>1, <2>2, <2>3, <2>4 DEF Finishing
<1> HIDE DEF s
<1>5. \E f : Runs2(f)
  <2> HIDE DEF step, D, n
  <2>0. \A i \in 1 .. n : \A x \in D[i - 1] : step[i][x] \in D[i]
    <3> TAKE i \in 1 .. n
    <3> TAKE x \in D[i - 1]
    <3>1. x \in Finishing(rd, s, i - 1)
      BY <1>3
    <3>2. QED
      BY <1>2, <1>3, <3>1
  <2>1. PICK f : Loop(f, n, r, step) /\ \A i \in 0 .. n : f[i] \in D[i]
    BY <1>1, <1>4, <2>0, LoopRuns
  <2>2. \A i \in 0 .. n : f[i] \in Finishing(rd, s, i)
    BY <2>1 DEF D
  <2>3. \A i \in 0 .. n : i # 0 => step[i][f[i - 1]] = CloseToolCall(f[i - 1], nums[i])
    <3> TAKE i \in 0 .. n
    <3> HAVE i # 0
    <3>1. i \in 1 .. n /\ i - 1 \in 0 .. n
      BY <1>1
    <3>2. QED
      BY <1>2, <2>2, <3>1
  <2>4. [i \in 0 .. n |-> IF i = 0 THEN r ELSE step[i][f[i - 1]]]
          = [i \in 0 .. n |-> IF i = 0 THEN r ELSE CloseToolCall(f[i - 1], nums[i])]
    BY <2>3
  <2>5. QED
    BY <2>1, <2>4 DEF Loop
<1>6. PICK g : Runs2(g) /\ CloseCalls(r) = g[n]
  <2> DEFINE m == Len(nums)
  <2>1. \E f : f = [i \in 0 .. m |-> IF i = 0 THEN r ELSE CloseToolCall(f[i - 1], nums[i])]
    BY <1>1, <1>5
  <2> HIDE DEF m
  <2>2. PICK g : g = [i \in 0 .. m |-> IF i = 0 THEN r ELSE CloseToolCall(g[i - 1], nums[i])] /\ CloseCalls(r) = g[m]
    BY <2>1 DEF CloseCalls, Fold, nums, m
  <2>3. m = n
    BY <1>1 DEF m
  <2>4. QED
    BY <2>2, <2>3
<1>7. g[0] = r /\ \A i \in 1 .. n : g[i] = CloseToolCall(g[i - 1], nums[i])
  <2> HIDE DEF n
  <2>1. \A i \in 1 .. n : i \in 0 .. n /\ i # 0
    BY <1>1
  <2>2. 0 \in 0 .. n
    BY <1>1
  <2>3. QED
    BY <1>6, <2>1, <2>2
<1> HIDE DEF n
<1>8. g[0] \in D[0] /\ \A i \in 1 .. n : g[i - 1] \in D[i - 1] => g[i] \in D[i]
  BY <1>1, <1>2, <1>3, <1>4, <1>7
<1>9. \A i \in 0 .. n : g[i] \in D[i]
  BY <1>1, <1>8, Kept
<1>10. \A i \in 0 .. n : g[i] \in Finishing(rd, s, i)
  BY <1>1, <1>9
<1>11. \A i \in 1 .. n : g[i] = CloseToolCall(g[i - 1], i - 1)
  BY <1>1, <1>7
<1>12. ClosingCalls(g, rd, r)
  BY <1>6, <1>7, <1>10, <1>11 DEF ClosingCalls, s, n
<1>13. QED
  BY <1>12

LEMMA CallsAreClosed ==
  ASSUME NEW rd \in Readers, NEW r \in Results, FitsResponses(rd, r),
         r.st.message # "open", r.st.reasoning # "open"
  PROVE  CloseCalls(r) \in Finishing(rd, r.st, LastSlot + 1)
<1>1. PICK g : ClosingCalls(g, rd, r)
  BY CloseCallsRuns
<1>2. LastSlot + 1 \in 0 .. LastSlot + 1
  BY TranslatorAssumption
<1>3. QED
  BY <1>1, <1>2 DEF ClosingCalls

DoneResponses(rd, r) == r \in Results /\ r.st.completed /\ Heard(After(rd, r.out))

LEMMA AllIsClosed ==
  ASSUME NEW rd \in Readers, NEW r \in Results, FitsResponses(rd, r)
  PROVE  DoneResponses(rd, CloseAll(r)) /\ Framed(r.st, CloseAll(r).st)
<1> DEFINE o == CloseMessage(r)
           p == CloseReasoning(o)
           q == CloseCalls(p)
           e == End("completed")
           done == FirstDone(p.st, LastSlot + 1)
           s1 == [p.st EXCEPT !.funcDone = done]
           s == [s1 EXCEPT !.completed = TRUE]
<1>1. FitsResponses(rd, o) /\ o \in Results /\ Framed(r.st, o.st) /\ o.st.message # "open"
  BY MessageStops DEF FitsResponses
<1>2. CloseAll(r) = SendCompleted(q)
  BY DEF CloseAll, CloseCalls, SlotsInOrder
<1> HIDE DEF o
<1>3. /\ FitsResponses(rd, p) /\ p \in Results /\ Framed(o.st, p.st)
      /\ p.st.reasoning # "open" /\ p.st.message # "open"
  BY <1>1, ReasoningStops DEF FitsResponses
<1> HIDE DEF p
<1>4. /\ q \in Results /\ q.st = s1 /\ q.out \in Seq(Events) /\ p.st \in State /\ Orderly(p.st)
      /\ Sees(After(rd, q.out), p.st.begun, Known(p.st), Functions2(StillOpen(p.st, LastSlot + 1)))
  BY <1>3, CallsAreClosed DEF Finishing, Results, FitsResponses, InResponses
<1>5. p.st.funcAdded \in SUBSET Slots
  BY <1>4 DEF State
<1>6. Functions2(StillOpen(p.st, LastSlot + 1)) = {}
  <2>1. StillOpen(p.st, LastSlot + 1) = {}
    BY <1>5, TranslatorAssumption DEF StillOpen, Slots
  <2>2. QED
    BY <2>1 DEF Functions2
<1>7. done \in SUBSET Slots
  BY <1>5 DEF FirstDone
<1> HIDE DEF done, q
<1>8. s1 \in State /\ Framed(p.st, s1) /\ s1.completed = p.st.completed
  BY <1>4, <1>7 DEF State, Framed, Frame
<1> HIDE DEF s1
<1>9. s \in State /\ Framed(p.st, s) /\ s.completed = TRUE
  BY <1>8 DEF State, Framed, Frame
<1>10. ~ q.st.completed
  BY <1>4, <1>8 DEF Orderly
<1>11. e \in Events /\ "completed" \in Reasons
  BY EventFacts DEF Events, Reasons
<1>12. SendCompleted(q) = With(s, Append(q.out, e))
  <2>1. SendCompleted(q) = [With(s1, Append(q.out, e)) EXCEPT !.st.completed = TRUE]
    BY <1>4, <1>10, <1>11, EmitFacts DEF SendCompleted
  <2> HIDE DEF e
  <2>2. QED
    BY <2>1 DEF With
<1> HIDE DEF s
<1>13. After(rd, q.out) \in Readers
  BY <1>4, AfterTyped
<1>14. Heard(Read(After(rd, q.out), e))
  BY <1>4, <1>6, <1>11, <1>13, ReadEnd
<1> HIDE DEF e
<1>15. Append(q.out, e) \in Seq(Events) /\ After(rd, Append(q.out, e)) = Read(After(rd, q.out), e)
  BY <1>4, <1>11, EmitFacts
<1>16. /\ With(s, Append(q.out, e)) \in Results /\ With(s, Append(q.out, e)).st = s
       /\ With(s, Append(q.out, e)).out = Append(q.out, e)
  BY <1>9, <1>15, WithFacts
<1>17. Framed(r.st, p.st)
  BY <1>1, <1>3, FramedIsTransitive
<1>18. Framed(r.st, s)
  BY <1>9, <1>17, FramedIsTransitive
<1>19. QED
  BY <1>2, <1>9, <1>12, <1>14, <1>15, <1>16, <1>18 DEF DoneResponses

LEMMA FlushIsTold ==
  ASSUME NEW rd \in Readers, NEW s \in State, InResponses(s, rd)
  PROVE  DoneResponses(rd, FlushEvents(s))
<1>1. Result(s) = With(s, <<>>) /\ <<>> \in Seq(Events)
  BY DEF Result, With
<1>2. Result(s) \in Results /\ Result(s).st = s /\ Result(s).out = <<>>
  BY <1>1 DEF With, Results
<1>3. After(rd, Result(s).out) = rd
  BY <1>2, AfterNone
<1>4. FitsResponses(rd, Result(s))
  BY <1>2, <1>3 DEF FitsResponses
<1>5. FlushEvents(s) = CloseAll(Result(s))
  BY DEF FlushEvents, InResponses, Orderly
<1>6. QED
  BY <1>2, <1>4, <1>5, AllIsClosed

LEMMA ResponsesHears ==
  ASSUME NEW rd \in Readers, NEW r \in Results, InResponses(r.st, After(rd, r.out)), NEW c \in ChunksSaid,
         \A i \in 1 .. Len(c.tools) : Numbered(c.tools[i])
  PROVE  /\ OpenAIToResponses(r, c) \in Results
         /\ Framed(r.st, OpenAIToResponses(r, c).st)
         /\ \/ InResponses(OpenAIToResponses(r, c).st, After(rd, OpenAIToResponses(r, c).out))
            \/ c.finish # "" /\ DoneResponses(rd, OpenAIToResponses(r, c))
<1> DEFINE begun == MessageStart(r)
           thinks == ReasoningDelta(c.think, begun)
           says == EmitContent(c.text, thinks)
           stops == CloseMessage(says)
           used == IF c.tools = <<>> THEN says ELSE TellCalls(stops, c.tools)
           q == OpenAIToResponses(r, c)
<1>1. c.think \in Int /\ c.text \in Int /\ c.tools \in Seq(ToolEntries)
  BY DEF ChunksSaid
<1>2. q = IF c.text > 0 /\ begun.st.inThinking THEN says
          ELSE IF c.finish = "" THEN used ELSE CloseAll(used)
  BY DEF OpenAIToResponses, TellCalls
<1>3. TellsResponses(rd, begun) /\ begun \in Results /\ Framed(r.st, begun.st)
  BY ResponsesBegun DEF TellsResponses
<1> HIDE DEF begun, q
<1>4. TellsResponses(rd, thinks) /\ thinks \in Results /\ Framed(begun.st, thinks.st)
  BY <1>1, <1>3, ReasoningGoesOn DEF TellsResponses
<1> HIDE DEF thinks
<1>5. TellsResponses(rd, says) /\ says \in Results /\ Framed(thinks.st, says.st)
  BY <1>1, <1>4, ContentIsTold DEF TellsResponses
<1> HIDE DEF says
<1>6. Framed(r.st, says.st)
  <2>1. Framed(r.st, thinks.st)
    BY <1>3, <1>4, FramedIsTransitive
  <2>2. QED
    BY <1>5, <2>1, FramedIsTransitive
<1>7. TellsResponses(rd, used) /\ used \in Results /\ Framed(r.st, used.st)
  <2>1. CASE c.tools = <<>>
    BY <1>5, <1>6, <2>1
  <2>2. CASE c.tools # <<>>
    <3>1. TellsResponses(rd, stops) /\ stops \in Results /\ Framed(says.st, stops.st)
      BY <1>5, MessageStops DEF TellsResponses, FitsResponses
    <3> HIDE DEF stops
    <3>2. TellsResponses(rd, TellCalls(stops, c.tools)) /\ Framed(stops.st, TellCalls(stops, c.tools).st)
      BY <1>1, <3>1, CallsAreTold
    <3>3. Framed(r.st, stops.st)
      BY <1>6, <3>1, FramedIsTransitive
    <3>4. Framed(r.st, TellCalls(stops, c.tools).st)
      BY <3>2, <3>3, FramedIsTransitive
    <3>5. QED
      BY <2>2, <3>2, <3>4 DEF TellsResponses
  <2>3. QED
    BY <2>1, <2>2
<1> HIDE DEF used
<1>8. CASE q = says
  BY <1>5, <1>6, <1>8 DEF TellsResponses, q
<1>9. CASE q = used
  BY <1>7, <1>9 DEF TellsResponses, q
<1>10. CASE c.finish # "" /\ q = CloseAll(used)
  <2>1. DoneResponses(rd, CloseAll(used)) /\ Framed(used.st, CloseAll(used).st)
    BY <1>7, AllIsClosed DEF TellsResponses, FitsResponses
  <2>2. Framed(r.st, CloseAll(used).st)
    BY <1>7, <2>1, FramedIsTransitive
  <2>3. QED
    BY <1>10, <2>1, <2>2 DEF DoneResponses, q
<1>11. QED
  BY <1>2, <1>8, <1>9, <1>10

-----------------------------------------------------------------------------
(* A client of Chat Completions, which knows the ids of the slots N        *)

InChat(s, rd, N) == Sees(rd, s.begun, {}, {}) /\ \A i \in N : rd.index[i] # Nothing

TellsChat(rd, r, N) == r \in Results /\ r.st.begun /\ InChat(r.st, After(rd, r.out), N)

LEMMA ChatHeard ==
  ASSUME NEW rd \in Readers, NEW r \in Results, NEW N, TellsChat(rd, r, N)
  PROVE  /\ After(rd, r.out) \in Readers /\ r.st \in State /\ r.st.begun = TRUE
         /\ Sees(After(rd, r.out), TRUE, {}, {}) /\ \A i \in N : After(rd, r.out).index[i] # Nothing
<1>1. r.st \in State /\ r.out \in Seq(Events)
  BY DEF Results
<1>2. r.st.begun = TRUE
  BY <1>1 DEF State, TellsChat
<1>3. QED
  BY <1>1, <1>2, AfterTyped DEF TellsChat, InChat

LEMMA ChatPart ==
  ASSUME NEW rd \in Readers, NEW r \in Results, NEW N, TellsChat(rd, r, N), NEW kind \in Kinds, NEW n \in Int
  PROVE  TellsChat(rd, Emit(r, Part(kind, n)), N) /\ Emit(r, Part(kind, n)).st = r.st
<1> DEFINE e == Part(kind, n)
<1>1. /\ After(rd, r.out) \in Readers /\ r.st.begun = TRUE
      /\ Sees(After(rd, r.out), TRUE, {}, {}) /\ \A i \in N : After(rd, r.out).index[i] # Nothing
  BY ChatHeard
<1>2. e \in Events
  BY EventFacts DEF Events
<1>3. Sees(Read(After(rd, r.out), e), TRUE, {}, {}) /\ Read(After(rd, r.out), e).index = After(rd, r.out).index
  BY <1>1, ReadPart
<1> HIDE DEF e
<1>4. /\ Emit(r, e) \in Results /\ Emit(r, e).st = r.st /\ Emit(r, e).out = Append(r.out, e)
      /\ After(rd, Append(r.out, e)) = Read(After(rd, r.out), e)
  BY <1>2, EmitFacts
<1>5. QED
  BY <1>1, <1>3, <1>4 DEF TellsChat, InChat, e

LEMMA ChatEntry ==
  ASSUME NEW rd \in Readers, NEW r \in Results, NEW N \in SUBSET Slots, TellsChat(rd, r, N),
         NEW t \in ToolEntries, t.id # Nothing \/ t.at \in N
  PROVE  TellsChat(rd, Emit(r, Entry(t)), N \cup {t.at}) /\ Emit(r, Entry(t)).st = r.st
<1> DEFINE e == Entry(t)
<1>1. /\ After(rd, r.out) \in Readers /\ r.st.begun = TRUE
      /\ Sees(After(rd, r.out), TRUE, {}, {}) /\ \A i \in N : After(rd, r.out).index[i] # Nothing
  BY ChatHeard
<1>2. e \in Events
  BY EventFacts DEF Events
<1>3. /\ Sees(Read(After(rd, r.out), e), TRUE, {}, {}) /\ Read(After(rd, r.out), e).index[t.at] # Nothing
      /\ \A i \in N : Read(After(rd, r.out), e).index[i] # Nothing
  BY <1>1, ReadEntry
<1> HIDE DEF e
<1>4. /\ Emit(r, e) \in Results /\ Emit(r, e).st = r.st /\ Emit(r, e).out = Append(r.out, e)
      /\ After(rd, Append(r.out, e)) = Read(After(rd, r.out), e)
  BY <1>2, EmitFacts
<1>5. QED
  BY <1>1, <1>3, <1>4 DEF TellsChat, InChat, e

SendEntry(q, t) == Emit(q, Entry(t))
SendEntries(r, tools) == Fold(SendEntry, r, tools)
SlotsOf(tools, i) == {tools[k].at : k \in 1 .. i}

LEMMA ChatEntries ==
  ASSUME NEW rd \in Readers, NEW r \in Results, NEW N \in SUBSET Slots, TellsChat(rd, r, N),
         NEW tools \in Seq(ToolEntries), \A i \in 1 .. Len(tools) : tools[i].id # Nothing \/ tools[i].at \in N
  PROVE  /\ TellsChat(rd, SendEntries(r, tools), N \cup SlotsOf(tools, Len(tools)))
         /\ SendEntries(r, tools).st = r.st
<1> DEFINE n == Len(tools)
           N2(i) == N \cup SlotsOf(tools, i)
           good(i) == {x \in Results : TellsChat(rd, x, N2(i)) /\ x.st = r.st}
           step == [i \in 1 .. n |-> [x \in good(i - 1) |-> SendEntry(x, tools[i])]]
           D == [i \in 0 .. n |-> good(i)]
           Runs2(f) == f = [i \in 0 .. n |-> IF i = 0 THEN r ELSE SendEntry(f[i - 1], tools[i])]
<1>1. n \in Nat /\ \A i \in 1 .. n : tools[i] \in ToolEntries /\ tools[i].at \in Slots
  <2>1. n \in Nat /\ \A i \in 1 .. n : tools[i] \in ToolEntries
    OBVIOUS
  <2>2. QED
    BY <2>1 DEF ToolEntries
<1>2. \A i \in 1 .. n : \A x \in good(i - 1) :
        step[i][x] = SendEntry(x, tools[i]) /\ SendEntry(x, tools[i]) \in good(i)
  <2> TAKE i \in 1 .. n
  <2> TAKE x \in good(i - 1)
  <2> DEFINE t == tools[i]
  <2>1. t \in ToolEntries /\ (t.id # Nothing \/ t.at \in N)
    BY <1>1
  <2>2. N2(i) = N2(i - 1) \cup {t.at}
    <3>1. i \in Nat /\ i - 1 \in Nat /\ \A k : k \in 1 .. i <=> k \in 1 .. i - 1 \/ k = i
      BY <1>1
    <3>2. SlotsOf(tools, i) = SlotsOf(tools, i - 1) \cup {t.at}
      BY <3>1 DEF SlotsOf
    <3>3. QED
      BY <3>2
  <2>3. N2(i - 1) \in SUBSET Slots /\ N \subseteq N2(i - 1)
    <3>1. \A k \in 1 .. i - 1 : tools[k].at \in Slots
      BY <1>1
    <3>2. QED
      BY <3>1 DEF SlotsOf
  <2> HIDE DEF N2, t
  <2>4. TellsChat(rd, Emit(x, Entry(t)), N2(i)) /\ Emit(x, Entry(t)).st = r.st
    BY <2>1, <2>2, <2>3, ChatEntry
  <2>5. SendEntry(x, t) \in good(i)
    BY <2>4 DEF SendEntry, TellsChat
  <2>6. step[i][x] = SendEntry(x, t)
    <3> HIDE DEF good
    <3>1. QED
      BY DEF t
  <2> HIDE DEF good, step
  <2>7. QED
    BY <2>5, <2>6 DEF t
<1>3. \A i \in 1 .. n : D[i - 1] = good(i - 1) /\ D[i] = good(i)
  <2> HIDE DEF good
  <2>1. QED
    BY <1>1
<1>4. r \in D[0]
  <2>1. N2(0) = N
    BY DEF SlotsOf
  <2> HIDE DEF N2
  <2>2. r \in good(0)
    BY <2>1
  <2> HIDE DEF good
  <2>3. QED
    BY <1>1, <2>2
<1> HIDE DEF good
<1>5. \E f : Runs2(f)
  <2> HIDE DEF step, D, n
  <2>0. \A i \in 1 .. n : \A x \in D[i - 1] : step[i][x] \in D[i]
    <3> HIDE DEF good
    <3> TAKE i \in 1 .. n
    <3> TAKE x \in D[i - 1]
    <3>1. x \in good(i - 1)
      BY <1>3
    <3>2. QED
      BY <1>2, <1>3, <3>1
  <2>1. PICK f : Loop(f, n, r, step) /\ \A i \in 0 .. n : f[i] \in D[i]
    BY <1>1, <1>4, <2>0, LoopRuns
  <2>2. \A i \in 0 .. n : f[i] \in good(i)
    BY <2>1 DEF D
  <2>3. \A i \in 0 .. n : i # 0 => step[i][f[i - 1]] = SendEntry(f[i - 1], tools[i])
    <3> TAKE i \in 0 .. n
    <3> HAVE i # 0
    <3>1. i \in 1 .. n /\ i - 1 \in 0 .. n
      BY <1>1
    <3>2. QED
      BY <1>2, <2>2, <3>1
  <2>4. [i \in 0 .. n |-> IF i = 0 THEN r ELSE step[i][f[i - 1]]]
          = [i \in 0 .. n |-> IF i = 0 THEN r ELSE SendEntry(f[i - 1], tools[i])]
    BY <2>3
  <2>5. QED
    BY <2>1, <2>4 DEF Loop
<1>6. PICK g : Runs2(g) /\ SendEntries(r, tools) = g[n]
  BY <1>5 DEF SendEntries, Fold
<1>7. g[0] = r /\ \A i \in 1 .. n : g[i] = SendEntry(g[i - 1], tools[i])
  BY <1>1, <1>6
<1>8. g[0] \in D[0] /\ \A i \in 1 .. n : g[i - 1] \in D[i - 1] => g[i] \in D[i]
  BY <1>1, <1>2, <1>3, <1>4, <1>7
<1> HIDE DEF n
<1>9. \A i \in 0 .. n : g[i] \in D[i]
  BY <1>1, <1>8, Kept
<1>10. g[n] \in good(n)
  BY <1>1, <1>9
<1>11. QED
  BY <1>6, <1>10 DEF good, n

LEMMA ChatHears ==
  ASSUME NEW rd \in Readers, NEW r \in Results, NEW N \in SUBSET Slots, InChat(r.st, After(rd, r.out), N),
         NEW c \in ChunksSaid, \A i \in 1 .. Len(c.tools) : c.tools[i].id # Nothing \/ c.tools[i].at \in N
  PROVE  /\ SendChunk(r, c) \in Results
         /\ Framed(r.st, SendChunk(r, c).st)
         /\ c.finish = "" => InChat(SendChunk(r, c).st, After(rd, SendChunk(r, c).out),
                                    N \cup SlotsOf(c.tools, Len(c.tools)))
         /\ c.finish # "" => Heard(After(rd, SendChunk(r, c).out))
<1> DEFINE o == MessageStart(r)
           p == IF c.think = Nothing THEN o ELSE Emit(o, Part("think", c.think))
           q == IF c.text = Nothing THEN p ELSE Emit(p, Part("text", c.text))
           x == SendEntries(q, c.tools)
           e == End(c.finish)
           N2 == N \cup SlotsOf(c.tools, Len(c.tools))
<1>1. /\ c.think \in Int /\ c.text \in Int /\ c.tools \in Seq(ToolEntries) /\ c.finish \in Finishings
      /\ "think" \in Kinds /\ "text" \in Kinds
  BY DEF ChunksSaid, Kinds
<1>2. SendChunk(r, c) = IF c.finish = "" THEN x ELSE Emit(x, e)
  BY DEF SendChunk, SendEntries, SendEntry, Fold
<1>3. o \in Results /\ TellsChat(rd, o, N) /\ Framed(r.st, o.st)
  <2>1. /\ o \in Results /\ o.st \in State /\ o.st = [r.st EXCEPT !.begun = TRUE]
        /\ Sees(After(rd, o.out), TRUE, {}, {})
        /\ After(rd, o.out).index = After(rd, r.out).index
    BY Begins DEF InChat
  <2> HIDE DEF o
  <2>2. r.st \in State
    BY DEF Results
  <2>3. o.st.begun = TRUE /\ Framed(r.st, o.st)
    BY <2>1, <2>2 DEF State, Framed, Frame
  <2>4. QED
    BY <2>1, <2>3 DEF TellsChat, InChat
<1> HIDE DEF o
<1>4. p \in Results /\ TellsChat(rd, p, N) /\ p.st = o.st
  <2>1. CASE c.think = Nothing
    BY <1>3, <2>1
  <2>2. CASE c.think # Nothing
    <3>1. TellsChat(rd, Emit(o, Part("think", c.think)), N) /\ Emit(o, Part("think", c.think)).st = o.st
      BY <1>1, <1>3, ChatPart
    <3>2. QED
      BY <1>3, <2>2, <3>1 DEF TellsChat
  <2>3. QED
    BY <2>1, <2>2
<1> HIDE DEF p
<1>5. q \in Results /\ TellsChat(rd, q, N) /\ q.st = o.st
  <2>1. CASE c.text = Nothing
    BY <1>4, <2>1
  <2>2. CASE c.text # Nothing
    <3>1. TellsChat(rd, Emit(p, Part("text", c.text)), N) /\ Emit(p, Part("text", c.text)).st = p.st
      BY <1>1, <1>4, ChatPart
    <3>2. QED
      BY <1>4, <2>2, <3>1 DEF TellsChat
  <2>3. QED
    BY <2>1, <2>2
<1> HIDE DEF q
<1>6. x \in Results /\ TellsChat(rd, x, N2) /\ x.st = o.st
  <2>1. TellsChat(rd, x, N2) /\ x.st = q.st
    BY <1>1, <1>5, ChatEntries
  <2>2. QED
    BY <1>5, <2>1 DEF TellsChat
<1> HIDE DEF x, N2
<1>7. CASE c.finish = ""
  BY <1>2, <1>3, <1>6, <1>7 DEF TellsChat, N2
<1>8. CASE c.finish # ""
  <2>1. c.finish \in Reasons
    BY <1>1, <1>8 DEF Finishings, Reasons
  <2>2. e \in Events
    BY <2>1, EventFacts DEF Events
  <2>3. After(rd, x.out) \in Readers /\ Sees(After(rd, x.out), TRUE, {}, {})
    BY <1>6, ChatHeard
  <2>4. Heard(Read(After(rd, x.out), e))
    BY <2>1, <2>3, ReadEnd
  <2> HIDE DEF e
  <2>5. /\ Emit(x, e) \in Results /\ Emit(x, e).st = x.st /\ Emit(x, e).out = Append(x.out, e)
        /\ After(rd, Append(x.out, e)) = Read(After(rd, x.out), e)
    BY <1>6, <2>2, EmitFacts
  <2>6. QED
    BY <1>2, <1>3, <1>6, <1>8, <2>4, <2>5
<1>9. QED
  BY <1>7, <1>8

-----------------------------------------------------------------------------
(* The second hop, whatever the client                                     *)

Clients == {"openai", "claude", "responses"}

Fits(cl, s, rd, N) ==
  /\ cl = "claude" => InClaude(s, rd)
  /\ cl = "responses" => InResponses(s, rd)
  /\ cl = "openai" => InChat(s, rd, N)

Done(cl, s, rd) == Heard(rd) /\ (cl = "responses" => s.completed)

Leaves(cl, s, t) == Frame(s, t) /\ (cl # "claude" => t.toolCalls = s.toolCalls)

Usable(cl, c, N) ==
  \A i \in 1 .. Len(c.tools) :
    Numbered(c.tools[i]) /\ (cl = "openai" => c.tools[i].id # Nothing \/ c.tools[i].at \in N)

SlotsOfChunk(c) == SlotsOf(c.tools, Len(c.tools))

LEMMA FitsFewer ==
  ASSUME NEW cl, NEW s, NEW rd, NEW N, NEW M, Fits(cl, s, rd, N), M \subseteq N
  PROVE  Fits(cl, s, rd, M)
BY DEF Fits, InChat

LEMMA HopHears ==
  ASSUME NEW cl \in Clients, NEW rd \in Readers, NEW r \in Results, NEW N \in SUBSET Slots,
         Fits(cl, r.st, After(rd, r.out), N), NEW c \in ChunksSaid, Usable(cl, c, N)
  PROVE  /\ FromOpenAI(cl, r, c) \in Results
         /\ Leaves(cl, r.st, FromOpenAI(cl, r, c).st)
         /\ \/ Fits(cl, FromOpenAI(cl, r, c).st, After(rd, FromOpenAI(cl, r, c).out), N \cup SlotsOfChunk(c))
            \/ c.finish # "" /\ Done(cl, FromOpenAI(cl, r, c).st, After(rd, FromOpenAI(cl, r, c).out))
<1>1. CASE cl = "claude"
  <2> DEFINE q == OpenAIToClaude(r, c)
  <2>1. /\ q \in Results /\ Frame(r.st, q.st)
        /\ c.finish = "" => InClaude(q.st, After(rd, q.out))
        /\ c.finish # "" => Heard(After(rd, q.out))
    BY <1>1, ClaudeHears DEF Fits
  <2>2. FromOpenAI(cl, r, c) = q
    BY <1>1 DEF FromOpenAI
  <2> HIDE DEF q
  <2>3. QED
    BY <1>1, <2>1, <2>2 DEF Fits, Done, Leaves
<1>2. CASE cl = "responses"
  <2> DEFINE q == OpenAIToResponses(r, c)
  <2>1. /\ q \in Results /\ Framed(r.st, q.st)
        /\ InResponses(q.st, After(rd, q.out)) \/ (c.finish # "" /\ DoneResponses(rd, q))
    BY <1>2, ResponsesHears DEF Fits, Usable
  <2>2. FromOpenAI(cl, r, c) = q
    BY <1>2 DEF FromOpenAI
  <2> HIDE DEF q
  <2>3. QED
    BY <1>2, <2>1, <2>2 DEF Fits, Done, DoneResponses, Leaves, Framed
<1>3. CASE cl = "openai"
  <2> DEFINE q == SendChunk(r, c)
  <2>1. /\ q \in Results /\ Framed(r.st, q.st)
        /\ c.finish = "" => InChat(q.st, After(rd, q.out), N \cup SlotsOfChunk(c))
        /\ c.finish # "" => Heard(After(rd, q.out))
    BY <1>3, ChatHears DEF Fits, Usable, SlotsOfChunk
  <2>2. FromOpenAI(cl, r, c) = q
    BY <1>3 DEF FromOpenAI
  <2> HIDE DEF q
  <2>3. QED
    BY <1>3, <2>1, <2>2 DEF Fits, Done, Leaves, Framed
<1>4. QED
  BY <1>1, <1>2, <1>3 DEF Clients

SecondHop(cl, r, chunks) ==
  LET Second(q, c) == FromOpenAI(cl, q, c) IN Fold(Second, r, chunks)

SlotsIn(chunks, i) == UNION {SlotsOfChunk(chunks[k]) : k \in 1 .. i}

(* Only the last chunk finishes the answer.                                *)
OneAnswer(chunks) == \A i \in 1 .. Len(chunks) : i < Len(chunks) => chunks[i].finish = ""

Finished(chunks) == \E i \in 1 .. Len(chunks) : chunks[i].finish # ""

LEMMA HopHearsAll ==
  ASSUME NEW cl \in Clients, NEW rd \in Readers, NEW r \in Results, NEW N \in SUBSET Slots,
         Fits(cl, r.st, After(rd, r.out), N), NEW chunks \in Seq(ChunksSaid), OneAnswer(chunks),
         \A i \in 1 .. Len(chunks) : Usable(cl, chunks[i], N)
  PROVE  /\ SecondHop(cl, r, chunks) \in Results
         /\ Leaves(cl, r.st, SecondHop(cl, r, chunks).st)
         /\ \/ Fits(cl, SecondHop(cl, r, chunks).st, After(rd, SecondHop(cl, r, chunks).out),
                    N \cup SlotsIn(chunks, Len(chunks)))
            \/ /\ Finished(chunks)
               /\ Done(cl, SecondHop(cl, r, chunks).st, After(rd, SecondHop(cl, r, chunks).out))
<1> DEFINE n == Len(chunks)
           N2(i) == N \cup SlotsIn(chunks, i)
           good(i) == {x \in Results :
                         /\ Leaves(cl, r.st, x.st)
                         /\ \/ Fits(cl, x.st, After(rd, x.out), N2(i))
                            \/ i = n /\ Finished(chunks) /\ Done(cl, x.st, After(rd, x.out))}
           step == [i \in 1 .. n |-> [x \in good(i - 1) |-> FromOpenAI(cl, x, chunks[i])]]
           D == [i \in 0 .. n |-> good(i)]
           Runs2(f) == f = [i \in 0 .. n |-> IF i = 0 THEN r ELSE FromOpenAI(cl, f[i - 1], chunks[i])]
<1>1. n \in Nat /\ \A i \in 1 .. n : chunks[i] \in ChunksSaid
  OBVIOUS
<1>2. \A i \in 1 .. n : \A x \in good(i - 1) :
        step[i][x] = FromOpenAI(cl, x, chunks[i]) /\ FromOpenAI(cl, x, chunks[i]) \in good(i)
  <2> TAKE i \in 1 .. n
  <2> TAKE x \in good(i - 1)
  <2> DEFINE c == chunks[i]
             q == FromOpenAI(cl, x, c)
  <2>1. c \in ChunksSaid /\ Usable(cl, c, N)
    BY <1>1
  <2>2. i \in Nat /\ i - 1 \in Nat /\ i - 1 # n /\ \A k : k \in 1 .. i <=> k \in 1 .. i - 1 \/ k = i
    BY <1>1
  <2>3. N2(i) = N2(i - 1) \cup SlotsOfChunk(c)
    <3>1. SlotsIn(chunks, i) = SlotsIn(chunks, i - 1) \cup SlotsOfChunk(c)
      BY <2>2 DEF SlotsIn
    <3>2. QED
      BY <3>1
  <2>4. N2(i - 1) \in SUBSET Slots /\ N \subseteq N2(i - 1)
    <3>1. ASSUME NEW k \in 1 .. i - 1 PROVE SlotsOfChunk(chunks[k]) \subseteq Slots
      <4>1. chunks[k] \in ChunksSaid
        BY <1>1
      <4>2. chunks[k].tools \in Seq(ToolEntries)
        BY <4>1 DEF ChunksSaid
      <4>3. \A j \in 1 .. Len(chunks[k].tools) : chunks[k].tools[j] \in ToolEntries
        BY <4>2
      <4>4. QED
        BY <4>3 DEF SlotsOfChunk, SlotsOf, ToolEntries
    <3>2. QED
      BY <3>1 DEF SlotsIn
  <2>5. Usable(cl, c, N2(i - 1))
    <3> HIDE DEF N2, c
    <3>1. QED
      BY <2>1, <2>4 DEF Usable
  <2>6. x \in Results /\ Leaves(cl, r.st, x.st) /\ Fits(cl, x.st, After(rd, x.out), N2(i - 1))
    BY <2>2
  <2> HIDE DEF N2, c
  <2>7. /\ q \in Results /\ Leaves(cl, x.st, q.st)
        /\ Fits(cl, q.st, After(rd, q.out), N2(i)) \/ (c.finish # "" /\ Done(cl, q.st, After(rd, q.out)))
    BY <2>1, <2>3, <2>4, <2>5, <2>6, HopHears
  <2>8. c.finish # "" => i = n /\ Finished(chunks)
    <3>1. i # n => i < n
      BY <1>1, <2>2
    <3>2. i # n => chunks[i].finish = ""
      BY <3>1 DEF OneAnswer
    <3>3. chunks[i].finish # "" => Finished(chunks)
      BY DEF Finished
    <3>4. QED
      BY <3>2, <3>3 DEF c
  <2> HIDE DEF q
  <2>9. Leaves(cl, r.st, q.st)
    BY <2>6, <2>7 DEF Leaves, Frame
  <2>10. q \in good(i)
    BY <2>7, <2>8, <2>9
  <2>11. step[i][x] = FromOpenAI(cl, x, chunks[i])
    <3> HIDE DEF good
    <3>1. QED
      OBVIOUS
  <2> HIDE DEF good, step
  <2>12. QED
    BY <2>10, <2>11 DEF q, c
<1>3. \A i \in 1 .. n : D[i - 1] = good(i - 1) /\ D[i] = good(i)
  <2> HIDE DEF good
  <2>1. QED
    BY <1>1
<1>4. r \in D[0]
  <2>1. N2(0) = N
    BY DEF SlotsIn
  <2> HIDE DEF N2
  <2>2. r \in good(0)
    BY <2>1 DEF Leaves, Frame
  <2> HIDE DEF good
  <2>3. QED
    BY <1>1, <2>2
<1> HIDE DEF good
<1>5. \E f : Runs2(f)
  <2> HIDE DEF step, D, n
  <2>0. \A i \in 1 .. n : \A x \in D[i - 1] : step[i][x] \in D[i]
    <3> HIDE DEF good
    <3> TAKE i \in 1 .. n
    <3> TAKE x \in D[i - 1]
    <3>1. x \in good(i - 1)
      BY <1>3
    <3>2. QED
      BY <1>2, <1>3, <3>1
  <2>1. PICK f : Loop(f, n, r, step) /\ \A i \in 0 .. n : f[i] \in D[i]
    BY <1>1, <1>4, <2>0, LoopRuns
  <2>2. \A i \in 0 .. n : f[i] \in good(i)
    BY <2>1 DEF D
  <2>3. \A i \in 0 .. n : i # 0 => step[i][f[i - 1]] = FromOpenAI(cl, f[i - 1], chunks[i])
    <3> TAKE i \in 0 .. n
    <3> HAVE i # 0
    <3>1. i \in 1 .. n /\ i - 1 \in 0 .. n
      BY <1>1
    <3>2. QED
      BY <1>2, <2>2, <3>1
  <2>4. [i \in 0 .. n |-> IF i = 0 THEN r ELSE step[i][f[i - 1]]]
          = [i \in 0 .. n |-> IF i = 0 THEN r ELSE FromOpenAI(cl, f[i - 1], chunks[i])]
    BY <2>3
  <2>5. QED
    BY <2>1, <2>4 DEF Loop
<1>6. PICK g : Runs2(g) /\ SecondHop(cl, r, chunks) = g[n]
  BY <1>5 DEF SecondHop, Fold
<1>7. g[0] = r /\ \A i \in 1 .. n : g[i] = FromOpenAI(cl, g[i - 1], chunks[i])
  BY <1>1, <1>6
<1>8. g[0] \in D[0] /\ \A i \in 1 .. n : g[i - 1] \in D[i - 1] => g[i] \in D[i]
  BY <1>1, <1>2, <1>3, <1>4, <1>7
<1> HIDE DEF n
<1>9. \A i \in 0 .. n : g[i] \in D[i]
  BY <1>1, <1>8, Kept
<1>10. g[n] \in good(n)
  BY <1>1, <1>9
<1>11. QED
  BY <1>6, <1>10 DEF good, n

-----------------------------------------------------------------------------
(* The first hop                                                           *)

Same(cl, s, t) ==
  /\ t.begun = s.begun /\ t.nextBlock = s.nextBlock /\ t.block = s.block
  /\ t.reasoning = s.reasoning /\ t.message = s.message /\ t.inThinking = s.inThinking
  /\ t.funcIds = s.funcIds /\ t.funcAdded = s.funcAdded /\ t.funcDone = s.funcDone
  /\ t.completed = s.completed /\ t.argBuf = s.argBuf
  /\ cl = "claude" => t.toolCalls = s.toolCalls

LEMMA FitsSame ==
  ASSUME NEW cl, NEW s, NEW t, Same(cl, s, t), NEW rd, NEW N
  PROVE  (Fits(cl, s, rd, N) => Fits(cl, t, rd, N)) /\ (Done(cl, s, rd) => Done(cl, t, rd))
<1>1. cl = "claude" /\ InClaude(s, rd) => InClaude(t, rd)
  BY DEF Same, InClaude, BlocksApart, Made, OpenNow
<1>2. InResponses(s, rd) => InResponses(t, rd)
  BY DEF Same, InResponses, Orderly, Known, Live
<1>3. InChat(s, rd, N) => InChat(t, rd, N)
  BY DEF Same, InChat
<1>4. QED
  BY <1>1, <1>2, <1>3 DEF Fits, Done, Same

Sent(cl, s, N, p) ==
  /\ p.st \in State /\ Same(cl, s, p.st)
  /\ p.out \in Seq(ChunksSaid) /\ OneAnswer(p.out)
  /\ \A i \in 1 .. Len(p.out) : Usable(cl, p.out[i], N)

LEMMA Arrival ==
  ASSUME NEW cl \in Clients, NEW rd \in Readers, NEW s, NEW N \in SUBSET Slots,
         Fits(cl, s, rd, N), NEW p, Sent(cl, s, N, p), NEW r, r = SecondHop(cl, Result(p.st), p.out)
  PROVE  /\ r.st \in State /\ Leaves(cl, p.st, r.st) /\ After(rd, r.out) \in Readers
         /\ \/ Fits(cl, r.st, After(rd, r.out), N \cup SlotsIn(p.out, Len(p.out)))
            \/ Finished(p.out) /\ Done(cl, r.st, After(rd, r.out))
<1> DEFINE b == Result(p.st)
           none == <<>>
<1>1. p.st \in State /\ none \in Seq(Events) /\ b = With(p.st, none)
  <2>1. p.st \in State
    BY DEF Sent
  <2>2. b = With(p.st, none) /\ none \in Seq(Events)
    BY DEF Result, With
  <2>3. QED
    BY <2>1, <2>2
<1>0. After(rd, none) = rd
  BY AfterNone
<1> HIDE DEF b, none
<1>2. b \in Results /\ b.st = p.st /\ b.out = none
  BY <1>1, WithFacts
<1>3. After(rd, b.out) = rd
  BY <1>0, <1>2
<1>4. Fits(cl, b.st, After(rd, b.out), N)
  BY <1>2, <1>3, FitsSame DEF Sent
<1>5. p.out \in Seq(ChunksSaid) /\ OneAnswer(p.out) /\ \A i \in 1 .. Len(p.out) : Usable(cl, p.out[i], N)
  BY DEF Sent
<1>6. /\ r \in Results /\ Leaves(cl, b.st, r.st)
      /\ \/ Fits(cl, r.st, After(rd, r.out), N \cup SlotsIn(p.out, Len(p.out)))
         \/ Finished(p.out) /\ Done(cl, r.st, After(rd, r.out))
  <2>1. r = SecondHop(cl, b, p.out)
    BY DEF b
  <2>2. QED
    BY <1>2, <1>4, <1>5, <2>1, HopHearsAll
<1>7. r.st \in State /\ After(rd, r.out) \in Readers
  BY <1>6, AfterTyped DEF Results
<1>8. QED
  BY <1>2, <1>6, <1>7

LEMMA NoArrival ==
  ASSUME NEW cl \in Clients, NEW rd \in Readers, NEW s \in State
  PROVE  SecondHop(cl, Result(s), <<>>) = Result(s) /\ Result(s).st = s /\ After(rd, Result(s).out) = rd
<1> DEFINE none == <<>>
           r == Result(s)
           N == {}
<1>1. Len(none) = 0
  OBVIOUS
<1> HIDE DEF none
<1>2. SecondHop(cl, r, none) = r
  <2> DEFINE R(f) == f = [i \in 0 .. 0 |-> IF i = 0 THEN r ELSE FromOpenAI(cl, f[i - 1], none[i])]
             g == [i \in 0 .. 0 |-> r]
  <2>1. R(g)
    OBVIOUS
  <2>2. \E f : R(f)
    BY <2>1
  <2> HIDE DEF r
  <2>3. PICK f : R(f) /\ SecondHop(cl, r, none) = f[0]
    BY <1>1, <2>2 DEF SecondHop, Fold
  <2>4. QED
    BY <2>3
<1>3. r.st = s /\ r.out = <<>>
  BY DEF Result
<1>4. QED
  BY <1>2, <1>3, AfterNone DEF none

OnePivot(s, c) == [st |-> s, out |-> <<c>>]
NoPivot(s) == [st |-> s, out |-> <<>>]

LEMMA SendsOne ==
  ASSUME NEW cl, NEW s, NEW N, NEW t \in State, Same(cl, s, t), NEW c \in ChunksSaid, Usable(cl, c, N)
  PROVE  /\ Sent(cl, s, N, OnePivot(t, c)) /\ OnePivot(t, c).st = t
         /\ Finished(OnePivot(t, c).out) <=> c.finish # ""
         /\ SlotsIn(OnePivot(t, c).out, Len(OnePivot(t, c).out)) = SlotsOfChunk(c)
<1> DEFINE out == <<c>>
<1>1. out \in Seq(ChunksSaid) /\ Len(out) = 1 /\ out[1] = c
  OBVIOUS
<1>2. OnePivot(t, c).st = t /\ OnePivot(t, c).out = out
  BY DEF OnePivot
<1> HIDE DEF out
<1>3. 1 .. 1 = {1}
  OBVIOUS
<1>4. Finished(out) <=> c.finish # ""
  BY <1>1, <1>3 DEF Finished
<1>5. SlotsIn(out, Len(out)) = SlotsOfChunk(c)
  BY <1>1, <1>3 DEF SlotsIn
<1>6. OneAnswer(out) /\ \A i \in 1 .. Len(out) : Usable(cl, out[i], N)
  BY <1>1, <1>3 DEF OneAnswer
<1>7. QED
  BY <1>1, <1>2, <1>4, <1>5, <1>6 DEF Sent

LEMMA SendsNone ==
  ASSUME NEW cl, NEW s, NEW N, NEW t \in State, Same(cl, s, t)
  PROVE  /\ Sent(cl, s, N, NoPivot(t)) /\ NoPivot(t).st = t /\ NoPivot(t).out = <<>>
         /\ ~ Finished(NoPivot(t).out) /\ SlotsIn(NoPivot(t).out, Len(NoPivot(t).out)) = {}
<1>1. NoPivot(t).st = t /\ NoPivot(t).out = <<>>
  BY DEF NoPivot
<1>2. <<>> \in Seq(ChunksSaid) /\ Len(<<>>) = 0 /\ 1 .. 0 = {}
  OBVIOUS
<1>3. OneAnswer(<<>>) /\ ~ Finished(<<>>) /\ SlotsIn(<<>>, 0) = {}
  BY <1>2 DEF OneAnswer, Finished, SlotsIn
<1>4. QED
  BY <1>1, <1>2, <1>3 DEF Sent

LEMMA ChunkFacts ==
  ASSUME NEW cl, NEW N
  PROVE  /\ \A n, m \in Int, reason \in Finishings :
              /\ Chunk(n, m, <<>>, reason) \in ChunksSaid
              /\ Usable(cl, Chunk(n, m, <<>>, reason), N)
              /\ Chunk(n, m, <<>>, reason).finish = reason
         /\ \A t \in ToolEntries : Numbered(t) /\ (t.id # Nothing \/ t.at \in N) =>
              Uses(t) \in ChunksSaid /\ Usable(cl, Uses(t), N) /\ Uses(t).finish = "" /\ SlotsOfChunk(Uses(t)) = {t.at}
<1>1. ASSUME NEW n \in Int, NEW m \in Int, NEW reason \in Finishings
      PROVE  /\ Chunk(n, m, <<>>, reason) \in ChunksSaid
             /\ Usable(cl, Chunk(n, m, <<>>, reason), N)
             /\ Chunk(n, m, <<>>, reason).finish = reason
  <2> DEFINE none == <<>>
             c == [think |-> n, text |-> m, tools |-> none, finish |-> reason]
  <2>1. none \in Seq(ToolEntries) /\ Len(none) = 0 /\ 1 .. 0 = {}
    OBVIOUS
  <2>2. Chunk(n, m, <<>>, reason) = c
    BY DEF Chunk
  <2> HIDE DEF none
  <2>3. c \in ChunksSaid /\ c.tools = none /\ c.finish = reason
    BY <2>1 DEF ChunksSaid
  <2> HIDE DEF c
  <2>4. Usable(cl, c, N)
    BY <2>1, <2>3 DEF Usable
  <2>5. QED
    BY <2>2, <2>3, <2>4
<1>2. ASSUME NEW t \in ToolEntries, Numbered(t), t.id # Nothing \/ t.at \in N
      PROVE  Uses(t) \in ChunksSaid /\ Usable(cl, Uses(t), N) /\ Uses(t).finish = "" /\ SlotsOfChunk(Uses(t)) = {t.at}
  <2> DEFINE tools == <<t>>
  <2>1. tools \in Seq(ToolEntries) /\ Len(tools) = 1 /\ tools[1] = t /\ 1 .. 1 = {1}
    OBVIOUS
  <2>2. Nothing \in Int /\ "" \in Finishings
    BY DEF Nothing, Finishings
  <2>3. Uses(t) = [think |-> Nothing, text |-> Nothing, tools |-> tools, finish |-> ""]
    BY DEF Uses, Chunk
  <2> DEFINE none == ""
             zero == Nothing
             c == [think |-> zero, text |-> zero, tools |-> tools, finish |-> none]
  <2> HIDE DEF tools
  <2>9. Uses(t) = c /\ none = "" /\ none \in Finishings /\ zero \in Int
    BY <2>2, <2>3
  <2> HIDE DEF none, zero
  <2>10. c \in ChunksSaid /\ c.tools = tools /\ c.finish = none
    BY <2>1, <2>9 DEF ChunksSaid
  <2> HIDE DEF c
  <2>4. Uses(t) \in ChunksSaid /\ Uses(t).tools = tools /\ Uses(t).finish = ""
    BY <2>9, <2>10
  <2>5. Usable(cl, Uses(t), N)
    BY <1>2, <2>1, <2>4 DEF Usable
  <2>6. SlotsOfChunk(Uses(t)) = {t.at}
    BY <2>1, <2>4 DEF SlotsOfChunk, SlotsOf
  <2>7. QED
    BY <2>4, <2>5, <2>6
<1>3. QED
  BY <1>1, <1>2

-----------------------------------------------------------------------------
(* A translated stream                                                     *)

Providers ==
  [ begun : BOOLEAN, started : Nat, index : Nat, kind : {"none", "think", "text", "call", "server"},
    done : SUBSET Calls, over : {"no", "finished", "failed"} ]

(* The slots whose calls a client of Chat Completions must know by now.    *)
SlotsKnown(u, p) ==
  IF u \in {"kiro", "responses"} THEN {i \in Slots : i + 1 \in Calls /\ i + 1 <= p.started} ELSE {}

(* The first hop's account of the provider.                                *)
SpeaksClaude(s, p) ==
  /\ s.toolIndex = p.started
  /\ ~ p.begun => p.started = 0 /\ p.over = "no"
  /\ p.kind # "none" => p.index \in Slots /\ p.over = "no"
  /\ \A i \in Slots : s.toolCalls[i] # NoTool =>
       s.toolCalls[i].at \in Slots /\ s.toolCalls[i].call = s.toolCalls[i].at + 1
  /\ p.over # "no" => s.finishSent

SpeaksResponses(s, p) ==
  /\ s.toolIndex = p.started
  /\ p.over # "no" => s.finishSent
  /\ \A c \in Calls : s.respIndex[c] = IF c <= p.started THEN c - 1 ELSE NoBlock

SpeaksKiro(s, p) == \A i \in Slots : s.toolCalls[i] # NoTool => i + 1 <= p.started

Speaks(u, cl, s, p) ==
  /\ u = "claude" => SpeaksClaude(s, p)
  /\ u = "responses" => SpeaksResponses(s, p)
  /\ u = "gemini" => s.functionIndex = p.started
  /\ u = "kiro" /\ cl = "claude" => SpeaksKiro(s, p)

Tells(u, cl, s, rd, p) ==
  /\ Speaks(u, cl, s, p)
  /\ Fits(cl, s, rd, SlotsKnown(u, p)) \/ (p.over # "no" /\ Done(cl, s, rd))

Direct(u, cl) == u = "kiro" /\ cl = "claude"

LEMMA SpeaksStill ==
  ASSUME NEW u, NEW cl, u # cl, ~ Direct(u, cl), NEW s, NEW t, Leaves(cl, s, t), NEW p, Speaks(u, cl, s, p)
  PROVE  Speaks(u, cl, t, p)
<1>1. u = "claude" => SpeaksClaude(t, p)
  BY DEF Speaks, SpeaksClaude, Leaves, Frame
<1>2. u = "responses" => SpeaksResponses(t, p)
  BY DEF Speaks, SpeaksResponses, Leaves, Frame
<1>3. QED
  BY <1>1, <1>2 DEF Speaks, Leaves, Frame, Direct

LEMMA KnownAreSlots ==
  ASSUME NEW u, NEW p
  PROVE  SlotsKnown(u, p) \in SUBSET Slots
BY DEF SlotsKnown

LEMMA TranslateIs ==
  ASSUME NEW u, NEW cl, ~ Direct(u, cl), NEW e, NEW s
  PROVE  Translate(u, cl, e, s) = SecondHop(cl, Result(ToOpenAI(u, e, s).st), ToOpenAI(u, e, s).out)
BY DEF Translate, SecondHop, Direct

(* What a chunk or an event of the provider does, when the first hop sends *)
(* the chunks of p and leaves its state.                                   *)
LEMMA Told ==
  ASSUME NEW u \in Formats, NEW cl \in Clients, u # cl, ~ Direct(u, cl),
         NEW rd \in Readers, NEW s \in State, NEW p0, p0.over = "no", Tells(u, cl, s, rd, p0),
         NEW e, NEW p, p = ToOpenAI(u, e, s), Sent(cl, s, SlotsKnown(u, p0), p),
         NEW p1, Speaks(u, cl, p.st, p1), Finished(p.out) => p1.over # "no",
         SlotsKnown(u, p1) \subseteq SlotsKnown(u, p0) \cup SlotsIn(p.out, Len(p.out)),
         NEW r, r = Translate(u, cl, e, s)
  PROVE  r.st \in State /\ After(rd, r.out) \in Readers /\ Tells(u, cl, r.st, After(rd, r.out), p1)
<1> DEFINE N == SlotsKnown(u, p0)
           M == SlotsIn(p.out, Len(p.out))
<1>1. N \in SUBSET Slots
  BY KnownAreSlots
<1>2. Fits(cl, s, rd, N)
  BY DEF Tells
<1>3. r = SecondHop(cl, Result(p.st), p.out)
  BY TranslateIs
<1>4. Sent(cl, s, N, p) /\ SlotsKnown(u, p1) \subseteq N \cup M
  OBVIOUS
<1> HIDE DEF N, M
<1>5. /\ r.st \in State /\ Leaves(cl, p.st, r.st) /\ After(rd, r.out) \in Readers
      /\ \/ Fits(cl, r.st, After(rd, r.out), N \cup M)
         \/ Finished(p.out) /\ Done(cl, r.st, After(rd, r.out))
  BY <1>1, <1>2, <1>3, <1>4, Arrival DEF M
<1>6. Speaks(u, cl, r.st, p1)
  BY <1>5, SpeaksStill
<1>7. Fits(cl, r.st, After(rd, r.out), N \cup M) => Fits(cl, r.st, After(rd, r.out), SlotsKnown(u, p1))
  BY <1>4, FitsFewer
<1>8. QED
  BY <1>5, <1>6, <1>7 DEF Tells

(* ... and when it sends none.                                             *)
LEMMA ToldNothing ==
  ASSUME NEW u \in Formats, NEW cl \in Clients, u # cl, ~ Direct(u, cl),
         NEW rd \in Readers, NEW s \in State, NEW p0, Tells(u, cl, s, rd, p0),
         NEW e, NEW t \in State, ToOpenAI(u, e, s) = NoPivot(t), Same(cl, s, t),
         NEW p1, Speaks(u, cl, t, p1), p0.over # "no" => p1.over # "no",
         SlotsKnown(u, p1) \subseteq SlotsKnown(u, p0),
         NEW r, r = Translate(u, cl, e, s)
  PROVE  r.st \in State /\ After(rd, r.out) \in Readers /\ Tells(u, cl, r.st, After(rd, r.out), p1)
<1>1. r = SecondHop(cl, Result(NoPivot(t).st), NoPivot(t).out)
  BY TranslateIs
<1>2. NoPivot(t).st = t /\ NoPivot(t).out = <<>>
  BY DEF NoPivot
<1>3. r.st = t /\ After(rd, r.out) = rd
  <2>1. SecondHop(cl, Result(t), <<>>) = Result(t) /\ Result(t).st = t /\ After(rd, Result(t).out) = rd
    BY NoArrival
  <2>2. r = SecondHop(cl, Result(t), <<>>)
    BY <1>1, <1>2
  <2>3. QED
    BY <2>1, <2>2
<1>4. (Fits(cl, s, rd, SlotsKnown(u, p0)) => Fits(cl, t, rd, SlotsKnown(u, p0))) /\ (Done(cl, s, rd) => Done(cl, t, rd))
  BY FitsSame
<1>5. Fits(cl, t, rd, SlotsKnown(u, p0)) => Fits(cl, t, rd, SlotsKnown(u, p1))
  BY FitsFewer
<1>6. QED
  BY <1>3, <1>4, <1>5 DEF Tells

-----------------------------------------------------------------------------
(* The chunks of Chat Completions and Kiro                                 *)

Saids == Seq([kind : Kinds, call : Nat])

StreamTyped == st \in State /\ reader \in Readers /\ prov \in Providers /\ said \in Saids

Talking == StreamTyped /\ Tells(up, client, st, reader, prov)

LEMMA CallsAreSlots ==
  /\ \A c \in Calls : c \in Nat /\ c > 0 /\ c # Nothing /\ c - 1 \in Slots /\ c - 1 + 1 = c
  /\ \A i \in Slots : i \in Nat /\ i + 1 - 1 = i
BY TranslatorAssumption DEF Slots, Nothing

NewCalls(tools) == {i \in DOMAIN tools : tools[i].call > prov.started}

EntriesFit(tools) ==
  /\ Len(tools) \in Nat /\ DOMAIN tools = 1 .. Len(tools)
  /\ Cardinality(NewCalls(tools)) \in Nat
  /\ \A i \in DOMAIN tools :
       /\ tools[i].call \in Calls /\ tools[i].named \in BOOLEAN /\ tools[i].args \in BOOLEAN
       /\ tools[i].call <= prov.started + Cardinality(NewCalls(tools))
       /\ tools[i].call > prov.started => tools[i].named
       /\ up = "kiro" /\ tools[i].named => tools[i].call > prov.started
       /\ \A j \in DOMAIN tools : i # j => tools[i].call # tools[j].call
  /\ \A c \in Nat : c > prov.started /\ c <= prov.started + Cardinality(NewCalls(tools))
       => \E i \in DOMAIN tools : tools[i].call = c

LEMMA EntriesFacts ==
  ASSUME prov.started \in Nat, NEW tools \in Entries, \A i \in DOMAIN tools : Proper(tools[i])
  PROVE  EntriesFit(tools)
<1>1. CASE tools = <<>>
  <2>1. Len(tools) = 0 /\ DOMAIN tools = {} /\ 1 .. 0 = {}
    BY <1>1
  <2>2. NewCalls(tools) = {}
    BY <2>1 DEF NewCalls
  <2>3. Cardinality(NewCalls(tools)) = 0
    BY <2>2, FS_EmptySet
  <2>4. QED
    BY <2>1, <2>3 DEF EntriesFit
<1>2. ASSUME NEW t \in [call : StartedCalls \cup {prov.started + 1}, named : BOOLEAN, args : BOOLEAN], tools = <<t>>
      PROVE  EntriesFit(tools)
  <2>1. Len(tools) = 1 /\ DOMAIN tools = {1} /\ 1 .. 1 = {1} /\ tools[1] = t
    BY <1>2
  <2>2. Proper(t)
    BY <2>1
  <2>3. t.call \in Calls /\ t.call \in Nat /\ t.named \in BOOLEAN /\ t.args \in BOOLEAN
    BY <2>2, CallsAreSlots DEF Proper
  <2>4. t.call <= prov.started \/ t.call = prov.started + 1
    BY DEF StartedCalls
  <2>5. CASE t.call <= prov.started
    <3>1. NewCalls(tools) = {}
      BY <2>1, <2>3, <2>5 DEF NewCalls
    <3>2. Cardinality(NewCalls(tools)) = 0
      BY <3>1, FS_EmptySet
    <3>3. QED
      BY <2>1, <2>2, <2>3, <2>5, <3>2 DEF Proper, EntriesFit
  <2>6. CASE t.call = prov.started + 1
    <3>1. NewCalls(tools) = {1}
      BY <2>1, <2>3, <2>6 DEF NewCalls
    <3>2. Cardinality(NewCalls(tools)) = 1
      BY <3>1, FS_Singleton
    <3>3. QED
      BY <2>1, <2>2, <2>3, <2>6, <3>2 DEF Proper, EntriesFit
  <2>7. QED
    BY <2>4, <2>5, <2>6
<1>3. ASSUME NEW a \in BOOLEAN,
             tools = <<[call |-> prov.started + 1, named |-> TRUE, args |-> a],
                       [call |-> prov.started + 2, named |-> TRUE, args |-> a]>>
      PROVE  EntriesFit(tools)
  <2> DEFINE t == [call |-> prov.started + 1, named |-> TRUE, args |-> a]
             v == [call |-> prov.started + 2, named |-> TRUE, args |-> a]
  <2>1. Len(tools) = 2 /\ DOMAIN tools = {1, 2} /\ 1 .. 2 = {1, 2} /\ tools[1] = t /\ tools[2] = v
    BY <1>3
  <2>2. Proper(t) /\ Proper(v)
    BY <2>1
  <2>3. t.call = prov.started + 1 /\ v.call = prov.started + 2 /\ t.named /\ v.named /\ t.args = a /\ v.args = a
    OBVIOUS
  <2> HIDE DEF t, v
  <2>4. t.call \in Calls /\ v.call \in Calls
    BY <2>2 DEF Proper
  <2>5. NewCalls(tools) = {1, 2}
    BY <2>1, <2>3 DEF NewCalls
  <2>6. Cardinality(NewCalls(tools)) = 2
    <3>1. Cardinality({1}) = 1 /\ IsFiniteSet({1})
      BY FS_Singleton
    <3>2. Cardinality({1} \cup {2}) = 2
      BY <3>1, FS_AddElement
    <3>3. {1, 2} = {1} \cup {2}
      OBVIOUS
    <3>4. QED
      BY <2>5, <3>2, <3>3
  <2>7. \A c \in Nat : c > prov.started /\ c <= prov.started + 2 => c = t.call \/ c = v.call
    BY <2>3
  <2>8. /\ t.call > prov.started /\ t.call <= prov.started + 2
        /\ v.call > prov.started /\ v.call <= prov.started + 2 /\ t.call # v.call
    BY <2>3
  <2> DEFINE new == Cardinality(NewCalls(tools))
  <2>9. new = 2
    BY <2>6
  <2> HIDE DEF new
  <2>10. Len(tools) \in Nat /\ DOMAIN tools = 1 .. Len(tools) /\ new \in Nat
    BY <2>1, <2>9
  <2>11. ASSUME NEW i \in DOMAIN tools
         PROVE  /\ tools[i].call \in Calls /\ tools[i].named /\ tools[i].args = a
                /\ tools[i].call > prov.started /\ tools[i].call <= prov.started + new
                /\ \A j \in DOMAIN tools : i # j => tools[i].call # tools[j].call
    BY <2>1, <2>3, <2>4, <2>8, <2>9
  <2>12. \A i \in DOMAIN tools : tools[i].named = TRUE
    BY <2>1, <2>3 DEF t, v
  <2>13. \A c \in Nat : c > prov.started /\ c <= prov.started + new => \E i \in DOMAIN tools : tools[i].call = c
    BY <2>1, <2>7, <2>9
  <2>14. QED
    BY <2>10, <2>11, <2>12, <2>13 DEF EntriesFit, new
<1>4. QED
  BY <1>1, <1>2, <1>3 DEF Entries

ToolOf(tools, k, i) ==
  Tool(tools[i].call - 1, IF tools[i].named THEN tools[i].call ELSE Nothing, IF tools[i].args THEN k + i ELSE Nothing)
ToolsOf(tools, k) == [i \in DOMAIN tools |-> ToolOf(tools, k, i)]

LEMMA ToolsTold ==
  ASSUME NEW tools, EntriesFit(tools), NEW k \in Int
  PROVE  /\ ToolsOf(tools, k) \in Seq(ToolEntries) /\ Len(ToolsOf(tools, k)) = Len(tools)
         /\ \A i \in 1 .. Len(tools) :
              /\ ToolsOf(tools, k)[i].at = tools[i].call - 1
              /\ ToolsOf(tools, k)[i].id = IF tools[i].named THEN tools[i].call ELSE Nothing
<1> DEFINE t(i) == ToolOf(tools, k, i)
           n == Len(tools)
<1>1. n \in Nat /\ DOMAIN tools = 1 .. n
  BY DEF EntriesFit
<1>2. \A i \in 1 .. n : /\ t(i) \in ToolEntries /\ t(i).at = tools[i].call - 1
                        /\ t(i).id = IF tools[i].named THEN tools[i].call ELSE Nothing
  <2> TAKE i \in 1 .. n
  <2> DEFINE id == IF tools[i].named THEN tools[i].call ELSE Nothing
             piece == IF tools[i].args THEN k + i ELSE Nothing
             at == tools[i].call - 1
  <2>1. tools[i].call \in Calls /\ i \in Int
    BY <1>1 DEF EntriesFit
  <2>2. at \in Slots /\ id \in Nat /\ piece \in Int
    BY <2>1, CallsAreSlots DEF Nothing
  <2>3. t(i) = [at |-> at, id |-> id, args |-> piece]
    BY DEF ToolOf, Tool
  <2> HIDE DEF at, id, piece, t
  <2>4. t(i) \in ToolEntries /\ t(i).at = at /\ t(i).id = id
    BY <2>2, <2>3 DEF ToolEntries
  <2>5. QED
    BY <2>4 DEF at, id
<1>3. ToolsOf(tools, k) = [i \in 1 .. n |-> t(i)]
  BY <1>1 DEF ToolsOf
<1> HIDE DEF t, n
<1>4. [i \in 1 .. n |-> t(i)] \in Seq(ToolEntries) /\ Len([i \in 1 .. n |-> t(i)]) = n
  BY <1>1, <1>2
<1>5. QED
  BY <1>2, <1>3, <1>4 DEF n

LEMMA ChunkIsUsable ==
  ASSUME up \in {"openai", "kiro"}, up # client, prov.started \in Nat, NEW tools, EntriesFit(tools),
         NEW c \in ChunksSaid, NEW k \in Int, c.tools = ToolsOf(tools, k),
         NEW p, p.started = prov.started + Cardinality(NewCalls(tools))
  PROVE  /\ Usable(client, c, SlotsKnown(up, prov))
         /\ SlotsKnown(up, p) \subseteq SlotsKnown(up, prov) \cup SlotsOfChunk(c)
<1> DEFINE ts == ToolsOf(tools, k)
           n == Len(tools)
<1>1. /\ n \in Nat /\ DOMAIN tools = 1 .. n /\ Len(ts) = n
      /\ \A i \in 1 .. n : ts[i].at = tools[i].call - 1 /\ ts[i].id = IF tools[i].named THEN tools[i].call ELSE Nothing
  <2>1. n \in Nat /\ DOMAIN tools = 1 .. n
    BY DEF EntriesFit
  <2>2. Len(ts) = n /\ \A i \in 1 .. n : ts[i].at = tools[i].call - 1
                    /\ ts[i].id = IF tools[i].named THEN tools[i].call ELSE Nothing
    BY ToolsTold
  <2> HIDE DEF ts, n
  <2>3. QED
    BY <2>1, <2>2
<1> HIDE DEF ts, n
<1>2. c.tools = ts
  BY DEF ts
<1>3. ASSUME NEW i \in 1 .. n
      PROVE  Numbered(ts[i]) /\ (client = "openai" => ts[i].id # Nothing \/ ts[i].at \in SlotsKnown(up, prov))
  <2>1. tools[i].call \in Calls /\ (tools[i].call > prov.started => tools[i].named)
    BY <1>1 DEF EntriesFit
  <2>2. tools[i].call \in Nat /\ tools[i].call # Nothing /\ tools[i].call - 1 \in Slots /\ tools[i].call - 1 + 1 = tools[i].call
    BY <2>1, CallsAreSlots
  <2>3. Numbered(ts[i])
    BY <1>1, <2>2 DEF Numbered
  <2>4. ASSUME client = "openai", ts[i].id = Nothing PROVE ts[i].at \in SlotsKnown(up, prov)
    <3>1. up = "kiro" /\ tools[i].call <= prov.started
      BY <1>1, <2>1, <2>2, <2>4
    <3>2. QED
      BY <1>1, <2>1, <2>2, <3>1 DEF SlotsKnown
  <2>5. QED
    BY <2>3, <2>4
<1>4. SlotsKnown(up, p) \subseteq SlotsKnown(up, prov) \cup SlotsOfChunk(c)
  <2> SUFFICES ASSUME NEW s \in SlotsKnown(up, p), s \notin SlotsKnown(up, prov)
               PROVE  s \in SlotsOfChunk(c)
    OBVIOUS
  <2>1. s \in Slots /\ s + 1 \in Calls /\ s + 1 <= p.started /\ ~ (s + 1 <= prov.started)
    BY DEF SlotsKnown
  <2>2. s \in Nat /\ s + 1 - 1 = s
    BY <2>1, CallsAreSlots
  <2>3. s + 1 \in Nat /\ s + 1 > prov.started
    BY <2>1, <2>2
  <2> DEFINE new == Cardinality(NewCalls(tools))
             d == s + 1
  <2>7. \A c0 \in Nat : c0 > prov.started /\ c0 <= prov.started + new => \E i \in DOMAIN tools : tools[i].call = c0
    BY DEF EntriesFit
  <2>8. d \in Nat /\ d > prov.started /\ d <= prov.started + new
    BY <2>1, <2>3
  <2> HIDE DEF new, d
  <2>9. \E i \in DOMAIN tools : tools[i].call = d
    BY <2>7, <2>8
  <2>4. \E i \in 1 .. n : tools[i].call = s + 1
    BY <1>1, <2>9 DEF d
  <2>10. PICK i \in 1 .. n : tools[i].call = s + 1
    BY <2>4
  <2>11. ts[i].at = s
    BY <1>1, <2>2, <2>10
  <2>5. \E j \in 1 .. n : ts[j].at = s
    BY <2>11
  <2>6. QED
    BY <1>1, <1>2, <2>5 DEF SlotsOfChunk, SlotsOf
<1>5. QED
  BY <1>1, <1>2, <1>3, <1>4 DEF Usable

ChunkSaid(think, text, tools) ==
  LET first == (IF think THEN <<Piece("think", Nothing)>> ELSE <<>>)
                 \o (IF text THEN <<Piece("text", Nothing)>> ELSE <<>>)
      withArgs == IF \A i \in DOMAIN tools : tools[i].args THEN tools ELSE <<>>
  IN  first \o [i \in DOMAIN withArgs |-> Piece("call", withArgs[i].call)]

LEMMA ChunkSaidTyped ==
  ASSUME NEW think \in BOOLEAN, NEW text \in BOOLEAN, NEW tools, EntriesFit(tools)
  PROVE  /\ ChunkSaid(think, text, tools) \in Saids
         /\ Len((IF think THEN <<Piece("think", Nothing)>> ELSE <<>>)
                  \o (IF text THEN <<Piece("text", Nothing)>> ELSE <<>>)) \in Nat
<1> DEFINE a == IF think THEN <<Piece("think", Nothing)>> ELSE <<>>
           b == IF text THEN <<Piece("text", Nothing)>> ELSE <<>>
           withArgs == IF \A i \in DOMAIN tools : tools[i].args THEN tools ELSE <<>>
           n == IF \A i \in DOMAIN tools : tools[i].args THEN Len(tools) ELSE 0
           what(i) == Piece("call", withArgs[i].call)
<1>1. Piece("think", Nothing) \in [kind : Kinds, call : Nat] /\ Piece("text", Nothing) \in [kind : Kinds, call : Nat]
  BY DEF Piece, Kinds, Nothing
<1>2. a \in Saids /\ b \in Saids
  <2> DEFINE S == [kind : Kinds, call : Nat]
             x == Piece("think", Nothing)
             y == Piece("text", Nothing)
  <2>1. x \in S /\ y \in S
    BY <1>1
  <2> HIDE DEF S, x, y
  <2>2. <<x>> \in Seq(S) /\ <<y>> \in Seq(S) /\ <<>> \in Seq(S)
    BY <2>1
  <2>3. QED
    BY <2>2 DEF Saids, S, x, y
<1>3. n \in Nat /\ DOMAIN withArgs = 1 .. n
  <2>1. Len(tools) \in Nat /\ DOMAIN tools = 1 .. Len(tools)
    BY DEF EntriesFit
  <2>2. DOMAIN <<>> = 1 .. 0
    OBVIOUS
  <2>3. QED
    BY <2>1, <2>2
<1>4. \A i \in 1 .. n : what(i) \in [kind : Kinds, call : Nat]
  <2> TAKE i \in 1 .. n
  <2>1. \A j \in DOMAIN tools : tools[j].args
    BY DEF n
  <2>2. withArgs = tools /\ n = Len(tools)
    BY <2>1
  <2>3. tools[i].call \in Calls
    BY <2>2 DEF EntriesFit
  <2>4. tools[i].call \in Nat
    BY <2>3, CallsAreSlots
  <2>5. QED
    BY <2>2, <2>4 DEF Piece, Kinds
<1> HIDE DEF n, what, withArgs
<1>5. [i \in 1 .. n |-> what(i)] \in Saids
  BY <1>3, <1>4 DEF Saids
<1> HIDE DEF a, b
<1>6. ChunkSaid(think, text, tools) = a \o b \o [i \in 1 .. n |-> what(i)]
  BY <1>3 DEF ChunkSaid, a, b, withArgs, what
<1>7. a \o b \in Saids /\ Len(a \o b) \in Nat
  BY <1>2 DEF Saids
<1>8. QED
  BY <1>5, <1>6, <1>7 DEF Saids, a, b

LEMMA ChainIs ==
  ASSUME <<up, client>> \in Chains
  PROVE  up \in Formats /\ client \in Clients
BY StreamAssumption DEF Clients

LEMMA ArrivesIs ==
  ASSUME NEW e, Arrives(e)
  PROVE  st' = Translate(up, client, e, st).st /\ reader' = After(reader, Translate(up, client, e, st).out)
         /\ up' = up /\ client' = client /\ phase' = phase
BY DEF Arrives, After

LEMMA Appended ==
  ASSUME NEW more \in Saids, said \in Saids
  PROVE  said \o more \in Saids
BY DEF Saids

(* The chunk, from what the action has chosen.                             *)
LEMMA ChunkIs ==
  ASSUME Talking, ChunkArrives
  PROVE  \E e \in ChunksSaid, tools \in Entries, k \in Int :
           /\ EntriesFit(tools) /\ e.tools = ToolsOf(tools, k)
           /\ said' \in Saids /\ prov' \in Providers
           /\ prov'.started = prov.started + Cardinality(NewCalls(tools))
           /\ e.finish # "" => prov'.over # "no"
           /\ Arrives(e)
<1> DEFINE first(think, text) == (IF think THEN <<Piece("think", Nothing)>> ELSE <<>>)
                                   \o (IF text THEN <<Piece("text", Nothing)>> ELSE <<>>)
           k(think, text) == Len(said) + Len(first(think, text))
           reason(finish, started) == IF ~finish THEN "" ELSE IF started > 0 THEN "tools" ELSE "stop"
           now(tools) == prov.started + Cardinality(NewCalls(tools))
           c(think, text, finish, tools) ==
             Chunk(IF think THEN Next1 ELSE Nothing, IF text THEN k(think, text) ELSE Nothing,
                   ToolsOf(tools, k(think, text)), reason(finish, now(tools)))
<1>0. PICK think, text, finish \in BOOLEAN, tools \in Entries :
       LET fst == (IF think THEN <<Piece("think", Nothing)>> ELSE <<>>)
                      \o (IF text THEN <<Piece("text", Nothing)>> ELSE <<>>)
           withArgs == IF \A i \in DOMAIN tools : tools[i].args THEN tools ELSE <<>>
           all == fst \o [i \in DOMAIN withArgs |-> Piece("call", withArgs[i].call)]
           entry(i) == Tool(tools[i].call - 1, IF tools[i].named THEN tools[i].call ELSE Nothing,
                            IF tools[i].args THEN Len(said) + Len(fst) + i ELSE Nothing)
           started == prov.started + Cardinality({i \in DOMAIN tools : tools[i].call > prov.started})
       IN  /\ \A i \in DOMAIN tools : Proper(tools[i])
           /\ think \/ text \/ finish \/ tools # <<>>
           /\ Len(said) + Len(all) <= MaxPieces
           /\ said' = said \o all
           /\ prov' = [prov EXCEPT !.begun = TRUE, !.started = started, !.over = IF finish THEN "finished" ELSE @]
           /\ Arrives(Chunk(IF think THEN Next1 ELSE Nothing, IF text THEN Len(said) + Len(fst) ELSE Nothing,
                            [i \in DOMAIN tools |-> entry(i)],
                            IF ~finish THEN "" ELSE IF started > 0 THEN "tools" ELSE "stop"))
  BY Zenon DEF ChunkArrives
<1>1. /\ \A i \in DOMAIN tools : Proper(tools[i])
      /\ said' = said \o ChunkSaid(think, text, tools)
      /\ prov' = [prov EXCEPT !.begun = TRUE, !.started = now(tools), !.over = IF finish THEN "finished" ELSE @]
      /\ Arrives(c(think, text, finish, tools))
  BY <1>0, Zenon DEF ChunkSaid, NewCalls, ToolsOf, ToolOf
<1>2. prov \in Providers /\ prov.started \in Nat /\ said \in Saids /\ Len(said) \in Nat
  BY DEF Talking, StreamTyped, Providers, Saids
<1>3. EntriesFit(tools)
  BY <1>1, <1>2, EntriesFacts
<1>4. ChunkSaid(think, text, tools) \in Saids /\ Len(first(think, text)) \in Nat
  BY <1>3, ChunkSaidTyped
<1> DEFINE m == k(think, text)
           new == now(tools)
           a == IF think THEN Next1 ELSE Nothing
           b == IF text THEN m ELSE Nothing
           f == reason(finish, new)
           ts == ToolsOf(tools, m)
           e == c(think, text, finish, tools)
<1> HIDE DEF first
<1>5. m \in Int /\ new \in Nat /\ a \in Int /\ b \in Int /\ f \in Finishings /\ (f # "" => finish)
  BY <1>2, <1>3, <1>4 DEF Next1, Nothing, Finishings, EntriesFit
<1>6. ts \in Seq(ToolEntries)
  BY <1>3, <1>5, ToolsTold
<1>7. e = [think |-> a, text |-> b, tools |-> ts, finish |-> f]
  BY DEF Chunk
<1>8. said' \in Saids
  BY <1>1, <1>2, <1>4, Appended
<1>9. Arrives(e) /\ prov' = [prov EXCEPT !.begun = TRUE, !.started = new, !.over = IF finish THEN "finished" ELSE @]
  BY <1>1
<1>10. ts = ToolsOf(tools, m) /\ new = prov.started + Cardinality(NewCalls(tools))
  OBVIOUS
<1> HIDE DEF c, m, new, a, b, f, ts, e
<1>11. e \in ChunksSaid /\ e.tools = ts /\ e.finish = f
  BY <1>5, <1>6, <1>7 DEF ChunksSaid
<1>12. prov' \in Providers /\ prov'.started = new /\ (finish => prov'.over # "no")
  BY <1>2, <1>5, <1>9 DEF Providers
<1>13. QED
  BY <1>3, <1>5, <1>8, <1>9, <1>10, <1>11, <1>12

(* An event for which the first hop makes p.                               *)
LEMMA SentTold ==
  ASSUME Talking, <<up, client>> \in Chains, ~ PassedOn, ~ Direct(up, client), prov.over = "no",
         NEW e, Arrives(e), NEW p, p = ToOpenAI(up, e, st), Sent(client, st, SlotsKnown(up, prov), p),
         said' \in Saids, prov' \in Providers, Speaks(up, client, p.st, prov'),
         Finished(p.out) => prov'.over # "no",
         SlotsKnown(up, prov') \subseteq SlotsKnown(up, prov) \cup SlotsIn(p.out, Len(p.out))
  PROVE  Talking'
<1>1. /\ up \in Formats /\ client \in Clients /\ up # client
      /\ st \in State /\ reader \in Readers /\ Tells(up, client, st, reader, prov)
  BY ChainIs DEF PassedOn, Talking, StreamTyped
<1> DEFINE r == Translate(up, client, e, st)
           p1 == prov'
<1>2. /\ r = Translate(up, client, e, st)
      /\ Speaks(up, client, p.st, p1) /\ (Finished(p.out) => p1.over # "no")
      /\ SlotsKnown(up, p1) \subseteq SlotsKnown(up, prov) \cup SlotsIn(p.out, Len(p.out))
  OBVIOUS
<1>3. st' = r.st /\ reader' = After(reader, r.out) /\ up' = up /\ client' = client
  BY ArrivesIs
<1> HIDE DEF r, p1
<1>4. r.st \in State /\ After(reader, r.out) \in Readers /\ Tells(up, client, r.st, After(reader, r.out), p1)
  BY <1>1, <1>2, Told
<1>5. QED
  BY <1>3, <1>4 DEF Talking, StreamTyped, p1

(* ... one chunk, c, which leaves the state t,                             *)
LEMMA OneTold ==
  ASSUME Talking, <<up, client>> \in Chains, ~ PassedOn, ~ Direct(up, client), prov.over = "no",
         NEW e, Arrives(e), NEW t \in State, Same(client, st, t), NEW c \in ChunksSaid,
         ToOpenAI(up, e, st) = OnePivot(t, c), Usable(client, c, SlotsKnown(up, prov)),
         said' \in Saids, prov' \in Providers, Speaks(up, client, t, prov'),
         c.finish # "" => prov'.over # "no",
         SlotsKnown(up, prov') \subseteq SlotsKnown(up, prov) \cup SlotsOfChunk(c)
  PROVE  Talking'
<1> DEFINE p == OnePivot(t, c)
           N == SlotsKnown(up, prov)
<1>1. /\ Sent(client, st, N, p) /\ p.st = t
      /\ Finished(p.out) <=> c.finish # ""
      /\ SlotsIn(p.out, Len(p.out)) = SlotsOfChunk(c)
  <2> HIDE DEF N, p
  <2>1. QED
    BY SendsOne DEF p, N
<1>2. p = ToOpenAI(up, e, st) /\ N = SlotsKnown(up, prov)
  OBVIOUS
<1> HIDE DEF p, N
<1>3. QED
  BY <1>1, <1>2, SentTold

(* ... or nothing.                                                         *)
LEMMA NoneTold ==
  ASSUME Talking, <<up, client>> \in Chains, ~ PassedOn, ~ Direct(up, client),
         NEW e, Arrives(e), NEW t \in State, Same(client, st, t), ToOpenAI(up, e, st) = NoPivot(t),
         said' \in Saids, prov' \in Providers, Speaks(up, client, t, prov'),
         prov.over # "no" => prov'.over # "no",
         SlotsKnown(up, prov') \subseteq SlotsKnown(up, prov)
  PROVE  Talking'
<1>1. /\ up \in Formats /\ client \in Clients /\ up # client
      /\ st \in State /\ reader \in Readers /\ Tells(up, client, st, reader, prov)
  BY ChainIs DEF PassedOn, Talking, StreamTyped
<1> DEFINE r == Translate(up, client, e, st)
           p1 == prov'
<1>2. r = Translate(up, client, e, st) /\ Speaks(up, client, t, p1) /\ (prov.over # "no" => p1.over # "no")
      /\ SlotsKnown(up, p1) \subseteq SlotsKnown(up, prov)
  OBVIOUS
<1>3. st' = r.st /\ reader' = After(reader, r.out) /\ up' = up /\ client' = client
  BY ArrivesIs
<1> HIDE DEF r, p1
<1>4. r.st \in State /\ After(reader, r.out) \in Readers /\ Tells(up, client, r.st, After(reader, r.out), p1)
  BY <1>1, <1>2, ToldNothing
<1>5. QED
  BY <1>3, <1>4 DEF Talking, StreamTyped, p1

LEMMA ChunkIsTold ==
  ASSUME Talking, <<up, client>> \in Chains, ~ Direct(up, client), ChunkArrives
  PROVE  Talking'
<1>1. PICK e \in ChunksSaid, tools \in Entries, k \in Int :
           /\ EntriesFit(tools) /\ e.tools = ToolsOf(tools, k)
           /\ said' \in Saids /\ prov' \in Providers
           /\ prov'.started = prov.started + Cardinality(NewCalls(tools))
           /\ e.finish # "" => prov'.over # "no"
           /\ Arrives(e)
  BY ChunkIs
<1>2. /\ up \in {"openai", "kiro"} /\ up # client /\ ~ PassedOn
      /\ prov.over = "no" /\ prov.started \in Nat /\ st \in State
  BY DEF ChunkArrives, Speaking, PassedOn, Talking, StreamTyped, Providers
<1>3. ToOpenAI(up, e, st) = OnePivot(st, e)
  BY <1>2 DEF ToOpenAI, Emit, Result, OnePivot
<1>4. /\ Usable(client, e, SlotsKnown(up, prov))
      /\ SlotsKnown(up, prov') \subseteq SlotsKnown(up, prov) \cup SlotsOfChunk(e)
  <2> DEFINE p1 == prov'
  <2>1. p1.started = prov.started + Cardinality(NewCalls(tools))
    BY <1>1
  <2> HIDE DEF p1
  <2>2. Usable(client, e, SlotsKnown(up, prov)) /\ SlotsKnown(up, p1) \subseteq SlotsKnown(up, prov) \cup SlotsOfChunk(e)
    BY <1>1, <1>2, <2>1, ChunkIsUsable
  <2>3. QED
    BY <2>2 DEF p1
<1>5. Same(client, st, st) /\ Speaks(up, client, st, prov')
  BY <1>2 DEF Same, Speaks, Direct
<1>6. QED
  BY <1>1, <1>2, <1>3, <1>4, <1>5, OneTold

(* Kiro's chunks to a client of Claude take the direct route.              *)
LEMMA KiroChunkIsTold ==
  ASSUME Talking, <<up, client>> \in Chains, Direct(up, client), ChunkArrives
  PROVE  Talking'
<1>1. PICK e \in ChunksSaid, tools \in Entries, k \in Int :
           /\ EntriesFit(tools) /\ e.tools = ToolsOf(tools, k)
           /\ said' \in Saids /\ prov' \in Providers
           /\ prov'.started = prov.started + Cardinality(NewCalls(tools))
           /\ e.finish # "" => prov'.over # "no"
           /\ Arrives(e)
  BY ChunkIs
<1>2. /\ up = "kiro" /\ client = "claude" /\ prov.over = "no" /\ prov.started \in Nat
      /\ st \in State /\ reader \in Readers /\ SpeaksKiro(st, prov) /\ InClaude(st, reader)
  BY DEF ChunkArrives, Talking, StreamTyped, Providers, Tells, Direct, Fits, Speaks
<1> DEFINE p1 == prov'
           b == Result(st)
           r == KiroToClaude(b, e)
           none == <<>>
           n == Len(tools)
           new == Cardinality(NewCalls(tools))
<1>3. b \in Results /\ b.st = st /\ After(reader, b.out) = reader
  <2>1. b = With(st, none) /\ none \in Seq(Events)
    BY DEF Result, With
  <2>2. After(reader, none) = reader
    BY <1>2, AfterNone
  <2> HIDE DEF b, none
  <2>3. b \in Results /\ b.st = st /\ b.out = none
    BY <1>2, <2>1, WithFacts
  <2>4. QED
    BY <2>2, <2>3
<1>4. /\ n \in Nat /\ DOMAIN tools = 1 .. n /\ Len(e.tools) = n /\ new \in Nat
      /\ \A i \in 1 .. n :
           /\ e.tools[i].at = tools[i].call - 1
           /\ e.tools[i].id = IF tools[i].named THEN tools[i].call ELSE Nothing
  <2>1. n \in Nat /\ DOMAIN tools = 1 .. n /\ new \in Nat
    BY <1>1 DEF EntriesFit
  <2>2. /\ Len(ToolsOf(tools, k)) = n
        /\ \A i \in 1 .. n : /\ ToolsOf(tools, k)[i].at = tools[i].call - 1
                             /\ ToolsOf(tools, k)[i].id = IF tools[i].named THEN tools[i].call ELSE Nothing
    BY <1>1, ToolsTold
  <2> HIDE DEF n, new
  <2>3. QED
    BY <1>1, <2>1, <2>2
<1>5. ASSUME NEW i \in 1 .. n
      PROVE  /\ tools[i].call \in Nat /\ tools[i].call - 1 \in Slots /\ tools[i].call - 1 + 1 = tools[i].call
             /\ tools[i].call <= prov.started + new
             /\ tools[i].named => tools[i].call > prov.started
             /\ \A j \in 1 .. n : i # j => tools[i].call # tools[j].call
  <2>1. /\ tools[i].call \in Calls /\ tools[i].call <= prov.started + new
        /\ tools[i].named => tools[i].call > prov.started
        /\ \A j \in 1 .. n : i # j => tools[i].call # tools[j].call
    BY <1>1, <1>2, <1>4 DEF EntriesFit
  <2> HIDE DEF n, new
  <2>2. QED
    BY <2>1, CallsAreSlots
<1>6. st' = r.st /\ reader' = After(reader, r.out) /\ up' = up /\ client' = client
  <2>1. Translate(up, client, e, st) = r
    BY <1>2 DEF Translate
  <2> HIDE DEF r
  <2>2. QED
    BY <1>1, <2>1, ArrivesIs
<1> HIDE DEF b, n, new
<1>7. \A i \in 1 .. Len(e.tools) : e.tools[i].id # Nothing =>
        /\ b.st.toolCalls[e.tools[i].at] = NoTool
        /\ \A j \in 1 .. i - 1 : e.tools[j].id # Nothing => e.tools[j].at # e.tools[i].at
  <2> SUFFICES ASSUME NEW i \in 1 .. n, e.tools[i].id # Nothing
               PROVE  /\ st.toolCalls[e.tools[i].at] = NoTool
                      /\ \A j \in 1 .. i - 1 : e.tools[j].at # e.tools[i].at
    BY <1>3, <1>4
  <2>1. tools[i].named
    BY <1>4
  <2>2. tools[i].call > prov.started /\ e.tools[i].at = tools[i].call - 1 /\ e.tools[i].at \in Slots
    BY <1>4, <1>5, <2>1
  <2>3. ~ (e.tools[i].at + 1 <= prov.started)
    BY <1>2, <1>5, <2>2
  <2>4. \A j \in 1 .. i - 1 : j \in 1 .. n /\ i # j
    BY <1>4
  <2>5. \A j \in 1 .. i - 1 : e.tools[j].at # e.tools[i].at
    BY <1>4, <1>5, <2>4
  <2>6. QED
    BY <1>2, <2>2, <2>3, <2>5 DEF SpeaksKiro
<1>8. /\ r \in Results
      /\ e.finish = "" => InClaude(r.st, After(reader, r.out))
      /\ e.finish # "" => Heard(After(reader, r.out))
      /\ \A j \in Slots : st.toolCalls[j] = NoTool /\ r.st.toolCalls[j] # NoTool
           => \E i \in 1 .. n : e.tools[i].id # Nothing /\ e.tools[i].at = j
  <2>1. InClaude(b.st, After(reader, b.out))
    BY <1>2, <1>3
  <2>2. reader \in Readers /\ b \in Results /\ e \in ChunksSaid
    BY <1>2, <1>3
  <2>3. /\ r \in Results
        /\ e.finish = "" => InClaude(r.st, After(reader, r.out))
        /\ e.finish # "" => Heard(After(reader, r.out))
        /\ \A j \in Slots : b.st.toolCalls[j] = NoTool /\ r.st.toolCalls[j] # NoTool
             => \E i \in 1 .. Len(e.tools) : e.tools[i].id # Nothing /\ e.tools[i].at = j
    BY <1>7, <2>1, <2>2, ClaudeHearsKiro
  <2> HIDE DEF r
  <2>4. QED
    BY <1>3, <1>4, <2>3
<1> HIDE DEF r
<1>9. r.st \in State /\ After(reader, r.out) \in Readers
  BY <1>2, <1>8, AfterTyped DEF Results
<1>10. SpeaksKiro(r.st, p1)
  <2> SUFFICES ASSUME NEW j \in Slots, r.st.toolCalls[j] # NoTool PROVE j + 1 <= p1.started
    BY DEF SpeaksKiro
  <2>1. p1.started = prov.started + new /\ j \in Nat
    BY <1>1, CallsAreSlots DEF new
  <2>2. CASE st.toolCalls[j] # NoTool
    BY <1>2, <1>4, <2>1, <2>2 DEF SpeaksKiro
  <2>3. CASE st.toolCalls[j] = NoTool
    <3>1. PICK i \in 1 .. n : e.tools[i].at = j
      BY <1>8, <2>3
    <3>2. tools[i].call - 1 = j /\ tools[i].call = j + 1 /\ tools[i].call <= prov.started + new
      BY <1>4, <1>5, <3>1
    <3>3. QED
      BY <2>1, <3>2
  <2>4. QED
    BY <2>2, <2>3
<1>11. e.finish # "" => p1.over # "no"
  BY <1>1
<1>13. Tells(up, client, r.st, After(reader, r.out), p1)
  BY <1>2, <1>8, <1>10, <1>11 DEF Tells, Speaks, Fits, Done
<1>14. QED
  BY <1>1, <1>6, <1>9, <1>13 DEF Talking, StreamTyped, p1

-----------------------------------------------------------------------------
(* The events of Claude Messages                                           *)

LEMMA ClaudeOne ==
  ASSUME Talking, <<up, client>> \in Chains, ~ PassedOn, up = "claude", prov.over = "no",
         NEW e, Arrives(e), NEW t \in State, Same(client, st, t), NEW c \in ChunksSaid,
         ClaudeToOpenAI(e, st) = OnePivot(t, c), Usable(client, c, {}),
         said' \in Saids, prov' \in Providers, SpeaksClaude(t, prov'), c.finish # "" => prov'.over # "no"
  PROVE  Talking'
<1>1. ~ Direct(up, client) /\ Speaks(up, client, t, prov')
  BY DEF Direct, Speaks
<1>2. SlotsKnown(up, prov') = {} /\ SlotsKnown(up, prov) = {}
  BY DEF SlotsKnown
<1>3. ToOpenAI(up, e, st) = OnePivot(t, c)
  BY DEF ToOpenAI
<1>4. Usable(client, c, SlotsKnown(up, prov)) /\ SlotsKnown(up, prov') \subseteq SlotsKnown(up, prov) \cup SlotsOfChunk(c)
  BY <1>2
<1>5. QED
  BY <1>1, <1>3, <1>4, OneTold

LEMMA ClaudeNone ==
  ASSUME Talking, <<up, client>> \in Chains, ~ PassedOn, up = "claude",
         NEW e, Arrives(e), NEW t \in State, Same(client, st, t), ClaudeToOpenAI(e, st) = NoPivot(t),
         said' \in Saids, prov' \in Providers, SpeaksClaude(t, prov'), prov.over # "no" => prov'.over # "no"
  PROVE  Talking'
<1>1. ~ Direct(up, client) /\ Speaks(up, client, t, prov')
  BY DEF Direct, Speaks
<1>2. SlotsKnown(up, prov') \subseteq SlotsKnown(up, prov)
  BY DEF SlotsKnown
<1>3. ToOpenAI(up, e, st) = NoPivot(t)
  BY DEF ToOpenAI
<1>4. QED
  BY <1>1, <1>2, <1>3, NoneTold

(* A chunk without entries of calls.                                       *)
Plain(n, m, reason) == Chunk(n, m, <<>>, reason)

LEMMA PlainFacts ==
  /\ \A n, m \in Int, reason \in Finishings : \A cl, N :
       Plain(n, m, reason) \in ChunksSaid /\ Usable(cl, Plain(n, m, reason), N) /\ Plain(n, m, reason).finish = reason
  /\ \A n : Says(n) = Plain(Nothing, n, "") /\ Thinks(n) = Plain(n, Nothing, "")
  /\ \A reason : Finishes(reason) = Plain(Nothing, Nothing, reason)
  /\ Nothing \in Int /\ OpenTag \in Int /\ CloseTag \in Int
  /\ "" \in Finishings /\ "stop" \in Finishings /\ "tools" \in Finishings
<1>1. ASSUME NEW n \in Int, NEW m \in Int, NEW reason \in Finishings, NEW cl, NEW N
      PROVE  Plain(n, m, reason) \in ChunksSaid /\ Usable(cl, Plain(n, m, reason), N) /\ Plain(n, m, reason).finish = reason
  BY ChunkFacts DEF Plain
<1>2. \A n : Says(n) = Plain(Nothing, n, "") /\ Thinks(n) = Plain(n, Nothing, "")
  BY DEF Plain, Says, Thinks
<1>3. \A reason : Finishes(reason) = Plain(Nothing, Nothing, reason)
  BY DEF Plain, Finishes
<1>4. /\ Nothing \in Int /\ OpenTag \in Int /\ CloseTag \in Int
      /\ "" \in Finishings /\ "stop" \in Finishings /\ "tools" \in Finishings
  BY DEF Nothing, OpenTag, CloseTag, Finishings
<1>5. QED
  BY <1>1, <1>2, <1>3, <1>4

LEMMA SendsIs ==
  ASSUME NEW t, NEW c
  PROVE  Emit(Result(t), c) = OnePivot(t, c)
BY DEF Emit, Result, OnePivot

LEMMA ClaudeStreams ==
  ASSUME Talking, Speaking({"claude"})
  PROVE  /\ up = "claude" /\ ~ PassedOn /\ client # "claude"
         /\ st \in State /\ prov \in Providers /\ said \in Saids /\ Next1 \in Int
         /\ SpeaksClaude(st, prov)
<1>1. up = "claude" /\ ~ PassedOn /\ client # "claude"
  BY DEF Speaking, PassedOn
<1>2. st \in State /\ prov \in Providers /\ said \in Saids
  BY DEF Talking, StreamTyped
<1>3. Next1 \in Int
  BY <1>2 DEF Next1, Saids
<1>4. QED
  BY <1>1, <1>2, <1>3 DEF Talking, Tells, Speaks

LEMMA ClaudeBeginsTold ==
  ASSUME Talking, <<up, client>> \in Chains, ClaudeBegins
  PROVE  Talking'
<1>1. /\ up = "claude" /\ ~ PassedOn /\ client # "claude"
      /\ st \in State /\ prov \in Providers /\ said \in Saids /\ SpeaksClaude(st, prov)
  BY ClaudeStreams DEF ClaudeBegins
<1> DEFINE e == Event("message_start", 0, "none", Nothing, Nothing)
           t == [st EXCEPT !.toolIndex = 0]
           c == Plain(Nothing, Nothing, "")
<1>2. /\ Arrives(e) /\ prov' = [prov EXCEPT !.begun = TRUE] /\ said' = said /\ ~ prov.begun
  BY DEF ClaudeBegins
<1>3. prov.over = "no" /\ prov.started = 0
  BY <1>1, <1>2 DEF SpeaksClaude
<1>4. t \in State /\ Same(client, st, t)
  BY <1>1 DEF State, Same
<1>5. c \in ChunksSaid /\ Usable(client, c, {}) /\ c.finish = ""
  BY PlainFacts
<1>6. ClaudeToOpenAI(e, st) = OnePivot(t, c)
  <2>1. e.type = "message_start"
    BY DEF Event
  <2>2. ClaudeToOpenAI(e, st) = Emit([Result(st) EXCEPT !.st.toolIndex = 0], Chunk(Nothing, Nothing, <<>>, ""))
    BY <2>1 DEF ClaudeToOpenAI
  <2>3. [Result(st) EXCEPT !.st.toolIndex = 0] = Result(t)
    BY DEF Result
  <2>4. ClaudeToOpenAI(e, st) = Emit(Result(t), c)
    BY <2>2, <2>3 DEF Plain
  <2> HIDE DEF t, c
  <2>5. QED
    BY <2>4, SendsIs
<1>7. prov' \in Providers
  BY <1>1, <1>2 DEF Providers
<1>8. SpeaksClaude(t, prov')
  BY <1>1, <1>2, <1>3 DEF SpeaksClaude, Providers, State
<1> HIDE DEF e, t, c
<1>9. QED
  BY <1>1, <1>2, <1>3, <1>4, <1>5, <1>6, <1>7, <1>8, ClaudeOne

LEMMA BlockStartsTold ==
  ASSUME Talking, <<up, client>> \in Chains, BlockStarts
  PROVE  Talking'
<1>1. /\ up = "claude" /\ ~ PassedOn /\ client # "claude"
      /\ st \in State /\ prov \in Providers /\ said \in Saids /\ SpeaksClaude(st, prov)
  BY ClaudeStreams DEF BlockStarts
<1>2. PICK kind \in {"think", "text", "call", "server"} :
        LET c == IF kind = "call" THEN prov.started + 1 ELSE Nothing IN
        /\ kind = "call" => c \in Calls
        /\ prov' = [prov EXCEPT !.kind = kind, !.started = IF kind = "call" THEN c ELSE @]
        /\ Arrives(Event("start", prov.index, kind, c, Nothing))
  BY DEF BlockStarts
<1>3. prov.begun /\ prov.over = "no" /\ prov.index \in Slots /\ said' = said
  BY DEF BlockStarts
<1> DEFINE id == IF kind = "call" THEN prov.started + 1 ELSE Nothing
           e == Event("start", prov.index, kind, id, Nothing)
<1>4. e.type = "start" /\ e.kind = kind /\ e.index = prov.index /\ e.call = id
  BY DEF Event
<1>5. Arrives(e) /\ (kind = "call" => id \in Calls)
  BY <1>2
<1>6. /\ prov' \in Providers /\ prov'.over = "no" /\ prov'.begun = prov.begun /\ prov'.index = prov.index
      /\ prov'.started = IF kind = "call" THEN prov.started + 1 ELSE prov.started
  <2>1. prov.started \in Nat
    BY <1>1 DEF Providers
  <2>2. prov' = [prov EXCEPT !.kind = kind, !.started = IF kind = "call" THEN prov.started + 1 ELSE prov.started]
    BY <1>2
  <2>3. (IF kind = "call" THEN prov.started + 1 ELSE prov.started) \in Nat
    BY <2>1
  <2>4. QED
    BY <1>1, <1>3, <2>2, <2>3 DEF Providers
<1> HIDE DEF e
<1>7. CASE kind = "think"
  <2> DEFINE t == [st EXCEPT !.thinkingBlock = prov.index]
             c == Plain(Nothing, OpenTag, "")
  <2>1. prov.index \in Int
    BY <1>3, CallsAreSlots
  <2>2. t \in State /\ Same(client, st, t) /\ t.toolIndex = st.toolIndex /\ t.toolCalls = st.toolCalls
    BY <1>1, <2>1 DEF State, Same
  <2>3. c \in ChunksSaid /\ Usable(client, c, {}) /\ c.finish = ""
    BY PlainFacts
  <2>4. ClaudeToOpenAI(e, st) = OnePivot(t, c)
    <3>1. ClaudeToOpenAI(e, st) = Emit([Result(st) EXCEPT !.st.thinkingBlock = e.index], Says(OpenTag))
      BY <1>4, <1>7 DEF ClaudeToOpenAI
    <3>2. [Result(st) EXCEPT !.st.thinkingBlock = e.index] = Result(t)
      BY <1>4 DEF Result
    <3>3. Says(OpenTag) = c
      BY PlainFacts
    <3> HIDE DEF t, c
    <3>4. QED
      BY <3>1, <3>2, <3>3, SendsIs
  <2> HIDE DEF t, c
  <2>5. SpeaksClaude(t, prov')
    BY <1>1, <1>3, <1>6, <1>7, <2>2 DEF SpeaksClaude
  <2>6. QED
    BY <1>1, <1>3, <1>5, <1>6, <2>2, <2>3, <2>4, <2>5, ClaudeOne
<1>8. CASE kind = "text"
  <2>1. ClaudeToOpenAI(e, st) = NoPivot(st)
    BY <1>4, <1>8 DEF ClaudeToOpenAI, Result, NoPivot
  <2>2. SpeaksClaude(st, prov')
    BY <1>1, <1>3, <1>6, <1>8 DEF SpeaksClaude
  <2>3. Same(client, st, st)
    BY DEF Same
  <2>4. QED
    BY <1>1, <1>3, <1>5, <1>6, <2>1, <2>2, <2>3, ClaudeNone
<1>9. CASE kind = "server"
  <2> DEFINE t == [st EXCEPT !.serverBlock = prov.index]
  <2>1. prov.index \in Int
    BY <1>3, CallsAreSlots
  <2>2. t \in State /\ Same(client, st, t) /\ t.toolIndex = st.toolIndex /\ t.toolCalls = st.toolCalls
    BY <1>1, <2>1 DEF State, Same
  <2>3. ClaudeToOpenAI(e, st) = NoPivot(t)
    BY <1>4, <1>9 DEF ClaudeToOpenAI, Result, NoPivot
  <2> HIDE DEF t
  <2>4. SpeaksClaude(t, prov')
    BY <1>1, <1>3, <1>6, <1>9, <2>2 DEF SpeaksClaude
  <2>5. QED
    BY <1>1, <1>3, <1>5, <1>6, <2>2, <2>3, <2>4, ClaudeNone
<1>10. CASE kind = "call"
  <2> DEFINE x == [call |-> id, at |-> st.toolIndex]
             tools == [st.toolCalls EXCEPT ![prov.index] = x]
             more == st.toolIndex + 1
             t1 == [st EXCEPT !.toolCalls = tools]
             t == [t1 EXCEPT !.toolIndex = more]
             entry == Tool(st.toolIndex, id, Nothing)
             c == Uses(entry)
  <2>1. id = prov.started + 1 /\ id \in Calls /\ st.toolIndex = prov.started
    BY <1>1, <1>5, <1>10 DEF SpeaksClaude
  <2>2. prov.started \in Nat
    BY <1>1 DEF Providers
  <2>3. st.toolIndex \in Slots /\ id = st.toolIndex + 1 /\ id \in Nat /\ id # Nothing
    <3>1. id - 1 \in Slots /\ id \in Nat /\ id # Nothing
      BY <2>1, CallsAreSlots
    <3>2. QED
      BY <2>1, <2>2, <3>1
  <2>4. entry \in ToolEntries /\ entry.at = st.toolIndex /\ entry.id = id
    BY <2>3 DEF Tool, ToolEntries, Nothing
  <2>5. c \in ChunksSaid /\ Usable(client, c, {}) /\ c.finish = ""
    <3>1. Numbered(entry) /\ entry.id # Nothing
      BY <2>3, <2>4 DEF Numbered
    <3> HIDE DEF entry
    <3>2. QED
      BY <2>4, <3>1, ChunkFacts
  <2>6. tools \in [Slots -> ToolsUsed]
    <3>1. st.toolCalls \in [Slots -> ToolsUsed] /\ st.toolIndex \in Nat
      BY <1>1 DEF State
    <3>2. [call |-> id, at |-> st.toolIndex] \in ToolsUsed
      BY <2>3, <3>1 DEF ToolsUsed
    <3>3. QED
      BY <3>1, <3>2
  <2>7. ClaudeToOpenAI(e, st) = OnePivot(t, c)
    <3>1. ClaudeToOpenAI(e, st) =
            Emit([Result(st) EXCEPT !.st.toolCalls[e.index] = [call |-> e.call, at |-> st.toolIndex], !.st.toolIndex = @ + 1],
                 Uses(Tool(st.toolIndex, e.call, Nothing)))
      BY <1>4, <1>10 DEF ClaudeToOpenAI
    <3>2. [Result(st) EXCEPT !.st.toolCalls[e.index] = [call |-> e.call, at |-> st.toolIndex], !.st.toolIndex = @ + 1]
            = Result(t)
      <4> DEFINE none == <<>>
      <4>1. Result(st) = [st |-> st, out |-> none] /\ Result(t) = [st |-> t, out |-> none]
        BY DEF Result
      <4>2. [call |-> e.call, at |-> st.toolIndex] = x /\ e.index = prov.index
        BY <1>4
      <4> HIDE DEF none, id, e, x
      <4>3. [[st |-> st, out |-> none] EXCEPT !.st.toolCalls[prov.index] = x] = [st |-> t1, out |-> none]
        OBVIOUS
      <4>6. [[st |-> t1, out |-> none] EXCEPT !.st.toolIndex = st.toolIndex + 1] = [st |-> t, out |-> none]
        OBVIOUS
      <4>4. [[st |-> st, out |-> none] EXCEPT !.st.toolCalls[prov.index] = x, !.st.toolIndex = @ + 1] = [st |-> t, out |-> none]
        BY <4>3, <4>6, Zenon
      <4>5. QED
        BY <4>1, <4>2, <4>4
    <3>3. Uses(Tool(st.toolIndex, e.call, Nothing)) = c
      BY <1>4
    <3> HIDE DEF t, c
    <3>4. QED
      BY <3>1, <3>2, <3>3, SendsIs
  <2>8. \A i \in Slots : tools[i] # NoTool => tools[i].at \in Slots /\ tools[i].call = tools[i].at + 1
    <3>1. \A i \in Slots : tools[i] = IF i = prov.index THEN [call |-> id, at |-> st.toolIndex] ELSE st.toolCalls[i]
      BY <1>1 DEF State
    <3> HIDE DEF tools, id
    <3>2. QED
      BY <1>1, <2>3, <3>1 DEF SpeaksClaude
  <2>9. more \in Nat
    BY <2>1, <2>2
  <2> HIDE DEF tools, more, c
  <2>10. t \in State /\ Same(client, st, t) /\ t.toolIndex = more /\ t.toolCalls = tools /\ t.finishSent = st.finishSent
    BY <1>1, <2>6, <2>9 DEF State, Same
  <2> HIDE DEF t, entry
  <2>11. SpeaksClaude(t, prov')
    BY <1>1, <1>3, <1>6, <1>10, <2>1, <2>8, <2>10 DEF SpeaksClaude, more
  <2>12. QED
    BY <1>1, <1>3, <1>5, <1>6, <2>5, <2>7, <2>10, <2>11, ClaudeOne
<1>11. QED
  BY <1>7, <1>8, <1>9, <1>10

LEMMA BlockContinuesTold ==
  ASSUME Talking, <<up, client>> \in Chains, BlockContinues
  PROVE  Talking'
<1>1. /\ up = "claude" /\ ~ PassedOn /\ client # "claude" /\ Next1 \in Int
      /\ st \in State /\ prov \in Providers /\ said \in Saids /\ SpeaksClaude(st, prov)
  BY ClaudeStreams DEF BlockContinues
<1>2. prov.kind # "none" /\ prov' = prov
  BY DEF BlockContinues
<1>3. prov.index \in Slots /\ prov.over = "no"
  BY <1>1, <1>2 DEF SpeaksClaude
<1>4. \E kind \in Kinds, c \in Nat : Arrives(Event("delta", prov.index, kind, c, Next1)) /\ said' \in Saids
  <2>1. CASE prov.kind = "server"
    <3>1. Arrives(Event("delta", prov.index, "call", Nothing, Next1)) /\ said' = said
      BY <2>1 DEF BlockContinues
    <3>2. "call" \in Kinds /\ Nothing \in Nat
      BY DEF Kinds, Nothing
    <3>3. QED
      BY <1>1, <3>1, <3>2
  <2>2. CASE prov.kind # "server"
    <3> DEFINE c == IF prov.kind = "call" THEN prov.started ELSE Nothing
    <3>1. Arrives(Event("delta", prov.index, prov.kind, c, Next1)) /\ said' = Append(said, Piece(prov.kind, c))
      BY <2>2 DEF BlockContinues
    <3>2. prov.kind \in Kinds /\ c \in Nat
      BY <1>1, <1>2, <2>2 DEF Kinds, Nothing, Providers
    <3> HIDE DEF c
    <3>3. Piece(prov.kind, c) \in [kind : Kinds, call : Nat]
      BY <3>2 DEF Piece
    <3>4. Append(said, Piece(prov.kind, c)) \in Saids
      BY <1>1, <3>3 DEF Saids
    <3>5. QED
      BY <3>1, <3>2, <3>4
  <2>3. QED
    BY <2>1, <2>2
<1>5. PICK kind \in Kinds, id \in Nat : Arrives(Event("delta", prov.index, kind, id, Next1)) /\ said' \in Saids
  BY <1>4
<1> DEFINE e == Event("delta", prov.index, kind, id, Next1)
<1>6. e.type = "delta" /\ e.kind = kind /\ e.index = prov.index /\ e.piece = Next1
  BY DEF Event
<1>7. Arrives(e) /\ prov' \in Providers /\ SpeaksClaude(st, prov')
  BY <1>1, <1>2, <1>5
<1> HIDE DEF e
<1>8. Same(client, st, st)
  BY DEF Same
<1>9. ASSUME NEW c \in ChunksSaid, Usable(client, c, {}), c.finish = "", ClaudeToOpenAI(e, st) = Emit(Result(st), c)
      PROVE  Talking'
  <2>1. ClaudeToOpenAI(e, st) = OnePivot(st, c)
    BY <1>9, SendsIs
  <2>2. QED
    BY <1>1, <1>3, <1>5, <1>7, <1>8, <1>9, <2>1, ClaudeOne
<1>10. ASSUME ClaudeToOpenAI(e, st) = Result(st)
       PROVE  Talking'
  <2>1. ClaudeToOpenAI(e, st) = NoPivot(st)
    BY <1>10 DEF Result, NoPivot
  <2>2. QED
    BY <1>1, <1>3, <1>5, <1>7, <1>8, <2>1, ClaudeNone
<1>11. CASE e.index = st.serverBlock
  <2>1. ClaudeToOpenAI(e, st) = Result(st)
    BY <1>6, <1>11 DEF ClaudeToOpenAI
  <2>2. QED
    BY <1>10, <2>1
<1>12. CASE e.index # st.serverBlock /\ kind = "text"
  <2>1. ClaudeToOpenAI(e, st) = Emit(Result(st), Says(Next1))
    BY <1>6, <1>12 DEF ClaudeToOpenAI
  <2> DEFINE c == Plain(Nothing, Next1, "")
  <2>2. Says(Next1) = c /\ c \in ChunksSaid /\ Usable(client, c, {}) /\ c.finish = ""
    BY <1>1, PlainFacts
  <2> HIDE DEF c
  <2>3. QED
    BY <1>9, <2>1, <2>2
<1>13. CASE e.index # st.serverBlock /\ kind = "think"
  <2>1. ClaudeToOpenAI(e, st) = Emit(Result(st), Thinks(Next1))
    BY <1>6, <1>13 DEF ClaudeToOpenAI
  <2> DEFINE c == Plain(Next1, Nothing, "")
  <2>2. Thinks(Next1) = c /\ c \in ChunksSaid /\ Usable(client, c, {}) /\ c.finish = ""
    BY <1>1, PlainFacts
  <2> HIDE DEF c
  <2>3. QED
    BY <1>9, <2>1, <2>2
<1>14. CASE e.index # st.serverBlock /\ kind = "call"
  <2> DEFINE tool == st.toolCalls[prov.index]
             entry == Tool(tool.at, tool.call, Next1)
  <2>1. CASE tool = NoTool
    <3>1. ClaudeToOpenAI(e, st) = Result(st)
      BY <1>6, <1>14, <2>1 DEF ClaudeToOpenAI
    <3>2. QED
      BY <1>10, <3>1
  <2>2. CASE tool # NoTool
    <3>1. ClaudeToOpenAI(e, st) = Emit(Result(st), Uses(entry))
      BY <1>6, <1>14, <2>2 DEF ClaudeToOpenAI
    <3>2. tool.at \in Slots /\ tool.call = tool.at + 1
      BY <1>1, <1>3, <2>2 DEF SpeaksClaude
    <3>3. tool.at \in Nat /\ tool.call \in Nat /\ tool.call # Nothing
      BY <3>2, CallsAreSlots DEF Nothing
    <3> HIDE DEF tool
    <3>4. entry \in ToolEntries /\ entry.at = tool.at /\ entry.id = tool.call
      BY <1>1, <3>2, <3>3 DEF Tool, ToolEntries
    <3> HIDE DEF entry
    <3>5. Numbered(entry) /\ entry.id # Nothing
      BY <3>2, <3>3, <3>4 DEF Numbered
    <3>6. Uses(entry) \in ChunksSaid /\ Usable(client, Uses(entry), {}) /\ Uses(entry).finish = ""
      BY <3>4, <3>5, ChunkFacts
    <3>7. QED
      BY <1>9, <3>1, <3>6
  <2>3. QED
    BY <2>1, <2>2
<1>15. QED
  BY <1>11, <1>12, <1>13, <1>14 DEF Kinds

LEMMA BlockStopsTold ==
  ASSUME Talking, <<up, client>> \in Chains, BlockStops
  PROVE  Talking'
<1>1. /\ up = "claude" /\ ~ PassedOn /\ client # "claude"
      /\ st \in State /\ prov \in Providers /\ said \in Saids /\ SpeaksClaude(st, prov)
  BY ClaudeStreams DEF BlockStops
<1> DEFINE e == Event("stop", prov.index, prov.kind, Nothing, Nothing)
<1>2. /\ prov.kind # "none" /\ said' = said /\ Arrives(e)
      /\ prov' = [prov EXCEPT !.kind = "none", !.index = @ + 1]
  BY DEF BlockStops
<1>3. prov.index \in Slots /\ prov.over = "no"
  BY <1>1, <1>2 DEF SpeaksClaude
<1>4. /\ prov' \in Providers /\ prov'.kind = "none" /\ prov'.over = prov.over /\ prov'.begun = prov.begun
      /\ prov'.started = prov.started
  <2> DEFINE n == prov.index + 1
  <2>1. n \in Nat
    BY <1>1 DEF Providers
  <2>2. prov' = [prov EXCEPT !.kind = "none", !.index = n]
    BY <1>2
  <2> HIDE DEF n
  <2>3. QED
    BY <1>1, <2>1, <2>2 DEF Providers
<1>5. e.type = "stop" /\ e.index = prov.index
  BY DEF Event
<1> HIDE DEF e
<1>6. ASSUME NEW t, t.toolIndex = st.toolIndex, t.toolCalls = st.toolCalls PROVE SpeaksClaude(t, prov')
  BY <1>1, <1>3, <1>4, <1>6 DEF SpeaksClaude
<1>7. NoBlock \in Int
  BY DEF NoBlock
<1>8. CASE e.index = st.serverBlock
  <2> DEFINE t == [st EXCEPT !.serverBlock = NoBlock]
  <2>1. t \in State /\ Same(client, st, t) /\ t.toolIndex = st.toolIndex /\ t.toolCalls = st.toolCalls
    BY <1>1, <1>7 DEF State, Same
  <2>2. ClaudeToOpenAI(e, st) = NoPivot(t)
    BY <1>5, <1>8 DEF ClaudeToOpenAI, Result, NoPivot
  <2> HIDE DEF t
  <2>3. SpeaksClaude(t, prov')
    BY <1>6, <2>1
  <2>4. QED
    BY <1>1, <1>2, <1>3, <1>4, <2>1, <2>2, <2>3, ClaudeNone
<1>9. CASE e.index # st.serverBlock /\ e.index = st.thinkingBlock
  <2> DEFINE t == [st EXCEPT !.thinkingBlock = NoBlock]
             c == Plain(Nothing, CloseTag, "")
  <2>1. t \in State /\ Same(client, st, t) /\ t.toolIndex = st.toolIndex /\ t.toolCalls = st.toolCalls
    BY <1>1, <1>7 DEF State, Same
  <2>2. c \in ChunksSaid /\ Usable(client, c, {}) /\ c.finish = ""
    BY PlainFacts
  <2>3. ClaudeToOpenAI(e, st) = OnePivot(t, c)
    <3>1. ClaudeToOpenAI(e, st) = Emit([Result(st) EXCEPT !.st.thinkingBlock = NoBlock], Says(CloseTag))
      BY <1>5, <1>9 DEF ClaudeToOpenAI
    <3>2. [Result(st) EXCEPT !.st.thinkingBlock = NoBlock] = Result(t)
      BY DEF Result
    <3>3. Says(CloseTag) = c
      BY PlainFacts
    <3> HIDE DEF t, c
    <3>4. QED
      BY <3>1, <3>2, <3>3, SendsIs
  <2> HIDE DEF t, c
  <2>4. SpeaksClaude(t, prov')
    BY <1>6, <2>1
  <2>5. QED
    BY <1>1, <1>2, <1>3, <1>4, <2>1, <2>2, <2>3, <2>4, ClaudeOne
<1>10. CASE e.index # st.serverBlock /\ e.index # st.thinkingBlock
  <2>1. ClaudeToOpenAI(e, st) = NoPivot(st)
    BY <1>5, <1>10 DEF ClaudeToOpenAI, Result, NoPivot
  <2>2. SpeaksClaude(st, prov') /\ Same(client, st, st)
    BY <1>6 DEF Same
  <2>3. QED
    BY <1>1, <1>2, <1>3, <1>4, <2>1, <2>2, ClaudeNone
<1>11. QED
  BY <1>8, <1>9, <1>10

LEMMA ClaudeFinishesTold ==
  ASSUME Talking, <<up, client>> \in Chains, ClaudeFinishes
  PROVE  Talking'
<1>1. /\ up = "claude" /\ ~ PassedOn /\ client # "claude"
      /\ st \in State /\ prov \in Providers /\ said \in Saids /\ SpeaksClaude(st, prov)
  BY ClaudeStreams DEF ClaudeFinishes
<1>2. /\ prov.begun /\ prov.kind = "none" /\ said' = said
      /\ prov' = [prov EXCEPT !.over = "finished"]
  BY DEF ClaudeFinishes
<1>3. /\ prov' \in Providers /\ prov'.kind = "none" /\ prov'.over # "no" /\ prov'.begun
      /\ prov'.started = prov.started
  BY <1>1, <1>2 DEF Providers
<1>4. ASSUME NEW t, t.toolIndex = st.toolIndex, t.toolCalls = st.toolCalls, t.finishSent PROVE SpeaksClaude(t, prov')
  BY <1>1, <1>3, <1>4 DEF SpeaksClaude
<1> DEFINE yes == TRUE
           t == [st EXCEPT !.finishSent = yes]
<1>5. t \in State /\ Same(client, st, t) /\ t.toolIndex = st.toolIndex /\ t.toolCalls = st.toolCalls /\ t.finishSent
  BY <1>1 DEF State, Same
<1>6. [Result(st) EXCEPT !.st.finishSent = TRUE] = Result(t)
  <2> HIDE DEF yes
  <2>1. [Result(st) EXCEPT !.st.finishSent = yes] = Result(t)
    BY DEF Result
  <2>2. QED
    BY <2>1 DEF yes
<1> HIDE DEF t
<1>7. ASSUME prov.over = "no", NEW reason \in Finishings, NEW e, Arrives(e), 
             ClaudeToOpenAI(e, st) = Emit([Result(st) EXCEPT !.st.finishSent = TRUE], Finishes(reason))
      PROVE  Talking'
  <2> DEFINE c == Plain(Nothing, Nothing, reason)
  <2>1. c \in ChunksSaid /\ Usable(client, c, {}) /\ Finishes(reason) = c
    BY PlainFacts
  <2> HIDE DEF c
  <2>2. ClaudeToOpenAI(e, st) = OnePivot(t, c)
    BY <1>6, <1>7, <2>1, SendsIs
  <2>3. SpeaksClaude(t, prov')
    BY <1>4, <1>5
  <2>4. QED
    BY <1>1, <1>2, <1>3, <1>5, <1>7, <2>1, <2>2, <2>3, ClaudeOne
<1> DEFINE d == Event("message_delta", 0, FinishReason, Nothing, Nothing)
           s == Event("message_stop", 0, "none", Nothing, Nothing)
<1>8. (prov.over = "no" /\ Arrives(d)) \/ Arrives(s)
  BY DEF ClaudeFinishes
<1>9. d.type = "message_delta" /\ d.kind = FinishReason /\ s.type = "message_stop" /\ FinishReason \in Finishings
  BY DEF Event, FinishReason, Finishings
<1> HIDE DEF d, s
<1>10. CASE prov.over = "no" /\ Arrives(d)
  <2>1. ClaudeToOpenAI(d, st) = Emit([Result(st) EXCEPT !.st.finishSent = TRUE], Finishes(FinishReason))
    BY <1>9 DEF ClaudeToOpenAI
  <2>2. QED
    BY <1>7, <1>9, <1>10, <2>1
<1>11. CASE Arrives(s) /\ ~ st.finishSent
  <2> DEFINE reason == IF \E i \in Slots : st.toolCalls[i] # NoTool THEN "tools" ELSE "stop"
  <2>1. ClaudeToOpenAI(s, st) = Emit([Result(st) EXCEPT !.st.finishSent = TRUE], Finishes(reason))
    BY <1>9, <1>11 DEF ClaudeToOpenAI
  <2>2. reason \in Finishings
    BY DEF Finishings
  <2>3. prov.over = "no"
    BY <1>1, <1>11 DEF SpeaksClaude
  <2> HIDE DEF reason
  <2>4. QED
    BY <1>7, <1>11, <2>1, <2>2, <2>3
<1>12. CASE Arrives(s) /\ st.finishSent
  <2>1. ClaudeToOpenAI(s, st) = NoPivot(st)
    BY <1>9, <1>12 DEF ClaudeToOpenAI, Result, NoPivot
  <2>2. SpeaksClaude(st, prov') /\ Same(client, st, st)
    BY <1>4, <1>12 DEF Same
  <2>3. QED
    BY <1>1, <1>2, <1>3, <1>12, <2>1, <2>2, ClaudeNone
<1>13. QED
  BY <1>8, <1>10, <1>11, <1>12

-----------------------------------------------------------------------------
(* The events of the Responses API                                         *)

LEMMA ResponsesOne ==
  ASSUME Talking, <<up, client>> \in Chains, ~ PassedOn, up = "responses", prov.over = "no",
         NEW e, Arrives(e), NEW t \in State, Same(client, st, t), NEW c \in ChunksSaid,
         ResponsesToOpenAI(e, st) = Emit(Result(t), c), Usable(client, c, SlotsKnown("responses", prov)),
         said' \in Saids, prov' \in Providers, SpeaksResponses(t, prov'), c.finish # "" => prov'.over # "no",
         SlotsKnown("responses", prov') \subseteq SlotsKnown("responses", prov) \cup SlotsOfChunk(c)
  PROVE  Talking'
<1>1. ~ Direct(up, client) /\ Speaks(up, client, t, prov')
  BY DEF Direct, Speaks
<1>2. ToOpenAI(up, e, st) = OnePivot(t, c)
  BY SendsIs DEF ToOpenAI
<1>3. QED
  BY <1>1, <1>2, OneTold

LEMMA ResponsesNone ==
  ASSUME Talking, <<up, client>> \in Chains, ~ PassedOn, up = "responses",
         NEW e, Arrives(e), NEW t \in State, Same(client, st, t), ResponsesToOpenAI(e, st) = Result(t),
         said' \in Saids, prov' \in Providers, SpeaksResponses(t, prov'), prov.over # "no" => prov'.over # "no",
         prov'.started = prov.started
  PROVE  Talking'
<1>1. ~ Direct(up, client) /\ Speaks(up, client, t, prov')
  BY DEF Direct, Speaks
<1>2. SlotsKnown(up, prov') \subseteq SlotsKnown(up, prov)
  BY DEF SlotsKnown
<1>3. ToOpenAI(up, e, st) = NoPivot(t)
  BY DEF ToOpenAI, Result, NoPivot
<1>4. QED
  BY <1>1, <1>2, <1>3, NoneTold

Begun(s) == [s EXCEPT !.started = TRUE]

LEMMA BegunFacts ==
  ASSUME NEW s \in State
  PROVE  /\ Begun(s) \in State /\ \A cl : Same(cl, s, Begun(s))
         /\ Begun(s).toolIndex = s.toolIndex /\ Begun(s).finishSent = s.finishSent
         /\ Begun(s).respIndex = s.respIndex /\ Begun(s).argsEmitted = s.argsEmitted
         /\ Begun(s).current = s.current
BY DEF Begun, State, Same

LEMMA ResponsesStreams ==
  ASSUME Talking, Speaking({"responses"})
  PROVE  /\ up = "responses" /\ ~ PassedOn
         /\ st \in State /\ prov \in Providers /\ said \in Saids /\ Next1 \in Int /\ Next1 = Len(said) + 1
         /\ SpeaksResponses(st, prov)
<1>1. up = "responses" /\ ~ PassedOn
  BY DEF Speaking, PassedOn
<1>2. st \in State /\ prov \in Providers /\ said \in Saids
  BY DEF Talking, StreamTyped
<1>3. Next1 \in Int /\ Next1 = Len(said) + 1
  BY <1>2 DEF Next1, Saids
<1>4. QED
  BY <1>1, <1>2, <1>3 DEF Talking, Tells, Speaks

LEMMA MoreSaid ==
  ASSUME said \in Saids, NEW kind \in Kinds, NEW c \in Nat
  PROVE  Append(said, Piece(kind, c)) \in Saids
<1>1. Piece(kind, c) \in [kind : Kinds, call : Nat]
  BY DEF Piece
<1>2. QED
  BY <1>1 DEF Saids

(* A chunk without calls needs only its place in the answer.               *)
LEMMA ResponsesPlain ==
  ASSUME Talking, <<up, client>> \in Chains, ~ PassedOn, up = "responses", prov.over = "no",
         NEW e, Arrives(e), NEW t \in State, Same(client, st, t),
         NEW n \in Int, NEW m \in Int, NEW reason \in Finishings,
         ResponsesToOpenAI(e, st) = Emit(Result(t), Plain(n, m, reason)),
         said' \in Saids, prov' \in Providers, SpeaksResponses(t, prov'), reason # "" => prov'.over # "no",
         prov'.started = prov.started
  PROVE  Talking'
<1> DEFINE c == Plain(n, m, reason)
           N == SlotsKnown("responses", prov)
<1>1. c \in ChunksSaid /\ Usable(client, c, N) /\ c.finish = reason
  BY PlainFacts, ZenonT(40)
<1>2. SlotsKnown("responses", prov') = N
  BY DEF SlotsKnown
<1>3. ResponsesToOpenAI(e, st) = Emit(Result(t), c) /\ N = SlotsKnown("responses", prov)
  OBVIOUS
<1> HIDE DEF c, N
<1>4. SlotsKnown("responses", prov') \subseteq N \cup SlotsOfChunk(c)
  BY <1>2
<1>5. QED
  BY <1>1, <1>3, <1>4, ResponsesOne

LEMMA ResponsesSaysTold ==
  ASSUME Talking, <<up, client>> \in Chains, ResponsesSays
  PROVE  Talking'
<1>1. /\ up = "responses" /\ ~ PassedOn /\ prov.over = "no"
      /\ st \in State /\ prov \in Providers /\ said \in Saids /\ Next1 \in Int
      /\ SpeaksResponses(st, prov)
  BY ResponsesStreams DEF ResponsesSays
<1>2. PICK kind \in {"think", "text"} :
        said' = Append(said, Piece(kind, Nothing)) /\ Arrives(RespEvent(kind, Nothing, Next1))
  BY DEF ResponsesSays
<1> DEFINE e == RespEvent(kind, Nothing, Next1)
           t == Begun(st)
<1>3. /\ t \in State /\ Same(client, st, t)
      /\ t.toolIndex = st.toolIndex /\ t.finishSent = st.finishSent /\ t.respIndex = st.respIndex
  BY <1>1, BegunFacts
<1>4. prov' = [prov EXCEPT !.begun = TRUE]
  BY DEF ResponsesSays
<1>5. prov' \in Providers /\ prov'.started = prov.started /\ prov'.over = prov.over
  BY <1>1, <1>4 DEF Providers
<1>6. said' \in Saids
  BY <1>1, <1>2, MoreSaid DEF Kinds, Nothing
<1>7. e.type = kind /\ e.piece = Next1 /\ Arrives(e)
  BY <1>2 DEF RespEvent
<1> HIDE DEF e
<1>8. SpeaksResponses(t, prov')
  BY <1>1, <1>3, <1>5 DEF SpeaksResponses
<1>9. CASE kind = "think"
  <2>1. ResponsesToOpenAI(e, st) = Emit(Result(t), Thinks(Next1))
    BY <1>7, <1>9 DEF ResponsesToOpenAI, Begun
  <2> HIDE DEF t
  <2>2. ResponsesToOpenAI(e, st) = Emit(Result(t), Plain(Next1, Nothing, ""))
    BY <2>1, PlainFacts
  <2>3. Nothing \in Int /\ "" \in Finishings
    BY PlainFacts
  <2>4. QED
    BY <1>1, <1>3, <1>5, <1>6, <1>7, <1>8, <2>2, <2>3, ResponsesPlain
<1>10. CASE kind = "text"
  <2>1. ResponsesToOpenAI(e, st) = Emit(Result(t), Says(Next1))
    BY <1>7, <1>10 DEF ResponsesToOpenAI, Begun
  <2> HIDE DEF t
  <2>2. ResponsesToOpenAI(e, st) = Emit(Result(t), Plain(Nothing, Next1, ""))
    BY <2>1, PlainFacts
  <2>3. Nothing \in Int /\ "" \in Finishings
    BY PlainFacts
  <2>4. QED
    BY <1>1, <1>3, <1>5, <1>6, <1>7, <1>8, <2>2, <2>3, ResponsesPlain
<1>11. QED
  BY <1>9, <1>10

LEMMA ItemAddedTold ==
  ASSUME Talking, <<up, client>> \in Chains, ItemAdded
  PROVE  Talking'
<1>1. /\ up = "responses" /\ ~ PassedOn /\ prov.over = "no" /\ said' = said
      /\ st \in State /\ prov \in Providers /\ said \in Saids /\ SpeaksResponses(st, prov)
  BY ResponsesStreams DEF ItemAdded
<1> DEFINE s == Begun(st)
<1>2. /\ s \in State /\ (\A cl : Same(cl, st, s)) /\ s.toolIndex = st.toolIndex
      /\ s.finishSent = st.finishSent /\ s.respIndex = st.respIndex
  BY <1>1, BegunFacts
<1>3. prov.started \in Nat
  BY <1>1 DEF Providers
<1>4. CASE prov' = [prov EXCEPT !.begun = TRUE] /\ Arrives(RespEvent("created", Nothing, Nothing))
  <2> DEFINE e == RespEvent("created", Nothing, Nothing)
  <2>1. prov' \in Providers /\ prov'.started = prov.started /\ prov'.over = prov.over
    BY <1>1, <1>4 DEF Providers
  <2>2. ResponsesToOpenAI(e, st) = Result(s)
    <3>1. e.type = "created"
      BY DEF RespEvent
    <3> HIDE DEF e
    <3>2. QED
      BY <3>1 DEF ResponsesToOpenAI, Begun
  <2> HIDE DEF e, s
  <2>3. SpeaksResponses(s, prov')
    BY <1>1, <1>2, <2>1 DEF SpeaksResponses
  <2>4. QED
    BY <1>1, <1>2, <1>4, <2>1, <2>2, <2>3, ResponsesNone DEF e
<1>5. ASSUME NEW c \in Calls, c <= prov.started + 1,
             prov' = [prov EXCEPT !.begun = TRUE, !.started = IF c > @ THEN c ELSE @],
             Arrives(RespEvent("added", c, Nothing))
      PROVE  Talking'
  <2> DEFINE e == RespEvent("added", c, Nothing)
             new == s.respIndex[c] = NoBlock
             i == IF new THEN s.toolIndex ELSE s.respIndex[c]
             index == [s.respIndex EXCEPT ![c] = i]
             n == IF new THEN s.toolIndex + 1 ELSE s.toolIndex
             t1 == [s EXCEPT !.current = c]
             t2 == [t1 EXCEPT !.respIndex = index]
             t == [t2 EXCEPT !.toolIndex = n]
             entry == Tool(i, c, Nothing)
             more == IF c > prov.started THEN c ELSE prov.started
  <2>1. c \in Nat /\ c # Nothing /\ c - 1 \in Slots /\ c - 1 + 1 = c /\ c - 1 \in Int /\ c - 1 # NoBlock
    BY CallsAreSlots DEF Nothing, NoBlock
  <2>2. s.respIndex[c] = IF c <= prov.started THEN c - 1 ELSE NoBlock
    BY <1>1, <1>2 DEF SpeaksResponses
  <2>3. s.toolIndex = prov.started
    BY <1>1, <1>2 DEF SpeaksResponses
  <2>4. (new <=> c > prov.started) /\ (c > prov.started => c = prov.started + 1)
    BY <1>3, <1>5, <2>1, <2>2
  <2>5. i = c - 1 /\ n = more /\ more \in Nat
    BY <1>3, <2>1, <2>2, <2>3, <2>4
  <2>6. prov' \in Providers /\ prov'.started = more /\ prov'.over = prov.over
    <3>1. prov' = [prov EXCEPT !.begun = TRUE, !.started = more]
      BY <1>5
    <3> HIDE DEF more
    <3>2. QED
      BY <1>1, <2>5, <3>1 DEF Providers
  <2>7. entry \in ToolEntries /\ entry.at = i /\ entry.id = c
    <3> HIDE DEF i
    <3>1. QED
      BY <2>1, <2>5 DEF Tool, ToolEntries, Nothing
  <2>8. ResponsesToOpenAI(e, st) = Emit(Result(t), Uses(entry))
    <3>1. e.type = "added" /\ e.call = c
      BY DEF RespEvent
    <3> HIDE DEF e
    <3>2. ResponsesToOpenAI(e, st) = Added(c, s)
      BY <3>1 DEF ResponsesToOpenAI, Begun
    <3> HIDE DEF s
    <3>3. Added(c, s) = Emit(Result([s EXCEPT !.current = c, !.respIndex[c] = i, !.toolIndex = IF new THEN @ + 1 ELSE @]),
                             Uses(entry))
      BY DEF Added
    <3>4. t = [s EXCEPT !.current = c, !.respIndex[c] = i, !.toolIndex = IF new THEN @ + 1 ELSE @]
      <4> HIDE DEF i, new
      <4>1. QED
        BY <1>2 DEF State
    <3>5. QED
      BY <3>2, <3>3, <3>4
  <2>9. s.respIndex \in [Calls -> Int] /\ index \in [Calls -> Int]
        /\ \A d \in Calls : index[d] = IF d = c THEN i ELSE s.respIndex[d]
    <3>1. s.respIndex \in [Calls -> Int]
      BY <1>2 DEF State
    <3>2. i \in Int
      BY <2>1, <2>5
    <3> HIDE DEF i, s
    <3>3. QED
      BY <3>1, <3>2
  <2> HIDE DEF s
  <2>10. /\ t \in State /\ Same(client, st, t) /\ t.toolIndex = n /\ t.respIndex = index
         /\ t.finishSent = st.finishSent
    <3>1. n \in Nat /\ c \in Int
      BY <2>1, <2>5
    <3> HIDE DEF n, index
    <3>2. t1 \in State
      BY <1>2, <3>1 DEF State
    <3>3. t2 \in State
      BY <2>9, <3>2 DEF State
    <3>4. t \in State /\ t.toolIndex = n
      BY <3>1, <3>3 DEF State
    <3>5. Same(client, st, t) /\ t.respIndex = index /\ t.finishSent = s.finishSent
      BY <1>2 DEF Same, State
    <3>6. QED
      BY <1>2, <3>4, <3>5
  <2> HIDE DEF t, entry, index, e, n
  <2>11. \A d \in Calls : index[d] = IF d <= more THEN d - 1 ELSE NoBlock
    <3> TAKE d \in Calls
    <3>1. d \in Nat
      BY CallsAreSlots
    <3>2. index[d] = IF d = c THEN c - 1 ELSE IF d <= prov.started THEN d - 1 ELSE NoBlock
      BY <1>1, <1>2, <2>5, <2>9 DEF SpeaksResponses
    <3>3. c > prov.started => c = prov.started + 1
      BY <2>4
    <3>4. more = IF c > prov.started THEN c ELSE prov.started
      OBVIOUS
    <3> HIDE DEF more, new, i
    <3>5. d <= more <=> d = c \/ d <= prov.started
      BY <1>3, <2>1, <3>1, <3>3, <3>4
    <3>6. QED
      BY <3>2, <3>5
  <2>12. SpeaksResponses(t, prov')
    BY <1>1, <2>5, <2>6, <2>10, <2>11 DEF SpeaksResponses
  <2> DEFINE N == SlotsKnown("responses", prov)
  <2>13. /\ Uses(entry) \in ChunksSaid /\ Usable(client, Uses(entry), N) /\ Uses(entry).finish = ""
         /\ SlotsOfChunk(Uses(entry)) = {c - 1}
    <3>1. Numbered(entry) /\ entry.id # Nothing /\ entry.at = c - 1
      BY <2>1, <2>5, <2>7 DEF Numbered
    <3>2. QED
      BY <2>7, <3>1, ChunkFacts
  <2>14. SlotsKnown("responses", prov') \subseteq N \cup {c - 1}
    <3> SUFFICES ASSUME NEW j \in SlotsKnown("responses", prov') PROVE j \in N \/ j = c - 1
      OBVIOUS
    <3>1. j \in Slots /\ j + 1 \in Calls /\ j + 1 <= more /\ j \in Nat
      BY <2>6, CallsAreSlots DEF SlotsKnown
    <3>2. j + 1 <= prov.started \/ j = c - 1
      BY <1>3, <2>1, <2>4, <3>1
    <3>3. QED
      BY <3>1, <3>2 DEF SlotsKnown
  <2> DEFINE chunk == Uses(entry)
  <2>15. /\ chunk \in ChunksSaid /\ Usable(client, chunk, SlotsKnown("responses", prov)) /\ chunk.finish = ""
         /\ SlotsKnown("responses", prov') \subseteq SlotsKnown("responses", prov) \cup SlotsOfChunk(chunk)
         /\ ResponsesToOpenAI(e, st) = Emit(Result(t), chunk) /\ Arrives(e)
    BY <1>5, <2>8, <2>13, <2>14 DEF e
  <2> HIDE DEF chunk, N
  <2>16. QED
    BY <1>1, <2>6, <2>10, <2>12, <2>15, ResponsesOne
<1>6. QED
  BY <1>4, <1>5 DEF ItemAdded

(* Arguments of a call that has been added, by a delta or by its item.     *)
LEMMA ArgsTold ==
  ASSUME Talking, <<up, client>> \in Chains, ~ PassedOn, up = "responses", prov.over = "no",
         NEW e, Arrives(e), NEW c \in StartedCalls, NEW n \in Int,
         ResponsesToOpenAI(e, st) = Args(c, n, Begun(st)),
         said' \in Saids, prov' \in Providers, prov'.started = prov.started, prov'.over = prov.over
  PROVE  Talking'
<1>1. st \in State /\ prov \in Providers /\ SpeaksResponses(st, prov)
  BY DEF Talking, StreamTyped, Tells, Speaks
<1> DEFINE s == Begun(st)
           i == c - 1
           emitted == s.argsEmitted \cup {i}
           t == [s EXCEPT !.argsEmitted = emitted]
           entry == Tool(i, Nothing, n)
           chunk == Uses(entry)
           N == SlotsKnown("responses", prov)
<1>2. /\ s \in State /\ (\A cl : Same(cl, st, s)) /\ s.toolIndex = st.toolIndex
      /\ s.finishSent = st.finishSent /\ s.respIndex = st.respIndex
  BY <1>1, BegunFacts
<1>3. c \in Calls /\ c <= prov.started /\ i \in Slots /\ i + 1 = c /\ i \in Int /\ i # NoBlock
  BY CallsAreSlots DEF StartedCalls, NoBlock
<1>4. IndexOf(s, c) = i
  <2>1. s.respIndex[c] = c - 1
    BY <1>1, <1>2, <1>3 DEF SpeaksResponses
  <2> HIDE DEF s
  <2>2. QED
    BY <1>3, <2>1 DEF IndexOf
<1>5. ResponsesToOpenAI(e, st) = Emit(Result(t), chunk)
  <2> HIDE DEF s, i
  <2>1. Args(c, n, s) = Emit(Result(t), chunk)
    BY <1>4 DEF Args
  <2>2. ResponsesToOpenAI(e, st) = Args(c, n, s)
    BY DEF s
  <2>3. QED
    BY <2>1, <2>2
<1> HIDE DEF s, i
<1>6. /\ t \in State /\ Same(client, st, t) /\ t.toolIndex = st.toolIndex
      /\ t.finishSent = st.finishSent /\ t.respIndex = st.respIndex
  <2>1. emitted \in SUBSET Int
    BY <1>2, <1>3 DEF State
  <2> HIDE DEF emitted
  <2>2. t \in State
    BY <1>2, <2>1 DEF State
  <2>3. QED
    BY <1>2, <2>2 DEF Same
<1>7. entry \in ToolEntries /\ entry.at = i /\ entry.id = Nothing
  BY <1>3 DEF Tool, ToolEntries, Nothing
<1>8. i \in N
  BY <1>3 DEF SlotsKnown
<1> HIDE DEF t, entry, N
<1>9. chunk \in ChunksSaid /\ Usable(client, chunk, N) /\ chunk.finish = ""
  BY <1>7, <1>8, ChunkFacts DEF Numbered
<1>10. SpeaksResponses(t, prov')
  BY <1>1, <1>6 DEF SpeaksResponses
<1>11. SlotsKnown("responses", prov') \subseteq SlotsKnown("responses", prov) \cup SlotsOfChunk(chunk)
  BY DEF SlotsKnown
<1> HIDE DEF chunk
<1>12. QED
  BY <1>5, <1>6, <1>9, <1>10, <1>11, ResponsesOne DEF N

LEMMA ArgsArriveTold ==
  ASSUME Talking, <<up, client>> \in Chains, ArgsArrive
  PROVE  Talking'
<1>1. /\ up = "responses" /\ ~ PassedOn /\ prov.over = "no" /\ prov' = prov
      /\ st \in State /\ prov \in Providers /\ said \in Saids /\ Next1 \in Int
  BY ResponsesStreams DEF ArgsArrive
<1>2. PICK c \in StartedCalls : said' = Append(said, Piece("call", c)) /\ Arrives(RespEvent("args", c, Next1))
  BY DEF ArgsArrive
<1> DEFINE e == RespEvent("args", c, Next1)
<1>3. e.type = "args" /\ e.call = c /\ e.piece = Next1 /\ Arrives(e)
  BY <1>2 DEF RespEvent
<1> HIDE DEF e
<1>4. ResponsesToOpenAI(e, st) = Args(c, Next1, Begun(st))
  BY <1>3 DEF ResponsesToOpenAI, Begun
<1>5. c \in Nat
  BY CallsAreSlots DEF StartedCalls
<1>6. said' \in Saids
  BY <1>1, <1>2, <1>5, MoreSaid DEF Kinds
<1>7. QED
  BY <1>1, <1>3, <1>4, <1>6, ArgsTold

LEMMA ItemIsDoneTold ==
  ASSUME Talking, <<up, client>> \in Chains, ItemIsDone
  PROVE  Talking'
<1>1. /\ up = "responses" /\ ~ PassedOn /\ prov.over = "no"
      /\ st \in State /\ prov \in Providers /\ said \in Saids /\ Next1 \in Int /\ Next1 = Len(said) + 1
      /\ SpeaksResponses(st, prov)
  BY ResponsesStreams DEF ItemIsDone
<1>2. PICK c \in StartedCalls :
        /\ said' = said \/ said' = Append(said, Piece("call", c))
        /\ prov' = [prov EXCEPT !.done = @ \cup {c}]
        /\ Arrives(RespEvent("done", c, Len(said) + 1))
  BY DEF ItemIsDone
<1> DEFINE e == RespEvent("done", c, Next1)
           s == Begun(st)
<1>3. e.type = "done" /\ e.call = c /\ e.piece = Next1 /\ Arrives(e)
  BY <1>1, <1>2 DEF RespEvent
<1> HIDE DEF e
<1>4. ResponsesToOpenAI(e, st) = ItemDone(c, Next1, s)
  BY <1>3 DEF ResponsesToOpenAI, Begun
<1>5. c \in Nat /\ c \in Calls
  BY CallsAreSlots DEF StartedCalls
<1>6. said' \in Saids
  BY <1>1, <1>2, <1>5, MoreSaid DEF Kinds
<1>7. prov' \in Providers /\ prov'.started = prov.started /\ prov'.over = prov.over
  <2> DEFINE done == prov.done \cup {c}
  <2>1. done \in SUBSET Calls
    BY <1>1, <1>5 DEF Providers
  <2>2. prov' = [prov EXCEPT !.done = done]
    BY <1>2
  <2> HIDE DEF done
  <2>3. QED
    BY <1>1, <2>1, <2>2 DEF Providers
<1>8. CASE IndexOf(s, c) \in s.argsEmitted
  <2>1. ResponsesToOpenAI(e, st) = Result(s)
    BY <1>4, <1>8 DEF ItemDone
  <2>2. /\ s \in State /\ Same(client, st, s) /\ s.toolIndex = st.toolIndex
        /\ s.finishSent = st.finishSent /\ s.respIndex = st.respIndex
    BY <1>1, BegunFacts
  <2> HIDE DEF s
  <2>3. SpeaksResponses(s, prov')
    BY <1>1, <1>7, <2>2 DEF SpeaksResponses
  <2>4. QED
    BY <1>1, <1>3, <1>6, <1>7, <2>1, <2>2, <2>3, ResponsesNone
<1>9. CASE IndexOf(s, c) \notin s.argsEmitted
  <2>1. ResponsesToOpenAI(e, st) = Args(c, Next1, Begun(st))
    BY <1>4, <1>9 DEF ItemDone
  <2>2. QED
    BY <1>1, <1>3, <1>6, <1>7, <2>1, ArgsTold
<1>10. QED
  BY <1>8, <1>9

LEMMA ResponsesFinishesTold ==
  ASSUME Talking, <<up, client>> \in Chains, ResponsesFinishes
  PROVE  Talking'
<1>1. /\ up = "responses" /\ ~ PassedOn
      /\ st \in State /\ prov \in Providers /\ said \in Saids /\ Next1 \in Int
      /\ SpeaksResponses(st, prov)
  BY ResponsesStreams DEF ResponsesFinishes
<1> DEFINE s == Begun(st)
           yes == TRUE
           t == [s EXCEPT !.finishSent = yes]
<1>2. /\ s \in State /\ (\A cl : Same(cl, st, s)) /\ s.toolIndex = st.toolIndex
      /\ s.finishSent = st.finishSent /\ s.respIndex = st.respIndex
  BY <1>1, BegunFacts
<1> HIDE DEF s
<1>3. t \in State /\ Same(client, st, t) /\ t.toolIndex = st.toolIndex /\ t.finishSent /\ t.respIndex = st.respIndex
  BY <1>2 DEF State, Same
<1>4. [s EXCEPT !.finishSent = TRUE] = t
  OBVIOUS
<1> HIDE DEF t, yes
<1> DEFINE done == RespEvent("completed", Nothing, Nothing)
           wrong == RespEvent("failed", Nothing, Next1)
<1>5. /\ done.type = "completed"
      /\ wrong.type = "failed" /\ wrong.piece = Next1
  BY DEF RespEvent
<1>6. \/ /\ prov.over = "no" /\ prov' = [prov EXCEPT !.begun = TRUE, !.over = "finished"]
         /\ Arrives(done) /\ said' = said
      \/ /\ prov.over = "no" /\ prov' = [prov EXCEPT !.begun = TRUE, !.over = "failed"]
         /\ said' = Append(said, Piece("text", Nothing)) /\ Arrives(wrong)
      \/ prov.over = "failed" /\ Arrives(wrong) /\ prov' = prov /\ said' = said
  BY DEF ResponsesFinishes
<1> HIDE DEF done, wrong
<1>7. prov' \in Providers /\ prov'.over # "no" /\ prov'.started = prov.started
  BY <1>1, <1>6 DEF Providers
<1>8. said' \in Saids
  BY <1>1, <1>6, MoreSaid DEF Kinds, Nothing
<1>9. SpeaksResponses(t, prov') /\ (st.finishSent => SpeaksResponses(s, prov'))
  BY <1>1, <1>2, <1>3, <1>7 DEF SpeaksResponses
<1>10. ResponsesToOpenAI(done, st) = FinishOnce(s) /\ ResponsesToOpenAI(wrong, st) = Failed(Next1, s)
  BY <1>5 DEF ResponsesToOpenAI, Begun, s
<1>11. CASE st.finishSent
  <2>1. ResponsesToOpenAI(done, st) = Result(s) /\ ResponsesToOpenAI(wrong, st) = Result(s)
    BY <1>2, <1>10, <1>11 DEF FinishOnce, Failed
  <2>2. QED
    BY <1>1, <1>2, <1>6, <1>7, <1>8, <1>9, <1>11, <2>1, ResponsesNone
<1>12. CASE ~ st.finishSent
  <2>1. prov.over = "no"
    BY <1>1, <1>12 DEF SpeaksResponses
  <2> DEFINE reason == ComputeFinishReason(s)
             stop == "stop"
  <2>2. reason \in Finishings /\ stop \in Finishings /\ Nothing \in Int
    BY PlainFacts DEF ComputeFinishReason
  <2>3. /\ FinishOnce(s) = Emit(Result(t), Finishes(reason))
        /\ Failed(Next1, s) = Emit(Result(t), Plain(Nothing, Next1, stop))
    BY <1>2, <1>4, <1>12 DEF FinishOnce, Failed, Plain
  <2> HIDE DEF reason, stop
  <2>4. /\ ResponsesToOpenAI(done, st) = Emit(Result(t), Plain(Nothing, Nothing, reason))
        /\ ResponsesToOpenAI(wrong, st) = Emit(Result(t), Plain(Nothing, Next1, stop))
    BY <1>10, <2>3, PlainFacts
  <2>5. CASE Arrives(done)
    BY <1>1, <1>3, <1>7, <1>8, <1>9, <2>1, <2>2, <2>4, <2>5, ResponsesPlain
  <2>6. CASE Arrives(wrong)
    BY <1>1, <1>3, <1>7, <1>8, <1>9, <2>1, <2>2, <2>4, <2>6, ResponsesPlain
  <2>7. QED
    BY <1>6, <2>5, <2>6
<1>13. QED
  BY <1>11, <1>12

-----------------------------------------------------------------------------
(* The chunks of Gemini                                                    *)

Unfinished(cl, out) ==
  /\ out \in Seq(ChunksSaid)
  /\ \A i \in 1 .. Len(out) : out[i].finish = "" /\ Usable(cl, out[i], {})

Partly(cl, s, k, r) ==
  /\ r = [st |-> r.st, out |-> r.out]
  /\ r.st \in State /\ Same(cl, s, r.st) /\ r.st.functionIndex = k
  /\ Unfinished(cl, r.out)

LEMMA AppendedIs ==
  ASSUME NEW S, NEW out \in Seq(S), NEW c \in S
  PROVE  /\ Append(out, c) \in Seq(S) /\ Len(Append(out, c)) = Len(out) + 1 /\ Len(out) \in Nat
         /\ \A i \in 1 .. Len(out) : Append(out, c)[i] = out[i]
         /\ Append(out, c)[Len(out) + 1] = c
OBVIOUS

LEMMA UpToNext ==
  ASSUME NEW n \in Nat
  PROVE  \A i \in 1 .. (n + 1) : i = n + 1 \/ (i \in 1 .. n /\ i < n + 1)
OBVIOUS

LEMMA StillUnfinished ==
  ASSUME NEW cl, NEW out, Unfinished(cl, out), NEW c \in ChunksSaid, c.finish = "", Usable(cl, c, {})
  PROVE  Unfinished(cl, Append(out, c))
<1> DEFINE n == Len(out)
           more == Append(out, c)
<1>0. out \in Seq(ChunksSaid)
  BY DEF Unfinished
<1>1. /\ n \in Nat /\ more \in Seq(ChunksSaid) /\ Len(more) = n + 1 /\ more[n + 1] = c
      /\ \A i \in 1 .. n : more[i] = out[i]
  BY <1>0, AppendedIs, ZenonT(40)
<1>2. \A i \in 1 .. n : out[i].finish = "" /\ Usable(cl, out[i], {})
  BY DEF Unfinished
<1> HIDE DEF n, more
<1>3. \A i \in 1 .. (n + 1) : i \in 1 .. n \/ i = n + 1
  BY <1>1, UpToNext
<1>4. QED
  BY <1>1, <1>2, <1>3 DEF Unfinished, more

LEMMA GeminiPartSends ==
  ASSUME NEW cl, NEW s, NEW k \in Nat, NEW r, Partly(cl, s, k, r),
         NEW p, p.kind \in Kinds, p.piece \in Int, p.kind = "call" => p.call = k + 1 /\ p.call \in Calls
  PROVE  Partly(cl, s, IF p.kind = "call" THEN k + 1 ELSE k, GeminiPart(r, p))
<1>1. ASSUME NEW t \in State, Same(cl, s, t), t.functionIndex = IF p.kind = "call" THEN k + 1 ELSE k,
             NEW c \in ChunksSaid, c.finish = "", Usable(cl, c, {}),
             GeminiPart(r, p) = [st |-> t, out |-> Append(r.out, c)]
      PROVE  Partly(cl, s, IF p.kind = "call" THEN k + 1 ELSE k, GeminiPart(r, p))
  <2> DEFINE out == Append(r.out, c)
  <2>1. Unfinished(cl, out)
    BY <1>1, StillUnfinished DEF Partly
  <2> HIDE DEF out
  <2>2. GeminiPart(r, p) = [st |-> t, out |-> out]
    BY <1>1 DEF out
  <2> DEFINE q == GeminiPart(r, p)
             m == IF p.kind = "call" THEN k + 1 ELSE k
  <2>3. q = [st |-> t, out |-> out] /\ t.functionIndex = m
    BY <1>1, <2>2
  <2> HIDE DEF q, m
  <2>4. q.st = t /\ q.out = out /\ q = [st |-> q.st, out |-> q.out]
    BY <2>3
  <2>5. Partly(cl, s, m, q)
    BY <1>1, <2>1, <2>3, <2>4 DEF Partly
  <2>6. QED
    BY <2>5 DEF q, m
<1>2. CASE p.kind = "text"
  <2> DEFINE c == Plain(Nothing, p.piece, "")
  <2>1. c \in ChunksSaid /\ c.finish = "" /\ Usable(cl, c, {}) /\ Says(p.piece) = c
    BY PlainFacts
  <2> HIDE DEF c
  <2>2. GeminiPart(r, p) = Emit(r, c)
    BY <1>2, <2>1 DEF GeminiPart
  <2>3. GeminiPart(r, p) = [st |-> r.st, out |-> Append(r.out, c)]
    BY <2>2 DEF Emit, Partly
  <2>4. QED
    BY <1>1, <1>2, <2>1, <2>3 DEF Partly
<1>3. CASE p.kind = "think"
  <2> DEFINE c == Plain(p.piece, Nothing, "")
  <2>1. c \in ChunksSaid /\ c.finish = "" /\ Usable(cl, c, {}) /\ Thinks(p.piece) = c
    BY PlainFacts
  <2> HIDE DEF c
  <2>2. GeminiPart(r, p) = Emit(r, c)
    BY <1>3, <2>1 DEF GeminiPart
  <2>3. GeminiPart(r, p) = [st |-> r.st, out |-> Append(r.out, c)]
    BY <2>2 DEF Emit, Partly
  <2>4. QED
    BY <1>1, <1>3, <2>1, <2>3 DEF Partly
<1>4. CASE p.kind = "call"
  <2> DEFINE more == k + 1
             t == [r.st EXCEPT !.functionIndex = more]
             entry == Tool(k, p.call, p.piece)
             c == Uses(entry)
  <2>1. p.call = more /\ more \in Nat /\ k \in Slots /\ p.call # Nothing
    <3>1. p.call \in Calls /\ p.call = k + 1
      BY <1>4
    <3>2. p.call - 1 \in Slots /\ p.call # Nothing
      BY <3>1, CallsAreSlots
    <3>3. QED
      BY <3>1, <3>2
  <2>2. r.st \in State /\ Same(cl, s, r.st) /\ r.st.functionIndex = k
    BY DEF Partly
  <2>3. GeminiPart(r, p) = [st |-> t, out |-> Append(r.out, c)]
    <3> DEFINE st0 == r.st
               out == r.out
    <3>1. GeminiPart(r, p) = Emit([r EXCEPT !.st.functionIndex = @ + 1], c)
      BY <1>4, <2>2 DEF GeminiPart
    <3>2. r = [st |-> st0, out |-> out] /\ st0.functionIndex = k
      BY DEF Partly
    <3> HIDE DEF c, st0, out
    <3>3. [r EXCEPT !.st.functionIndex = @ + 1] = [st |-> [st0 EXCEPT !.functionIndex = k + 1], out |-> out]
      BY <3>2
    <3>4. QED
      BY <3>1, <3>3 DEF Emit, st0, out
  <2>4. entry \in ToolEntries /\ entry.at = k /\ entry.id = p.call
    BY <2>1 DEF Tool, ToolEntries
  <2> HIDE DEF entry
  <2>5. c \in ChunksSaid /\ c.finish = "" /\ Usable(cl, c, {})
    <3>1. Numbered(entry) /\ entry.id # Nothing
      BY <2>1, <2>4 DEF Numbered
    <3>2. QED
      BY <2>4, <3>1, ChunkFacts
  <2> HIDE DEF c, more
  <2>6. t \in State /\ Same(cl, s, t) /\ t.functionIndex = more
    BY <2>1, <2>2 DEF State, Same
  <2> HIDE DEF t
  <2>7. QED
    BY <1>1, <1>4, <2>3, <2>5, <2>6 DEF more
<1>5. QED
  BY <1>2, <1>3, <1>4 DEF Kinds

GeminiParts(r, parts) == Fold(GeminiPart, r, parts)

LEMMA GeminiPartsAre ==
  ASSUME NEW r, NEW parts, Len(parts) \in {0, 1, 2}
  PROVE  /\ Len(parts) = 0 => GeminiParts(r, parts) = r
         /\ Len(parts) = 1 => GeminiParts(r, parts) = GeminiPart(r, parts[1])
         /\ Len(parts) = 2 => GeminiParts(r, parts) = GeminiPart(GeminiPart(r, parts[1]), parts[2])
<1> DEFINE n == Len(parts)
           R(f) == f = [i \in 0 .. n |-> IF i = 0 THEN r ELSE GeminiPart(f[i - 1], parts[i])]
           p1 == GeminiPart(r, parts[1])
           p2 == GeminiPart(p1, parts[2])
           g == [i \in 0 .. n |-> IF i = 0 THEN r ELSE IF i = 1 THEN p1 ELSE p2]
<1>1. n \in {0, 1, 2}
  OBVIOUS
<1> HIDE DEF n
<1>2. \A i \in 0 .. n : i = 0 \/ i = 1 \/ i = 2
  BY <1>1
<1>3. \A i \in 0 .. n : i # 0 => i - 1 \in 0 .. n
  BY <1>1
<1>4. R(g)
  <2>1. ASSUME NEW i \in 0 .. n PROVE g[i] = IF i = 0 THEN r ELSE GeminiPart(g[i - 1], parts[i])
    <3>1. CASE i = 0
      BY <3>1
    <3>2. CASE i = 1
      BY <1>3, <3>2
    <3>3. CASE i = 2
      BY <1>3, <3>3
    <3>4. QED
      BY <1>2, <3>1, <3>2, <3>3
  <2>2. g = [i \in 0 .. n |-> g[i]]
    OBVIOUS
  <2> HIDE DEF g
  <2>3. QED
    BY <2>1, <2>2
<1>5. \E f : R(f)
  BY <1>4
<1>6. PICK f : R(f) /\ GeminiParts(r, parts) = f[n]
  BY <1>5 DEF GeminiParts, Fold, n
<1>7. 0 \in 0 .. n /\ (n >= 1 => 1 \in 0 .. n) /\ (n = 2 => 2 \in 0 .. n)
  BY <1>1
<1>8. f[0] = r /\ (n >= 1 => f[1] = GeminiPart(f[0], parts[1])) /\ (n = 2 => f[2] = GeminiPart(f[1], parts[2]))
  BY <1>6, <1>7
<1>9. QED
  BY <1>1, <1>6, <1>8 DEF n

CallsUpTo(kinds, i) == Cardinality({j \in 1 .. i : kinds[j] = "call"})

LEMMA CallsNext ==
  ASSUME NEW kinds
  PROVE  /\ CallsUpTo(kinds, 0) = 0
         /\ \A i \in Nat : /\ CallsUpTo(kinds, i) \in Nat
                           /\ CallsUpTo(kinds, i + 1) =
                                IF kinds[i + 1] = "call" THEN CallsUpTo(kinds, i) + 1 ELSE CallsUpTo(kinds, i)
<1> DEFINE S(i) == {j \in 1 .. i : kinds[j] = "call"}
<1>1. S(0) = {}
  OBVIOUS
<1>2. CallsUpTo(kinds, 0) = 0
  BY <1>1, FS_EmptySet DEF CallsUpTo
<1>3. ASSUME NEW i \in Nat
      PROVE  IsFiniteSet(S(i)) /\ Cardinality(S(i)) \in Nat
  <2>1. IsFiniteSet(1 .. i)
    BY FS_Interval
  <2>2. S(i) \subseteq 1 .. i
    OBVIOUS
  <2>3. IsFiniteSet(S(i))
    BY <2>1, <2>2, FS_Subset
  <2>4. QED
    BY <2>3, FS_CardinalityType
<1>4. ASSUME NEW i \in Nat
      PROVE  Cardinality(S(i + 1)) = IF kinds[i + 1] = "call" THEN Cardinality(S(i)) + 1 ELSE Cardinality(S(i))
  <2> DEFINE next == i + 1
  <2>1. next \notin S(i) /\ next \in Nat
    OBVIOUS
  <2>2. \A j : j \in 1 .. next <=> j \in 1 .. i \/ j = next
    OBVIOUS
  <2> HIDE DEF next
  <2>3. CASE kinds[next] = "call"
    <3>1. S(next) = S(i) \cup {next}
      BY <2>2, <2>3
    <3>2. Cardinality(S(i) \cup {next}) = Cardinality(S(i)) + 1
      BY <1>3, <2>1, FS_AddElement
    <3>3. QED
      BY <2>3, <3>1, <3>2 DEF next
  <2>4. CASE kinds[next] # "call"
    <3>1. S(next) = S(i)
      BY <2>2, <2>4
    <3>2. QED
      BY <2>4, <3>1 DEF next
  <2>5. QED
    BY <2>3, <2>4
<1>5. QED
  BY <1>2, <1>3, <1>4 DEF CallsUpTo

GeminiKinds ==
  {<<>>} \cup {<<k>> : k \in {"think", "text", "call"}} \cup ({"think", "text", "call"} \X {"text", "call"})

LEMMA GeminiKindsFacts ==
  ASSUME NEW kinds \in GeminiKinds
  PROVE  /\ Len(kinds) \in {0, 1, 2} /\ DOMAIN kinds = 1 .. Len(kinds)
         /\ \A i \in 1 .. Len(kinds) : kinds[i] \in Kinds
<1>1. CASE kinds = <<>>
  BY <1>1
<1>2. ASSUME NEW k \in {"think", "text", "call"}, kinds = <<k>>
      PROVE  /\ Len(kinds) \in {0, 1, 2} /\ DOMAIN kinds = 1 .. Len(kinds)
             /\ \A i \in 1 .. Len(kinds) : kinds[i] \in Kinds
  <2>1. Len(kinds) = 1 /\ DOMAIN kinds = 1 .. 1 /\ kinds[1] = k /\ 1 .. 1 = {1}
    BY <1>2
  <2>2. QED
    BY <2>1 DEF Kinds
<1>3. ASSUME kinds \in {"think", "text", "call"} \X {"text", "call"}
      PROVE  /\ Len(kinds) \in {0, 1, 2} /\ DOMAIN kinds = 1 .. Len(kinds)
             /\ \A i \in 1 .. Len(kinds) : kinds[i] \in Kinds
  <2>1. PICK k \in {"think", "text", "call"}, m \in {"text", "call"} : kinds = <<k, m>>
    BY <1>3
  <2>2. Len(kinds) = 2 /\ DOMAIN kinds = 1 .. 2 /\ kinds[1] = k /\ kinds[2] = m /\ 1 .. 2 = {1, 2}
    BY <2>1
  <2>3. QED
    BY <2>2 DEF Kinds
<1>4. QED
  BY <1>1, <1>2, <1>3 DEF GeminiKinds

GeminiPartOf(kinds, k, m, i) ==
  [kind |-> kinds[i], call |-> IF kinds[i] = "call" THEN k + CallsUpTo(kinds, i) ELSE Nothing, piece |-> m + i]

PartsFit(kinds, k, m, parts) ==
  /\ Len(parts) = Len(kinds)
  /\ \A i \in 1 .. Len(kinds) :
       parts[i] = GeminiPartOf(kinds, k, m, i) /\ parts[i].call \in Calls \cup {Nothing}

(* The parts of a chunk, one after the other.                              *)
LEMMA GeminiPartsTold ==
  ASSUME NEW cl, NEW s \in State, NEW kinds \in GeminiKinds, s.functionIndex \in Nat, NEW m \in Nat,
         NEW parts, PartsFit(kinds, s.functionIndex, m, parts)
  PROVE  Partly(cl, s, s.functionIndex + CallsUpTo(kinds, Len(kinds)), GeminiParts(Result(s), parts))
<1> DEFINE k0 == s.functionIndex
           n == Len(kinds)
           b == Result(s)
           k(i) == k0 + CallsUpTo(kinds, i)
<1>1. /\ n \in {0, 1, 2} /\ DOMAIN kinds = 1 .. n /\ k0 \in Nat
      /\ \A i \in 1 .. n : kinds[i] \in Kinds
  BY GeminiKindsFacts
<1>2. Partly(cl, s, k(0), b)
  <2>1. CallsUpTo(kinds, 0) = 0
    BY CallsNext
  <2>2. k(0) = k0
    BY <1>1, <2>1
  <2>3. Unfinished(cl, <<>>)
    <3> DEFINE none == <<>>
    <3>1. none \in Seq(ChunksSaid) /\ Len(none) = 0 /\ 1 .. 0 = {}
      OBVIOUS
    <3> HIDE DEF none
    <3>2. Unfinished(cl, none)
      BY <3>1 DEF Unfinished
    <3>3. QED
      BY <3>2 DEF none
  <2>4. b = [st |-> s, out |-> <<>>]
    BY DEF Result
  <2> DEFINE none == <<>>
  <2> HIDE DEF b, k, k0
  <2>5. b.st = s /\ b.out = none /\ b = [st |-> b.st, out |-> b.out]
    BY <2>4
  <2> HIDE DEF none
  <2>6. Same(cl, s, s) /\ Unfinished(cl, none)
    BY <2>3 DEF Same, none
  <2>7. QED
    BY <2>2, <2>5, <2>6 DEF Partly, k0
<1>3. /\ \A i \in 1 .. n : parts[i] = GeminiPartOf(kinds, k0, m, i) /\ parts[i].call \in Calls \cup {Nothing}
      /\ Len(parts) = n
  BY DEF PartsFit
<1> HIDE DEF n, b, k0, k
<1>5. ASSUME NEW i \in 1 .. n, NEW r, Partly(cl, s, k(i - 1), r)
      PROVE  Partly(cl, s, k(i), GeminiPart(r, parts[i]))
  <2> DEFINE p == parts[i]
  <2>1. i - 1 \in Nat /\ i - 1 + 1 = i /\ i \in Nat
    BY <1>1
  <2>2. /\ CallsUpTo(kinds, i - 1) \in Nat
        /\ CallsUpTo(kinds, i) = IF kinds[i] = "call" THEN CallsUpTo(kinds, i - 1) + 1 ELSE CallsUpTo(kinds, i - 1)
    <3> DEFINE j == i - 1
    <3>1. j \in Nat /\ j + 1 = i
      BY <2>1
    <3> HIDE DEF j
    <3>2. /\ CallsUpTo(kinds, j) \in Nat
          /\ CallsUpTo(kinds, j + 1) = IF kinds[j + 1] = "call" THEN CallsUpTo(kinds, j) + 1 ELSE CallsUpTo(kinds, j)
      BY <3>1, CallsNext
    <3>3. QED
      BY <3>1, <3>2 DEF j
  <2>3. p.kind = kinds[i] /\ p.piece = m + i /\ p.call = IF kinds[i] = "call" THEN k0 + CallsUpTo(kinds, i) ELSE Nothing
    <3> DEFINE call == IF kinds[i] = "call" THEN k0 + CallsUpTo(kinds, i) ELSE Nothing
    <3>1. p = GeminiPartOf(kinds, k0, m, i)
      BY <1>3
    <3>2. GeminiPartOf(kinds, k0, m, i) = [kind |-> kinds[i], call |-> call, piece |-> m + i]
      BY DEF GeminiPartOf
    <3> HIDE DEF p, call
    <3>3. p.kind = kinds[i] /\ p.piece = m + i /\ p.call = call
      BY <3>1, <3>2
    <3>4. QED
      BY <3>3 DEF call
  <2>4. p.call \in Calls \cup {Nothing}
    BY <1>3
  <2> HIDE DEF p
  <2>5. k(i - 1) \in Nat /\ k(i) = IF p.kind = "call" THEN k(i - 1) + 1 ELSE k(i - 1)
    BY <1>1, <2>2, <2>3 DEF k
  <2>6. p.kind \in Kinds /\ p.piece \in Int
    BY <1>1, <2>1, <2>3
  <2>7. p.kind = "call" => p.call = k(i - 1) + 1 /\ p.call \in Calls
    <3> SUFFICES ASSUME p.kind = "call" PROVE p.call = k(i - 1) + 1 /\ p.call \in Calls
      OBVIOUS
    <3>1. p.call = k(i) /\ k(i) = k(i - 1) + 1
      BY <2>3, <2>5 DEF k
    <3>2. p.call # Nothing
      BY <2>5, <3>1 DEF Nothing
    <3>3. QED
      BY <2>4, <3>1, <3>2
  <2> DEFINE j == k(i - 1)
             q == GeminiPart(r, p)
  <2>8. j \in Nat /\ Partly(cl, s, j, r) /\ (p.kind = "call" => p.call = j + 1 /\ p.call \in Calls)
    BY <1>5, <2>5, <2>7
  <2>9. k(i) = IF p.kind = "call" THEN j + 1 ELSE j
    BY <2>5
  <2> HIDE DEF j, q
  <2>10. Partly(cl, s, IF p.kind = "call" THEN j + 1 ELSE j, q)
    BY <2>6, <2>8, GeminiPartSends DEF q
  <2>11. QED
    BY <2>9, <2>10 DEF q, p
<1>6. /\ n = 0 => GeminiParts(b, parts) = b
      /\ n = 1 => GeminiParts(b, parts) = GeminiPart(b, parts[1])
      /\ n = 2 => GeminiParts(b, parts) = GeminiPart(GeminiPart(b, parts[1]), parts[2])
  <2>1. Len(parts) = n
    BY <1>3
  <2>2. Len(parts) \in {0, 1, 2}
    BY <1>1, <2>1
  <2>3. /\ Len(parts) = 0 => GeminiParts(b, parts) = b
        /\ Len(parts) = 1 => GeminiParts(b, parts) = GeminiPart(b, parts[1])
        /\ Len(parts) = 2 => GeminiParts(b, parts) = GeminiPart(GeminiPart(b, parts[1]), parts[2])
    BY <2>2, GeminiPartsAre
  <2>4. QED
    BY <2>1, <2>3
<1>7. CASE n = 0
  BY <1>2, <1>6, <1>7 DEF k, k0, n, b
<1>8. CASE n = 1
  <2>1. 1 \in 1 .. n /\ 1 - 1 = 0
    BY <1>8
  <2>2. Partly(cl, s, k(1), GeminiPart(b, parts[1]))
    BY <1>2, <1>5, <2>1
  <2>3. QED
    BY <1>6, <1>8, <2>2 DEF k, k0, n, b
<1>9. CASE n = 2
  <2>1. 1 \in 1 .. n /\ 1 - 1 = 0 /\ 2 \in 1 .. n /\ 2 - 1 = 1
    BY <1>9
  <2>2. Partly(cl, s, k(1), GeminiPart(b, parts[1]))
    BY <1>2, <1>5, <2>1
  <2>3. Partly(cl, s, k(2), GeminiPart(GeminiPart(b, parts[1]), parts[2]))
    BY <1>5, <2>1, <2>2
  <2>4. QED
    BY <1>6, <1>9, <2>3 DEF k, k0, n, b
<1>10. QED
  BY <1>1, <1>7, <1>8, <1>9

(* The chunks of an answer's parts, and the one that finishes it.          *)
LEMMA GeminiSends ==
  ASSUME NEW cl, NEW s \in State, NEW k \in Nat, NEW r, Partly(cl, s, k, r)
  PROVE  Sent(cl, s, {}, r) /\ r.st.functionIndex = k /\ ~ Finished(r.out)
<1>1. /\ r.st \in State /\ Same(cl, s, r.st) /\ r.st.functionIndex = k
      /\ r.out \in Seq(ChunksSaid)
      /\ \A i \in 1 .. Len(r.out) : r.out[i].finish = "" /\ Usable(cl, r.out[i], {})
  BY DEF Partly, Unfinished
<1>2. OneAnswer(r.out) /\ ~ Finished(r.out)
  BY <1>1 DEF OneAnswer, Finished
<1>3. QED
  BY <1>1, <1>2 DEF Sent

LEMMA FinishedOnce ==
  ASSUME NEW cl, NEW out, Unfinished(cl, out), NEW c \in ChunksSaid, Usable(cl, c, {})
  PROVE  /\ Append(out, c) \in Seq(ChunksSaid) /\ OneAnswer(Append(out, c))
         /\ \A i \in 1 .. Len(Append(out, c)) : Usable(cl, Append(out, c)[i], {})
<1> DEFINE n == Len(out)
           more == Append(out, c)
<1>0. out \in Seq(ChunksSaid)
  BY DEF Unfinished
<1>1. /\ n \in Nat /\ more \in Seq(ChunksSaid) /\ Len(more) = n + 1 /\ more[n + 1] = c
      /\ \A i \in 1 .. n : more[i] = out[i]
  BY <1>0, AppendedIs
<1>2. \A i \in 1 .. n : out[i].finish = "" /\ Usable(cl, out[i], {})
  BY DEF Unfinished
<1> HIDE DEF n, more
<1>3. \A i \in 1 .. (n + 1) : i = n + 1 \/ (i \in 1 .. n /\ i < n + 1)
  BY <1>1, UpToNext
<1>4. ~ (n + 1 < n + 1)
  BY <1>1
<1>5. OneAnswer(more)
  BY <1>1, <1>2, <1>3, <1>4 DEF OneAnswer
<1>6. \A i \in 1 .. Len(more) : Usable(cl, more[i], {})
  BY <1>1, <1>2, <1>3
<1>7. QED
  BY <1>1, <1>5, <1>6 DEF more

LEMMA EmitIs ==
  ASSUME NEW t, NEW out, NEW c
  PROVE  Emit([st |-> t, out |-> out], c) = [st |-> t, out |-> Append(out, c)]
BY DEF Emit

LEMMA GeminiFinishes ==
  ASSUME NEW cl, NEW s \in State, NEW k \in Nat, NEW r, Partly(cl, s, k, r),
         NEW c \in ChunksSaid, Usable(cl, c, {})
  PROVE  Sent(cl, s, {}, Emit(r, c)) /\ Emit(r, c).st.functionIndex = k
<1> DEFINE t == r.st
           out == r.out
           more == Append(out, c)
<1>1. r = [st |-> t, out |-> out] /\ t \in State /\ Same(cl, s, t) /\ t.functionIndex = k /\ Unfinished(cl, out)
  BY DEF Partly
<1> HIDE DEF t, out
<1>2. more \in Seq(ChunksSaid) /\ OneAnswer(more) /\ \A i \in 1 .. Len(more) : Usable(cl, more[i], {})
  BY <1>1, FinishedOnce
<1>3. Emit(r, c) = [st |-> t, out |-> more]
  BY <1>1, EmitIs
<1> DEFINE p == Emit(r, c)
<1> HIDE DEF more, p
<1>4. p.st = t /\ p.out = more
  BY <1>3 DEF p
<1>5. QED
  BY <1>1, <1>2, <1>4 DEF Sent, p

LEMMA GeminiChunkTold ==
  ASSUME Talking, <<up, client>> \in Chains, GeminiChunk
  PROVE  Talking'
<1>1. /\ up = "gemini" /\ ~ PassedOn /\ ~ Direct(up, client) /\ prov.over = "no"
      /\ st \in State /\ prov \in Providers /\ said \in Saids
      /\ st.functionIndex = prov.started /\ prov.started \in Nat /\ Len(said) \in Nat
  <2>1. up = "gemini" /\ ~ PassedOn /\ ~ Direct(up, client) /\ prov.over = "no"
    BY DEF GeminiChunk, Speaking, Direct
  <2>2. st \in State /\ prov \in Providers /\ said \in Saids /\ Speaks(up, client, st, prov)
    BY DEF Talking, StreamTyped, Tells
  <2>3. QED
    BY <2>1, <2>2 DEF Speaks, Providers, Saids
<1>2. PICK kinds \in {<<>>} \cup {<<k>> : k \in {"think", "text", "call"}} \cup ({"think", "text", "call"} \X {"text", "call"}),
        finish \in BOOLEAN :
       LET callsUpTo(i) == Cardinality({j \in 1..i : kinds[j] = "call"})
           call(i) == IF kinds[i] = "call" THEN prov.started + callsUpTo(i) ELSE Nothing
           parts == [i \in DOMAIN kinds |-> [kind |-> kinds[i], call |-> call(i), piece |-> Len(said) + i]]
       IN  /\ finish \/ kinds # <<>>
           /\ Len(said) + Len(kinds) <= MaxPieces
           /\ \A i \in DOMAIN kinds : call(i) \in Calls \cup {Nothing}
           /\ said' = said \o [i \in DOMAIN kinds |-> Piece(kinds[i], call(i))]
           /\ prov' = [prov EXCEPT !.begun = TRUE, !.started = @ + callsUpTo(Len(kinds)),
                                   !.over = IF finish THEN "finished" ELSE @]
           /\ Arrives([parts |-> parts, finish |-> finish])
  BY Zenon DEF GeminiChunk
<1> DEFINE m == Len(said)
           k0 == prov.started
           n == Len(kinds)
           call(i) == IF kinds[i] = "call" THEN k0 + CallsUpTo(kinds, i) ELSE Nothing
           parts == [i \in DOMAIN kinds |-> GeminiPartOf(kinds, k0, m, i)]
           pieces == [i \in DOMAIN kinds |-> Piece(kinds[i], call(i))]
           e == [parts |-> parts, finish |-> finish]
           k1 == k0 + CallsUpTo(kinds, n)
<1>3. /\ \A i \in DOMAIN kinds : call(i) \in Calls \cup {Nothing}
      /\ said' = said \o pieces
      /\ prov' = [prov EXCEPT !.begun = TRUE, !.started = @ + CallsUpTo(kinds, n), !.over = IF finish THEN "finished" ELSE @]
      /\ Arrives(e)
  BY <1>2, Zenon DEF CallsUpTo, GeminiPartOf
<1>4. kinds \in GeminiKinds /\ n \in Nat /\ DOMAIN kinds = 1 .. n /\ \A i \in 1 .. n : kinds[i] \in Kinds
  <2>1. kinds \in GeminiKinds
    BY <1>2, Zenon DEF GeminiKinds
  <2>2. QED
    BY <2>1, GeminiKindsFacts
<1>5. CallsUpTo(kinds, n) \in Nat /\ k0 \in Nat /\ m \in Nat /\ k1 \in Nat
  <2>1. CallsUpTo(kinds, n) \in Nat
    BY <1>4, CallsNext
  <2>2. QED
    BY <1>1, <2>1
<1>6. prov' \in Providers /\ prov'.started = k1 /\ (finish => prov'.over # "no")
  <2> DEFINE u == CallsUpTo(kinds, n)
  <2>1. u \in Nat /\ k0 = prov.started
    BY <1>5
  <2> DEFINE over == IF finish THEN "finished" ELSE prov.over
  <2>2. prov' = [prov EXCEPT !.begun = TRUE, !.started = k0 + u, !.over = over]
    BY <1>3
  <2>0. over \in {"no", "finished", "failed"} /\ (finish => over # "no") /\ k0 + u \in Nat
    BY <1>1, <2>1 DEF Providers
  <2> HIDE DEF u, k0, over
  <2>3. prov' \in Providers /\ prov'.started = k0 + u /\ (finish => prov'.over # "no")
    BY <1>1, <2>0, <2>2 DEF Providers
  <2>4. QED
    BY <2>3 DEF u, k0
<1>7. PartsFit(kinds, k0, m, parts)
  <2> DEFINE part(i) == GeminiPartOf(kinds, k0, m, i)
  <2>1. parts = [i \in 1 .. n |-> part(i)]
    BY <1>4
  <2>2. ASSUME NEW i \in 1 .. n PROVE part(i).call = call(i) /\ call(i) \in Calls \cup {Nothing}
    <3>1. part(i) = [kind |-> kinds[i], call |-> call(i), piece |-> m + i]
      BY DEF GeminiPartOf
    <3>2. call(i) \in Calls \cup {Nothing}
      BY <1>3, <1>4
    <3> HIDE DEF call, part
    <3>3. QED
      BY <3>1, <3>2
  <2> HIDE DEF parts, part, call, n
  <2>3. Len(parts) = n /\ \A i \in 1 .. n : parts[i] = part(i)
    BY <1>4, <2>1
  <2>4. Len(parts) = n /\ \A i \in 1 .. n : parts[i] = part(i) /\ parts[i].call \in Calls \cup {Nothing}
    BY <2>2, <2>3
  <2>5. QED
    BY <2>4 DEF PartsFit, n, part
<1>8. said' \in Saids
  <2>1. ASSUME NEW i \in 1 .. n PROVE Piece(kinds[i], call(i)) \in [kind : Kinds, call : Nat]
    <3>1. call(i) \in Nat
      <4>1. call(i) \in Calls \cup {Nothing}
        BY <1>3, <1>4
      <4> HIDE DEF call
      <4>2. QED
        BY <4>1, CallsAreSlots DEF Nothing
    <3> HIDE DEF call
    <3>2. QED
      BY <1>4, <3>1 DEF Piece
  <2> DEFINE what(i) == Piece(kinds[i], call(i))
  <2>2. pieces = [i \in 1 .. n |-> what(i)] /\ \A i \in 1 .. n : what(i) \in [kind : Kinds, call : Nat]
    BY <1>4, <2>1
  <2>3. said' = said \o pieces
    BY <1>3
  <2> HIDE DEF pieces, what, n
  <2>4. pieces \in Saids
    BY <1>4, <2>2 DEF Saids
  <2>5. said \o pieces \in Saids
    BY <1>1, <2>4, Appended
  <2>6. QED
    BY <2>3, <2>5
<1> DEFINE r == GeminiParts(Result(st), parts)
           reason == IF r.st.functionIndex > 0 THEN "tools" ELSE "stop"
           c == Finishes(reason)
           p == GeminiToOpenAI(e, st)
<1>9. e.finish = finish /\ e.parts = parts /\ Arrives(e)
  BY <1>3
<1> HIDE DEF m, n, call, parts, pieces, e
<1>10. Partly(client, st, k1, r)
  <2> DEFINE k == st.functionIndex
  <2>1. k = k0 /\ k \in Nat
    BY <1>1, <1>5
  <2> HIDE DEF k0
  <2>2. PartsFit(kinds, st.functionIndex, m, parts) /\ st.functionIndex \in Nat
    BY <1>7, <2>1
  <2> HIDE DEF k, r
  <2>3. Partly(client, st, st.functionIndex + CallsUpTo(kinds, Len(kinds)), GeminiParts(Result(st), parts))
    BY <1>1, <1>4, <1>5, <2>2, GeminiPartsTold
  <2>4. k0 + CallsUpTo(kinds, Len(kinds)) = st.functionIndex + CallsUpTo(kinds, Len(kinds))
    BY <2>1 DEF k
  <2>5. QED
    BY <2>3, <2>4 DEF r, n
<1>11. (finish => p = Emit(r, c)) /\ (~ finish => p = r)
  BY <1>9 DEF GeminiToOpenAI, GeminiParts
<1>12. c \in ChunksSaid /\ Usable(client, c, {})
  <2>1. reason \in Finishings
    BY DEF Finishings
  <2> HIDE DEF reason
  <2>2. QED
    BY <2>1, PlainFacts
<1> HIDE DEF r, reason, c, p, k0, k1
<1>13. Sent(client, st, {}, p) /\ p.st.functionIndex = k1 /\ (Finished(p.out) => finish)
  <2>1. Sent(client, st, {}, r) /\ r.st.functionIndex = k1 /\ ~ Finished(r.out)
    BY <1>1, <1>5, <1>10, GeminiSends
  <2>0. st \in State /\ k1 \in Nat
    BY <1>1, <1>5
  <2>2. Sent(client, st, {}, Emit(r, c)) /\ Emit(r, c).st.functionIndex = k1
    BY <1>10, <1>12, <2>0, GeminiFinishes
  <2>3. CASE finish
    BY <1>11, <2>2, <2>3
  <2>4. CASE ~ finish
    BY <1>11, <2>1, <2>4
  <2>5. QED
    BY <2>3, <2>4
<1>14. /\ ToOpenAI(up, e, st) = p
       /\ SlotsKnown(up, prov) = {} /\ SlotsKnown(up, prov') = {}
       /\ Speaks(up, client, p.st, prov')
  <2>1. ToOpenAI(up, e, st) = p
    BY <1>1 DEF ToOpenAI, p
  <2>2. QED
    BY <1>1, <1>6, <1>13, <2>1 DEF SlotsKnown, Speaks
<1>15. QED
  BY <1>1, <1>6, <1>8, <1>9, <1>13, <1>14, SentTold

-----------------------------------------------------------------------------
(* A stream that is passed on                                              *)

Passes(seen, rd, p) ==
  /\ seen => Heard(rd) /\ rd.begun
  /\ ~ seen => Sees(rd, rd.begun, {}, {})
  /\ p.over = "no" => ~ seen

Began(r) == IF r.begun THEN r ELSE Read(r, Begin)

Passed(r, events) == Fold(Read, r, (IF r.begun THEN <<>> ELSE <<Begin>>) \o events)

LEMMA ReadsOne ==
  ASSUME NEW r \in Readers, NEW e \in Events
  PROVE  After(r, <<e>>) = Read(r, e)
<1> DEFINE none == <<>>
           one == <<e>>
<1>1. none \in Seq(Events) /\ one = Append(none, e)
  OBVIOUS
<1>2. After(r, none) = r
  BY AfterNone
<1> HIDE DEF none, one
<1>3. After(r, one) = Read(After(r, none), e)
  BY <1>1, AfterMore
<1>4. QED
  BY <1>2, <1>3 DEF one

LEMMA TwoAre ==
  ASSUME NEW S, NEW a \in S, NEW b \in S
  PROVE  <<a>> \o <<b>> = Append(<<a>>, b)
<1> DEFINE u == <<a>> \o <<b>>
           v == Append(<<a>>, b)
<1>1. u \in Seq(S) /\ Len(u) = 2 /\ u[1] = a /\ u[2] = b
  OBVIOUS
<1>2. v \in Seq(S) /\ Len(v) = 2 /\ v[1] = a /\ v[2] = b
  OBVIOUS
<1> HIDE DEF u, v
<1>3. u = [i \in 1 .. 2 |-> u[i]] /\ v = [i \in 1 .. 2 |-> v[i]]
  BY <1>1, <1>2
<1>5. \A i \in 1 .. 2 : i = 1 \/ i = 2
  OBVIOUS
<1>6. \A i \in 1 .. 2 : u[i] = v[i]
  BY <1>1, <1>2, <1>5
<1>4. QED
  BY <1>3, <1>6 DEF u, v

LEMMA PassedIs ==
  ASSUME NEW r \in Readers
  PROVE  /\ Passed(r, <<>>) = Began(r)
         /\ \A e \in Events : Passed(r, <<e>>) = Read(Began(r), e)
<1>1. Begin \in Events
  BY EventFacts
<1>2. After(r, <<>>) = r /\ After(r, <<Begin>>) = Read(r, Begin)
  BY <1>1, AfterNone, ReadsOne
<1>3. CASE r.begun
  <2>1. <<>> \o <<>> = <<>> /\ \A e : <<>> \o <<e>> = <<e>>
    OBVIOUS
  <2>2. Passed(r, <<>>) = After(r, <<>>) /\ \A e : Passed(r, <<e>>) = After(r, <<e>>)
    BY <1>3, <2>1 DEF Passed, After
  <2>3. Began(r) = r
    BY <1>3 DEF Began
  <2>4. QED
    BY <1>2, <2>2, <2>3, ReadsOne
<1>4. CASE ~ r.begun
  <2> DEFINE one == <<Begin>>
             two(e) == Append(one, e)
  <2>1. one \in Seq(Events) /\ one \o <<>> = one /\ \A e \in Events : one \o <<e>> = two(e)
    <3>1. one \in Seq(Events)
      BY <1>1
    <3>2. one \o <<>> = one
      OBVIOUS
    <3>3. \A e \in Events : one \o <<e>> = two(e)
      BY <1>1, TwoAre
    <3> HIDE DEF one, two
    <3>4. QED
      BY <3>1, <3>2, <3>3
  <2>2. Passed(r, <<>>) = After(r, one) /\ \A e \in Events : Passed(r, <<e>>) = After(r, two(e))
    BY <1>4, <2>1 DEF Passed, After
  <2>3. Began(r) = Read(r, Begin) /\ After(r, one) = Read(r, Begin)
    BY <1>2, <1>4 DEF Began
  <2> HIDE DEF one
  <2>4. \A e \in Events : After(r, Append(one, e)) = Read(After(r, one), e)
    BY <2>1, AfterMore
  <2>5. QED
    BY <2>1, <2>2, <2>3, <2>4
<1>5. QED
  BY <1>3, <1>4

LEMMA BeganSees ==
  ASSUME NEW r \in Readers
  PROVE  /\ Began(r) \in Readers
         /\ Sees(r, r.begun, {}, {}) => Sees(Began(r), TRUE, {}, {})
         /\ r.begun => Began(r) = r
<1>1. r.begun \in BOOLEAN
  BY DEF Readers
<1>2. CASE r.begun
  BY <1>1, <1>2 DEF Began, Sees
<1>3. CASE ~ r.begun
  <2>1. r.begun = FALSE /\ Began(r) = Read(r, Begin)
    BY <1>1, <1>3 DEF Began
  <2>2. QED
    BY <1>3, <2>1, ReadBegin
<1>4. QED
  BY <1>1, <1>2, <1>3

LEMMA PassesOn ==
  ASSUME NEW r \in Readers
  PROVE  /\ \A n \in Int : Sees(r, r.begun, {}, {})
              => /\ Passed(r, <<Part("text", n)>>) \in Readers
                 /\ Sees(Passed(r, <<Part("text", n)>>), Passed(r, <<Part("text", n)>>).begun, {}, {})
         /\ \A reason \in Reasons : Sees(r, r.begun, {}, {})
              => /\ Passed(r, <<End(reason)>>) \in Readers
                 /\ Heard(Passed(r, <<End(reason)>>)) /\ Passed(r, <<End(reason)>>).begun
         /\ Heard(r) /\ r.begun => Passed(r, <<>>) = r
<1> DEFINE b == Began(r)
<1>1. b \in Readers /\ (Sees(r, r.begun, {}, {}) => Sees(b, TRUE, {}, {})) /\ (r.begun => b = r)
  BY BeganSees
<1>2. Passed(r, <<>>) = b /\ \A e \in Events : Passed(r, <<e>>) = Read(b, e)
  BY PassedIs
<1> HIDE DEF b
<1>3. ASSUME NEW n \in Int, Sees(r, r.begun, {}, {})
      PROVE  LET p == Passed(r, <<Part("text", n)>>) IN p \in Readers /\ Sees(p, p.begun, {}, {})
  <2> DEFINE e == Part("text", n)
             p == Passed(r, <<e>>)
  <2>1. e \in Events /\ "text" \in Kinds
    BY EventFacts DEF Events, Kinds
  <2>2. p = Read(b, e)
    BY <1>2, <2>1
  <2>3. Sees(b, TRUE, {}, {})
    BY <1>1, <1>3
  <2>4. Read(b, e) \in Readers /\ Sees(Read(b, e), TRUE, {}, {})
    BY <1>1, <2>1, <2>3, ReadPart
  <2> HIDE DEF e, p
  <2>5. Sees(p, TRUE, {}, {}) /\ p \in Readers
    BY <2>2, <2>4
  <2>6. Sees(p, p.begun, {}, {})
    BY <2>5 DEF Sees
  <2>7. QED
    BY <2>5, <2>6 DEF e, p
<1>4. ASSUME NEW reason \in Reasons, Sees(r, r.begun, {}, {})
      PROVE  LET p == Passed(r, <<End(reason)>>) IN p \in Readers /\ Heard(p) /\ p.begun
  <2> DEFINE e == End(reason)
             p == Passed(r, <<e>>)
  <2>1. e \in Events
    BY EventFacts DEF Events
  <2>2. p = Read(b, e)
    BY <1>2, <2>1
  <2>3. Sees(b, TRUE, {}, {}) /\ b.begun = TRUE
    BY <1>1, <1>4 DEF Sees
  <2>4. Read(b, e) \in Readers /\ Heard(Read(b, e)) /\ Read(b, e).begun = TRUE
    BY <1>1, <2>3, ReadEnd
  <2> HIDE DEF e, p
  <2>5. p \in Readers /\ Heard(p) /\ p.begun
    BY <2>2, <2>4
  <2>6. QED
    BY <2>5 DEF e, p
<1>5. QED
  BY <1>1, <1>2, <1>3, <1>4

PassingOn == StreamTyped /\ Passes(terminalSeen, reader, prov)

LEMMA TextPasses ==
  ASSUME PassingOn, terminalSeen \in BOOLEAN, TextPassesOn
  PROVE  PassingOn'
<1>1. /\ reader \in Readers /\ said \in Saids /\ prov.over = "no" /\ ~ terminalSeen
      /\ Sees(reader, reader.begun, {}, {}) /\ Next1 \in Int
  BY DEF PassingOn, StreamTyped, Passes, TextPassesOn, Saids, Next1
<1>2. /\ said' = Append(said, Piece("text", Nothing))
      /\ reader' = Passed(reader, <<Part("text", Next1)>>)
      /\ st' = st /\ terminalSeen' = terminalSeen /\ prov' = prov
  BY DEF TextPassesOn, PassOn, Passed
<1>3. reader' \in Readers /\ Sees(reader', reader'.begun, {}, {})
  BY <1>1, <1>2, PassesOn
<1>4. said' \in Saids
  BY <1>1, <1>2, MoreSaid DEF Kinds, Nothing
<1>5. QED
  BY <1>1, <1>2, <1>3, <1>4 DEF PassingOn, StreamTyped, Passes

LEMMA TerminalPasses ==
  ASSUME PassingOn, terminalSeen \in BOOLEAN, TerminalPassesOn
  PROVE  PassingOn'
<1>1. /\ reader \in Readers /\ prov \in Providers /\ prov.over = "no" /\ ~ terminalSeen
      /\ Sees(reader, reader.begun, {}, {})
  BY DEF PassingOn, StreamTyped, Passes, TerminalPassesOn
<1>2. /\ prov' = [prov EXCEPT !.over = "finished"]
      /\ reader' = Passed(reader, <<End("completed")>>)
      /\ st' = st /\ terminalSeen' = TRUE /\ said' = said
  BY DEF TerminalPassesOn, PassOn, Passed
<1>3. reader' \in Readers /\ Heard(reader') /\ reader'.begun
  BY <1>1, <1>2, PassesOn DEF Reasons
<1>4. prov' \in Providers /\ prov'.over # "no"
  BY <1>1, <1>2 DEF Providers
<1>5. QED
  BY <1>2, <1>3, <1>4 DEF PassingOn, StreamTyped, Passes

(* What an end of the stream adds.                                         *)
LEMMA TerminalOnce ==
  ASSUME PassingOn, terminalSeen \in BOOLEAN,
         NEW rd, rd = Passed(reader, IF terminalSeen THEN <<>> ELSE <<End("failed")>>)
  PROVE  rd \in Readers /\ Heard(rd) /\ rd.begun
<1>1. reader \in Readers /\ Passes(terminalSeen, reader, prov)
  BY DEF PassingOn, StreamTyped
<1>2. CASE terminalSeen
  <2>1. Heard(reader) /\ reader.begun /\ rd = Passed(reader, <<>>)
    BY <1>1, <1>2 DEF Passes
  <2>2. rd = reader
    BY <1>1, <2>1, PassesOn
  <2>3. QED
    BY <1>1, <2>1, <2>2
<1>3. CASE ~ terminalSeen
  <2>1. Sees(reader, reader.begun, {}, {}) /\ rd = Passed(reader, <<End("failed")>>)
    BY <1>1, <1>3 DEF Passes
  <2>2. QED
    BY <1>1, <2>1, PassesOn DEF Reasons
<1>4. QED
  BY <1>2, <1>3

LEMMA DonePasses ==
  ASSUME PassingOn, terminalSeen \in BOOLEAN, DonePassesOn
  PROVE  PassingOn'
<1>1. prov \in Providers
  BY DEF PassingOn, StreamTyped
<1> DEFINE over == IF prov.over = "no" THEN "failed" ELSE prov.over
<1>2. /\ prov' = [prov EXCEPT !.over = over]
      /\ reader' = Passed(reader, IF terminalSeen THEN <<>> ELSE <<End("failed")>>)
      /\ st' = st /\ terminalSeen' = TRUE /\ said' = said
  BY DEF DonePassesOn, PassOn, Passed
<1>3. reader' \in Readers /\ Heard(reader') /\ reader'.begun
  BY <1>2, TerminalOnce
<1>4. over \in {"no", "finished", "failed"} /\ over # "no"
  BY <1>1 DEF Providers
<1> HIDE DEF over
<1>5. prov' \in Providers /\ prov'.over # "no"
  BY <1>1, <1>2, <1>4 DEF Providers
<1>6. QED
  BY <1>2, <1>3, <1>5 DEF PassingOn, StreamTyped, Passes

-----------------------------------------------------------------------------
(* The end of the upstream                                                 *)

LEMMA NothingWrong ==
  ASSUME NEW cl \in Clients, NEW s, NEW rd, NEW N, Fits(cl, s, rd, N) \/ Done(cl, s, rd)
  PROVE  ~ rd.bad
<1>1. CASE Done(cl, s, rd)
  BY <1>1 DEF Done, Heard
<1>2. CASE Fits(cl, s, rd, N)
  BY <1>2 DEF Clients, Fits, InClaude, InResponses, InChat, Sees
<1>3. QED
  BY <1>1, <1>2

(* The first hop's last chunk, unless it has been made.                    *)
LEMMA FinishOnceTold ==
  ASSUME Talking, <<up, client>> \in Chains, up = "responses", ~ PassedOn,
         NEW r, r = SecondHop(client, Result(FinishOnce(st).st), FinishOnce(st).out)
  PROVE  ~ After(reader, r.out).bad
<1>1. /\ client \in Clients /\ st \in State /\ reader \in Readers /\ SpeaksResponses(st, prov)
      /\ Fits(client, st, reader, SlotsKnown(up, prov)) \/ (prov.over # "no" /\ Done(client, st, reader))
  BY ChainIs DEF Talking, StreamTyped, Tells, Speaks
<1>2. CASE st.finishSent
  <2>1. FinishOnce(st) = Result(st)
    BY <1>2 DEF FinishOnce
  <2>2. Result(st).st = st /\ Result(st).out = <<>>
    BY DEF Result
  <2>3. r = SecondHop(client, Result(st), <<>>)
    BY <2>1, <2>2
  <2>4. After(reader, r.out) = reader
    BY <1>1, <2>3, NoArrival
  <2>5. QED
    BY <1>1, <2>4, NothingWrong
<1>3. CASE ~ st.finishSent
  <2> DEFINE yes == TRUE
             t == [st EXCEPT !.finishSent = yes]
             reason == ComputeFinishReason(st)
             c == Finishes(reason)
             N == SlotsKnown(up, prov)
             p == OnePivot(t, c)
  <2>1. prov.over = "no"
    BY <1>1, <1>3 DEF SpeaksResponses
  <2>2. Fits(client, st, reader, N) /\ N \in SUBSET Slots
    BY <1>1, <2>1, KnownAreSlots
  <2>3. FinishOnce(st) = Emit(Result([st EXCEPT !.finishSent = TRUE]), c)
    BY <1>3 DEF FinishOnce
  <2>4. [st EXCEPT !.finishSent = TRUE] = t
    OBVIOUS
  <2>5. t \in State /\ Same(client, st, t)
    BY <1>1 DEF State, Same
  <2>6. reason \in Finishings
    BY DEF ComputeFinishReason, Finishings
  <2> HIDE DEF yes, t, reason
  <2>7. c \in ChunksSaid /\ Usable(client, c, N)
    BY <2>6, PlainFacts
  <2> HIDE DEF c, N
  <2>8. FinishOnce(st) = p
    BY <2>3, <2>4, SendsIs
  <2>9. Sent(client, st, N, p)
    BY <1>1, <2>5, <2>7, SendsOne
  <2> HIDE DEF p
  <2>10. r = SecondHop(client, Result(p.st), p.out)
    BY <2>8
  <2>11. \/ Fits(client, r.st, After(reader, r.out), N \cup SlotsIn(p.out, Len(p.out)))
         \/ Finished(p.out) /\ Done(client, r.st, After(reader, r.out))
    BY <1>1, <2>2, <2>9, <2>10, Arrival
  <2>12. QED
    BY <1>1, <2>11, NothingWrong
<1>4. QED
  BY <1>2, <1>3

LEMMA FlushEventsTold ==
  ASSUME Talking, <<up, client>> \in Chains, client = "responses"
  PROVE  ~ After(reader, FlushEvents(st).out).bad
<1>1. st \in State /\ reader \in Readers /\ (InResponses(st, reader) \/ Done(client, st, reader))
  BY DEF Talking, StreamTyped, Tells, Fits
<1>2. CASE InResponses(st, reader)
  <2> DEFINE r == FlushEvents(st)
  <2>1. DoneResponses(reader, r)
    BY <1>1, <1>2, FlushIsTold
  <2> HIDE DEF r
  <2>2. ~ After(reader, r.out).bad
    BY <2>1 DEF DoneResponses, Heard
  <2>3. QED
    BY <2>2 DEF r
<1>3. CASE Done(client, st, reader)
  <2>1. FlushEvents(st) = Result(st) /\ ~ reader.bad
    BY <1>3 DEF Done, FlushEvents, Heard
  <2>2. Result(st).out = <<>>
    BY DEF Result
  <2>3. QED
    BY <1>1, <2>1, <2>2, AfterNone
<1>4. QED
  BY <1>1, <1>2, <1>3

LEMMA FlushTold ==
  ASSUME Talking, <<up, client>> \in Chains, ~ PassedOn
  PROVE  ~ After(reader, Flush(up, client, st).out).bad
<1>1. CASE up = "responses" /\ st.started
  <2> DEFINE r == Flush(up, client, st)
  <2>1. r = SecondHop(client, Result(FinishOnce(st).st), FinishOnce(st).out)
    BY <1>1 DEF Flush, SecondHop
  <2> HIDE DEF r
  <2>2. ~ After(reader, r.out).bad
    BY <1>1, <2>1, FinishOnceTold
  <2>3. QED
    BY <2>2 DEF r
<1>2. CASE up = "openai" /\ client = "responses"
  <2>1. Flush(up, client, st) = FlushEvents(st)
    BY <1>2 DEF Flush
  <2>2. QED
    BY <1>2, <2>1, FlushEventsTold
<1>3. CASE ~ (up = "responses" /\ st.started) /\ ~ (up = "openai" /\ client = "responses")
  <2>1. Flush(up, client, st) = Result(st)
    BY <1>3 DEF Flush
  <2>2. Result(st).out = <<>>
    BY DEF Result
  <2>3. reader \in Readers /\ ~ reader.bad
    BY ChainIs, NothingWrong DEF Talking, StreamTyped, Tells
  <2>4. QED
    BY <2>1, <2>2, <2>3, AfterNone
<1>4. QED
  BY <1>1, <1>2, <1>3

-----------------------------------------------------------------------------
(* The inductive invariant                                                 *)

StreamInv ==
  /\ <<up, client>> \in Chains
  /\ terminalSeen \in BOOLEAN
  /\ ~ reader.bad
  /\ phase = "open" => IF PassedOn THEN PassingOn ELSE Talking

LEMMA EndsWell ==
  ASSUME StreamInv, UpstreamEnds
  PROVE  StreamInv'
<1>1. up' = up /\ client' = client /\ phase = "open" /\ phase' = "ended"
  BY DEF UpstreamEnds
<1>2. CASE PassedOn
  <2>1. /\ reader' = Passed(reader, IF terminalSeen THEN <<>> ELSE <<End("failed")>>)
        /\ terminalSeen' = TRUE
    BY <1>2 DEF UpstreamEnds, Passed
  <2>2. PassingOn /\ terminalSeen \in BOOLEAN
    BY <1>1, <1>2 DEF StreamInv
  <2>3. Heard(reader')
    BY <2>1, <2>2, TerminalOnce
  <2>4. QED
    BY <1>1, <2>1, <2>3 DEF StreamInv, Heard
<1>3. CASE ~ PassedOn
  <2>1. reader' = After(reader, Flush(up, client, st).out) /\ terminalSeen' = terminalSeen
    BY <1>3 DEF UpstreamEnds, After
  <2>2. Talking /\ <<up, client>> \in Chains
    BY <1>1, <1>3 DEF StreamInv
  <2>3. ~ reader'.bad
    BY <1>3, <2>1, <2>2, FlushTold
  <2>4. QED
    BY <1>1, <2>1, <2>3 DEF StreamInv
<1>4. QED
  BY <1>2, <1>3

LEMMA BreaksWell ==
  ASSUME StreamInv, UpstreamBreaks
  PROVE  StreamInv'
<1>1. /\ up' = up /\ client' = client /\ terminalSeen' = terminalSeen
      /\ phase = "open" /\ phase' = "broken"
      /\ reader' = IF PassedOn THEN [reader EXCEPT !.ends = Append(@, "failed")] ELSE reader
  BY DEF UpstreamBreaks
<1>2. reader \in Readers /\ ~ reader.bad
  BY <1>1 DEF StreamInv, PassingOn, Talking, StreamTyped
<1>3. reader'.bad = reader.bad
  BY <1>1, <1>2 DEF Readers
<1>4. QED
  BY <1>1, <1>2, <1>3 DEF StreamInv

LEMMA StreamsWell ==
  ASSUME StreamInv, Next
  PROVE  StreamInv'
<1>0. <<up, client>> \in Chains /\ terminalSeen \in BOOLEAN /\ ~ reader.bad
  BY DEF StreamInv
<1> DEFINE Translates == /\ ~ PassedOn /\ phase = "open" /\ up' = up /\ client' = client
                         /\ phase' = phase /\ terminalSeen' = terminalSeen
           PassesIt == /\ PassedOn /\ phase = "open" /\ up' = up /\ client' = client
                       /\ phase' = phase /\ terminalSeen' \in BOOLEAN
<1>1. ASSUME Translates, Talking' PROVE StreamInv'
  <2>1. up' # client' /\ <<up', client'>> \in Chains /\ terminalSeen' \in BOOLEAN
    BY <1>0, <1>1 DEF PassedOn
  <2>2. ~ reader'.bad
    <3> DEFINE N == SlotsKnown(up', prov')
    <3>1. up' = up /\ client' = client /\ client \in Clients
      BY <1>0, <1>1, ChainIs
    <3>2. Tells(up', client', st', reader', prov')
      BY <1>1 DEF Talking
    <3>3. Fits(client', st', reader', N) \/ Done(client', st', reader')
      BY <3>2 DEF Tells
    <3> HIDE DEF N
    <3>4. QED
      BY <3>1, <3>3, NothingWrong
  <2>3. QED
    BY <1>1, <2>1, <2>2 DEF StreamInv, PassedOn
<1>2. ASSUME PassesIt, PassingOn' PROVE StreamInv'
  <2>1. up' = client' /\ <<up', client'>> \in Chains /\ terminalSeen' \in BOOLEAN
    BY <1>0, <1>2 DEF PassedOn
  <2>2. ~ reader'.bad
    BY <1>2, <2>1 DEF PassingOn, Passes, Heard, Sees
  <2>3. QED
    BY <1>2, <2>1, <2>2 DEF StreamInv, PassedOn
<1>3. /\ phase = "open" /\ ~ PassedOn => Talking
      /\ phase = "open" /\ PassedOn => PassingOn
  BY DEF StreamInv
<1>4. ASSUME NEW f, NEW e, Speaking(f), Arrives(e) PROVE Translates /\ Talking
  BY <1>3, <1>4 DEF Speaking, Arrives
<1>5. CASE ChunkArrives
  <2>1. Talking /\ ~ PassedOn /\ phase = "open"
    BY <1>3, <1>5 DEF ChunkArrives, Speaking
  <2>2. PICK e \in ChunksSaid : Arrives(e)
    BY <1>5, <2>1, ChunkIs
  <2>3. Translates
    BY <2>1, <2>2 DEF Arrives
  <2>4. Talking'
    BY <1>0, <1>5, <2>1, ChunkIsTold, KiroChunkIsTold
  <2>5. QED
    BY <1>1, <2>3, <2>4
<1>6. CASE ClaudeBegins
  <2>1. Talking /\ Translates
    BY <1>4, <1>6 DEF ClaudeBegins
  <2>2. QED
    BY <1>0, <1>1, <1>6, <2>1, ClaudeBeginsTold
<1>7. CASE BlockStarts
  <2>1. Talking /\ Translates
    BY <1>4, <1>7 DEF BlockStarts
  <2>2. QED
    BY <1>0, <1>1, <1>7, <2>1, BlockStartsTold
<1>8. CASE BlockContinues
  <2>1. Talking /\ Translates
    BY <1>4, <1>8 DEF BlockContinues
  <2>2. QED
    BY <1>0, <1>1, <1>8, <2>1, BlockContinuesTold
<1>9. CASE BlockStops
  <2>1. Talking /\ Translates
    BY <1>4, <1>9 DEF BlockStops
  <2>2. QED
    BY <1>0, <1>1, <1>9, <2>1, BlockStopsTold
<1>10. CASE ClaudeFinishes
  <2>1. Talking /\ Translates
    BY <1>4, <1>10 DEF ClaudeFinishes
  <2>2. QED
    BY <1>0, <1>1, <1>10, <2>1, ClaudeFinishesTold
<1>11. CASE ResponsesSays
  <2>1. Talking /\ Translates
    BY <1>4, <1>11 DEF ResponsesSays
  <2>2. QED
    BY <1>0, <1>1, <1>11, <2>1, ResponsesSaysTold
<1>12. CASE ItemAdded
  <2>1. Talking /\ Translates
    BY <1>4, <1>12 DEF ItemAdded
  <2>2. QED
    BY <1>0, <1>1, <1>12, <2>1, ItemAddedTold
<1>13. CASE ArgsArrive
  <2>1. Talking /\ Translates
    BY <1>4, <1>13 DEF ArgsArrive
  <2>2. QED
    BY <1>0, <1>1, <1>13, <2>1, ArgsArriveTold
<1>14. CASE ItemIsDone
  <2>1. Talking /\ Translates
    BY <1>4, <1>14 DEF ItemIsDone
  <2>2. QED
    BY <1>0, <1>1, <1>14, <2>1, ItemIsDoneTold
<1>15. CASE ResponsesFinishes
  <2>1. Talking /\ Translates
    BY <1>4, <1>15 DEF ResponsesFinishes
  <2>2. QED
    BY <1>0, <1>1, <1>15, <2>1, ResponsesFinishesTold
<1>16. CASE GeminiChunk
  <2>1. Talking /\ Translates
    BY <1>4, <1>16 DEF GeminiChunk
  <2>2. QED
    BY <1>0, <1>1, <1>16, <2>1, GeminiChunkTold
<1>17. CASE TextPassesOn
  <2>1. PassingOn /\ PassesIt
    BY <1>0, <1>3, <1>17 DEF TextPassesOn, PassOn
  <2>2. QED
    BY <1>0, <1>2, <1>17, <2>1, TextPasses
<1>18. CASE TerminalPassesOn
  <2>1. PassingOn /\ PassesIt
    BY <1>0, <1>3, <1>18 DEF TerminalPassesOn, PassOn
  <2>2. QED
    BY <1>0, <1>2, <1>18, <2>1, TerminalPasses
<1>19. CASE DonePassesOn
  <2>1. PassingOn /\ PassesIt
    BY <1>0, <1>3, <1>19 DEF DonePassesOn, PassOn
  <2>2. QED
    BY <1>0, <1>2, <1>19, <2>1, DonePasses
<1>20. CASE UpstreamEnds
  BY <1>20, EndsWell
<1>21. CASE UpstreamBreaks
  BY <1>21, BreaksWell
<1>22. QED
  BY <1>5, <1>6, <1>7, <1>8, <1>9, <1>10, <1>11, <1>12, <1>13, <1>14, <1>15, <1>16, <1>17, <1>18, <1>19, <1>20, <1>21
     DEF Next

-----------------------------------------------------------------------------
(* The beginning                                                           *)

LEMMA InitStateFacts ==
  /\ InitState \in State /\ BlocksApart(InitState) /\ Made(InitState) = {} /\ OpenNow(InitState) = {}
  /\ Orderly(InitState) /\ Known(InitState) = {} /\ Live(InitState) = {}
  /\ InitState.begun = FALSE /\ InitState.toolIndex = 0 /\ InitState.functionIndex = 0
  /\ \A i \in Slots : InitState.toolCalls[i] = NoTool
  /\ \A c \in Calls : InitState.respIndex[c] = NoBlock
<1>1. InitState \in State
  <2> DEFINE none == <<>>
             S == Seq(Int)
  <2>1. none \in S
    OBVIOUS
  <2> HIDE DEF none, S
  <2>2. [i \in Slots |-> none] \in [Slots -> S]
    BY <2>1
  <2>3. Empty \in [Slots -> Seq(Int)]
    BY <2>2 DEF Empty, none, S
  <2>4. [i \in Slots |-> NoTool] \in [Slots -> ToolsUsed] /\ [k \in {"think", "text"} |-> NoBlock] \in [{"think", "text"} -> Numbers]
    BY DEF ToolsUsed, Numbers
  <2>5. [c \in Calls |-> NoBlock] \in [Calls -> Int] /\ [i \in Slots |-> Nothing] \in [Slots -> Int]
    BY DEF NoBlock, Nothing
  <2> DEFINE blocks == [k \in {"think", "text"} |-> NoBlock]
             tools == [i \in Slots |-> NoTool]
             resp == [c \in Calls |-> NoBlock]
             ids == [i \in Slots |-> Nothing]
  <2>6. /\ blocks \in [{"think", "text"} -> Numbers] /\ tools \in [Slots -> ToolsUsed]
        /\ resp \in [Calls -> Int] /\ ids \in [Slots -> Int] /\ Nothing \in Int /\ NoBlock \in Int
    BY <2>4, <2>5 DEF NoBlock, Nothing
  <2> HIDE DEF blocks, tools, resp, ids
  <2>7. InitState =
          [ begun |-> FALSE, started |-> FALSE, nextBlock |-> 0, block |-> blocks, toolCalls |-> tools,
            argBuf |-> Empty, toolIndex |-> 0, finishSent |-> FALSE, current |-> Nothing, respIndex |-> resp,
            argsEmitted |-> {}, thinkingBlock |-> NoBlock, serverBlock |-> NoBlock, functionIndex |-> 0,
            inThinking |-> FALSE, reasoning |-> "none", message |-> "none", funcIds |-> ids,
            funcAdded |-> {}, funcDone |-> {}, completed |-> FALSE ]
    BY DEF InitState, blocks, tools, resp, ids
  <2>8. QED
    BY <2>3, <2>6, <2>7 DEF State
<1>2. /\ InitState.begun = FALSE /\ InitState.toolIndex = 0 /\ InitState.functionIndex = 0 /\ InitState.nextBlock = 0
      /\ InitState.block["think"] = NoBlock /\ InitState.block["text"] = NoBlock
      /\ InitState.completed = FALSE /\ InitState.funcDone = {} /\ InitState.funcAdded = {}
      /\ InitState.inThinking = FALSE /\ InitState.reasoning = "none" /\ InitState.message = "none"
      /\ \A i \in Slots : InitState.toolCalls[i] = NoTool /\ InitState.funcIds[i] = Nothing
      /\ \A c \in Calls : InitState.respIndex[c] = NoBlock
  BY DEF InitState
<1> DEFINE s == InitState
<1> HIDE DEF s
<1>3. Made(s) = {}
  BY <1>2 DEF Made, s
<1>4. OpenNow(s) = {}
  BY <1>3 DEF OpenNow
<1>5. BlocksApart(s)
  <2>1. NoTool.at = NoBlock /\ NoBlock < 0
    BY DEF NoTool, NoBlock
  <2>2. QED
    BY <1>2, <2>1 DEF BlocksApart, s
<1>6. Orderly(s)
  BY <1>2 DEF Orderly, s
<1>7. Known(s) = {} /\ Live(s) = {}
  BY <1>2 DEF Known, Live, Functions2, s
<1>8. QED
  BY <1>1, <1>2, <1>3, <1>4, <1>5, <1>6, <1>7 DEF s

LEMMA NewReaderFacts ==
  NewReader \in Readers /\ Sees(NewReader, FALSE, {}, {}) /\ NewReader.begun = FALSE /\ NewReader.bad = FALSE
<1> DEFINE items == [k \in {} |-> NoItem]
           index == [i \in Slots |-> Nothing]
           none == <<>>
           args == [c \in Calls |-> none]
           S == Seq(Int)
<1>1. items \in Items /\ DOMAIN items = {}
  <2>1. items \in [{} -> ItemsRead]
    OBVIOUS
  <2>2. {} \in SUBSET Keys
    OBVIOUS
  <2> HIDE DEF items
  <2>3. QED
    BY <2>1, <2>2 DEF Items
<1>2. index \in [Slots -> Nat]
  BY DEF Nothing
<1>3. none \in S /\ none \in Heards /\ none \in Seq(Reasons)
  BY DEF Heards
<1> HIDE DEF none, S
<1>4. args \in [Calls -> S]
  BY <1>3
<1>5. NewReader = [ begun |-> FALSE, items |-> items, index |-> index, known |-> {}, heard |-> none,
                    args |-> args, ends |-> none, bad |-> FALSE ]
  BY DEF NewReader, none
<1> HIDE DEF items, index, args
<1>6. NewReader \in Readers
  BY <1>1, <1>2, <1>3, <1>4, <1>5 DEF Readers, S
<1>7. /\ NewReader.begun = FALSE /\ NewReader.bad = FALSE /\ NewReader.ends = none /\ NewReader.items = items
  BY <1>5
<1>8. OpenItems(NewReader) = {}
  BY <1>1, <1>7 DEF OpenItems
<1>9. QED
  BY <1>1, <1>6, <1>7, <1>8 DEF Sees, none

LEMMA StreamBegins ==
  ASSUME StreamInit, <<up, client>> \in Chains
  PROVE  StreamInv
<1>1. /\ st = InitState /\ terminalSeen = FALSE /\ phase = "open"
      /\ prov = NewProvider /\ reader = NewReader /\ said = <<>>
  BY DEF StreamInit
<1>2. /\ prov \in Providers /\ prov.started = 0 /\ prov.over = "no" /\ prov.kind = "none"
  BY <1>1 DEF NewProvider, Providers
<1>3. StreamTyped
  <2>1. said \in Saids
    BY <1>1 DEF Saids
  <2>2. QED
    BY <1>1, <1>2, <2>1, InitStateFacts, NewReaderFacts DEF StreamTyped
<1>4. Sees(reader, FALSE, {}, {}) /\ reader.begun = FALSE /\ ~ reader.bad
  BY <1>1, NewReaderFacts
<1>5. PassingOn
  BY <1>1, <1>2, <1>3, <1>4 DEF PassingOn, Passes
<1>6. Talking
  <2>1. \A c \in Calls : ~ (c <= prov.started)
    BY <1>2, CallsAreSlots
  <2>2. SlotsKnown(up, prov) = {}
    BY <2>1 DEF SlotsKnown
  <2>3. InClaude(st, reader)
    <3>1. Blocks({}) = {}
      BY DEF Blocks
    <3>2. QED
      BY <1>1, <1>4, <3>1, InitStateFacts DEF InClaude
  <2>4. InResponses(st, reader)
    BY <1>1, <1>4, InitStateFacts DEF InResponses
  <2>5. InChat(st, reader, {})
    BY <1>1, <1>4, InitStateFacts DEF InChat
  <2>6. Fits(client, st, reader, SlotsKnown(up, prov))
    BY <2>2, <2>3, <2>4, <2>5 DEF Fits
  <2>7. SpeaksClaude(st, prov) /\ SpeaksResponses(st, prov) /\ SpeaksKiro(st, prov)
    BY <1>1, <1>2, <2>1, InitStateFacts DEF SpeaksClaude, SpeaksResponses, SpeaksKiro
  <2>8. Speaks(up, client, st, prov)
    BY <1>1, <1>2, <2>7, InitStateFacts DEF Speaks
  <2>9. QED
    BY <1>3, <2>6, <2>8 DEF Talking, Tells
<1>7. QED
  BY <1>1, <1>4, <1>5, <1>6 DEF StreamInv

LEMMA StreamStutters ==
  ASSUME StreamInv, UNCHANGED vars
  PROVE  StreamInv'
<1>1. Talking => Talking'
  BY DEF vars, Talking, StreamTyped
<1>2. PassingOn => PassingOn'
  BY DEF vars, PassingOn, StreamTyped
<1>3. QED
  BY <1>1, <1>2 DEF StreamInv, vars, PassedOn

(* What a client reads obeys its format: stream.js's transform and flush   *)
(* with the translators, for one stream by itself.  Deltas of a closed     *)
(* item come only for the two that are Resumable.                          *)
THEOREM StreamIsWellFramed == Spec => []WellFramed
<1>1. Init => StreamInv
  <2> SUFFICES ASSUME Init PROVE StreamInv
    OBVIOUS
  <2>1. StreamInit /\ <<up, client>> \in Chains
    <3>1. PICK c \in Chains : up = c[1] /\ client = c[2]
      BY DEF Init
    <3>2. c = <<up, client>>
      BY <3>1, StreamAssumption
    <3>3. QED
      BY <3>1, <3>2 DEF Init
  <2>2. QED
    BY <2>1, StreamBegins
<1>2. StreamInv /\ [Next]_vars => StreamInv'
  BY StreamsWell, StreamStutters
<1>3. StreamInv => WellFramed
  BY DEF StreamInv, WellFramed
<1>4. QED
  BY <1>1, <1>2, <1>3, PTL DEF Spec

(* A stream begins afresh with every answer of an exchange.                *)
ExchangeInv == streaming \in BOOLEAN /\ IF streaming THEN StreamInv ELSE StreamInit

LEMMA ExchangeInvInductive == ExchangeInv /\ [ExchangeNext]_exchangeVars => ExchangeInv'
<1> SUFFICES ASSUME ExchangeInv, [ExchangeNext]_exchangeVars PROVE ExchangeInv'
  OBVIOUS
<1>0. StreamInit /\ UNCHANGED vars => StreamInit'
  BY DEF StreamInit, vars
<1>1. CASE Talk
  BY <1>0, <1>1 DEF Talk, ExchangeInv
<1>2. CASE AnswerBegins
  <2>1. StreamInit /\ <<up, client>> \in Chains /\ streaming' = TRUE /\ UNCHANGED vars
    BY <1>2 DEF AnswerBegins, ExchangeInv
  <2>2. StreamInv
    BY <2>1, StreamBegins
  <2>3. StreamInv'
    BY <2>1, <2>2, StreamStutters
  <2>4. QED
    BY <2>1, <2>3 DEF ExchangeInv
<1>3. CASE AnswerGoesOn
  <2>1. streaming /\ streaming' = streaming /\ Next /\ StreamInv
    BY <1>3 DEF AnswerGoesOn, ExchangeInv
  <2>2. StreamInv'
    BY <2>1, StreamsWell
  <2>3. QED
    BY <2>1, <2>2 DEF ExchangeInv
<1>4. CASE AnswerIsKept
  <2>1. /\ streaming' = FALSE /\ st' = InitState /\ terminalSeen' = FALSE /\ phase' = "open"
        /\ prov' = NewProvider /\ reader' = NewReader /\ said' = <<>>
    BY <1>4 DEF AnswerIsKept
  <2>2. QED
    BY <2>1 DEF ExchangeInv, StreamInit, InitState, NewProvider, NewReader
<1>5. CASE UNCHANGED exchangeVars
  <2>1. UNCHANGED vars /\ streaming' = streaming
    BY <1>5 DEF exchangeVars
  <2>2. StreamInv => StreamInv'
    BY <2>1, StreamStutters
  <2>3. QED
    BY <1>0, <2>1, <2>2 DEF ExchangeInv
<1>6. QED
  BY <1>1, <1>2, <1>3, <1>4, <1>5 DEF ExchangeNext

(* What a client reads obeys its format in every answer handleChatCore     *)
(* streams, one after the other; deltas of a closed item come only for the *)
(* two that are Resumable.                                                 *)
THEOREM WellFramedThroughout == ExchangeSpec => []WellFramed
<1>1. ExchangeInit => ExchangeInv
  BY DEF ExchangeInit, ExchangeInv
<1>2. ExchangeInv => WellFramed
  <2>1. StreamInit => ~ reader.bad
    BY NewReaderFacts DEF StreamInit
  <2>2. QED
    BY <2>1 DEF ExchangeInv, StreamInv, WellFramed
<1>3. QED
  BY <1>1, <1>2, ExchangeInvInductive, PTL DEF ExchangeSpec

-----------------------------------------------------------------------------
(* What a client has read, and of which items                              *)

SameWords(r, q) == q.heard = r.heard /\ q.known = r.known /\ q.args = r.args

ItemIs(r, k, kind, c) == k \in DOMAIN r.items /\ r.items[k].kind = kind /\ r.items[k].call = c

(* The items it has read of are still there.                               *)
SameItems(r, q) ==
  \A k \in DOMAIN r.items :
    k \in DOMAIN q.items /\ q.items[k].kind = r.items[k].kind /\ q.items[k].call = r.items[k].call

LEMMA ItemsStay ==
  ASSUME NEW r, NEW q, SameItems(r, q), NEW k, NEW kind, NEW c, ItemIs(r, k, kind, c)
  PROVE  ItemIs(q, k, kind, c)
BY DEF SameItems, ItemIs

LEMMA SaysOfRead ==
  ASSUME NEW r, NEW e, NEW q \in Readers, q = ReadInOrder(r, e)
  PROVE  /\ SameWords(q, Read(r, e)) /\ Read(r, e).items = q.items
         /\ Read(r, e).index = q.index /\ Read(r, e).ends = q.ends
<1>1. Read(r, e) = Wrong(q, Unless(r, e)) /\ Unless(r, e) \in BOOLEAN
  BY DEF Read, Unless
<1>2. QED
  BY <1>1 DEF Wrong, Readers, SameWords

LEMMA BeginSays ==
  ASSUME NEW r \in Readers
  PROVE  /\ SameWords(r, Read(r, Begin)) /\ Read(r, Begin).items = r.items
         /\ Read(r, Begin).index = r.index /\ Read(r, Begin).ends = r.ends
<1> DEFINE p == [r EXCEPT !.begun = TRUE]
           q == Wrong(p, r.begun)
<1>1. p \in Readers /\ SameWords(r, p) /\ p.items = r.items /\ p.index = r.index /\ p.ends = r.ends
  BY DEF Readers, SameWords
<1>2. q \in Readers /\ SameWords(p, q) /\ q.items = p.items /\ q.index = p.index /\ q.ends = p.ends
  <2> HIDE DEF p
  <2>1. r.begun \in BOOLEAN
    BY DEF Readers
  <2>2. QED
    BY <1>1, <2>1 DEF Wrong, Readers, SameWords
<1>3. q = ReadInOrder(r, Begin)
  BY DEF ReadInOrder, Begin
<1> DEFINE e == Begin
<1> HIDE DEF p, q, e
<1>4. /\ SameWords(q, Read(r, e)) /\ Read(r, e).items = q.items
      /\ Read(r, e).index = q.index /\ Read(r, e).ends = q.ends
  BY <1>2, <1>3, SaysOfRead DEF e
<1>5. QED
  BY <1>1, <1>2, <1>4 DEF SameWords, e

(* An item that was not there is, and else nothing has changed.            *)
OpensIt(r, q, k, kind, c) ==
  /\ SameItems(r, q) /\ ItemIs(q, k, kind, c)
  /\ q.heard = r.heard /\ q.args = r.args /\ q.index = r.index /\ q.ends = r.ends
  /\ q.known = IF kind = "call" THEN r.known \cup {c} ELSE r.known

LEMMA OpenSays ==
  ASSUME NEW r \in Readers, NEW k \in Keys, k \notin DOMAIN r.items, NEW kind \in Kinds, NEW c \in Int,
         NEW q, q = Read(r, Open(k, kind, c))
  PROVE  OpensIt(r, q, k, kind, c)
<1> DEFINE e == Open(k, kind, c)
           item == [kind |-> kind, call |-> c, open |-> TRUE]
           items == [x \in {k} \cup DOMAIN r.items |-> IF x = k THEN item ELSE r.items[x]]
           known == IF kind = "call" THEN r.known \cup {c} ELSE r.known
           p == [r EXCEPT !.items = items, !.known = known]
           twice == k \in DOMAIN r.items
           w == Wrong(p, twice)
<1>1. r.items \in Items /\ r.known \in SUBSET Int
  BY DEF Readers
<1>2. twice \in BOOLEAN
  OBVIOUS
<1>3. items \in Items /\ DOMAIN items = {k} \cup DOMAIN r.items
  <2>1. DOMAIN r.items \subseteq Keys /\ \A x \in DOMAIN r.items : r.items[x] \in ItemsRead
    BY <1>1, ItemsTyped
  <2>2. item \in ItemsRead
    BY DEF ItemsRead
  <2> HIDE DEF item
  <2>3. items \in [{k} \cup DOMAIN r.items -> ItemsRead]
    BY <2>1, <2>2
  <2>4. {k} \cup DOMAIN r.items \in SUBSET Keys
    BY <2>1
  <2>5. QED
    BY <2>3, <2>4 DEF Items
<1>4. items[k] = item /\ \A x \in DOMAIN r.items : items[x] = r.items[x]
  OBVIOUS
<1>5. item.kind = kind /\ item.call = c
  OBVIOUS
<1>6. w = ReadInOrder(r, e)
  BY DEF ReadInOrder, Open
<1>7. known \in SUBSET Int
  BY <1>1
<1> HIDE DEF items, item, known, twice
<1>8. /\ p \in Readers /\ p.items = items /\ p.known = known
      /\ p.heard = r.heard /\ p.args = r.args /\ p.index = r.index /\ p.ends = r.ends
  BY <1>3, <1>7 DEF Readers
<1> HIDE DEF p
<1>9. w \in Readers /\ SameWords(p, w) /\ w.items = p.items /\ w.index = p.index /\ w.ends = p.ends
  BY <1>2, <1>8 DEF Wrong, Readers, SameWords
<1> HIDE DEF w, e
<1>10. /\ SameWords(w, Read(r, e)) /\ Read(r, e).items = w.items
       /\ Read(r, e).index = w.index /\ Read(r, e).ends = w.ends
  BY <1>6, <1>9, SaysOfRead
<1>11. q = Read(r, e)
  BY DEF e
<1>12. q.items = items /\ q.known = known /\ q.heard = r.heard /\ q.args = r.args /\ q.index = r.index /\ q.ends = r.ends
  BY <1>8, <1>9, <1>10, <1>11 DEF SameWords
<1>13. SameItems(r, q) /\ ItemIs(q, k, kind, c)
  BY <1>3, <1>4, <1>5, <1>12 DEF SameItems, ItemIs
<1>14. QED
  BY <1>12, <1>13 DEF known, OpensIt

(* What is given to a call after what it has.                              *)
Given(args, c, pieces) == [args EXCEPT ![c] = @ \o pieces]

LEMMA TakeSays ==
  ASSUME NEW r \in Readers, NEW kind \in Kinds, NEW c \in Int, NEW pieces \in Seq(Int)
  PROVE  /\ Take(r, kind, c, pieces).known = r.known
         /\ kind = "call" => /\ Take(r, kind, c, pieces).heard = r.heard
                             /\ Take(r, kind, c, pieces).args = Given(r.args, c, pieces)
         /\ kind # "call" => /\ Take(r, kind, c, pieces).heard = r.heard \o Hear(kind, pieces)
                             /\ Take(r, kind, c, pieces).args = r.args
BY DEF Take, Readers, Given

LEMMA DeltaSays ==
  ASSUME NEW r \in Readers, NEW k \in Keys, NEW pieces \in Seq(Int), NEW kind, NEW c, ItemIs(r, k, kind, c),
         NEW q, q = Read(r, Delta(k, pieces))
  PROVE  /\ q.items = r.items /\ q.known = r.known /\ q.index = r.index /\ q.ends = r.ends
         /\ kind = "call" => q.heard = r.heard /\ q.args = Given(r.args, c, pieces)
         /\ kind # "call" => q.heard = r.heard \o Hear(kind, pieces) /\ q.args = r.args
<1> DEFINE e == Delta(k, pieces)
           item == r.items[k]
           p == Take(r, item.kind, item.call, pieces)
           shut == ~ item.open /\ k \notin Resumable
           w == Wrong(p, shut)
<1>1. r.items \in Items /\ k \in DOMAIN r.items /\ item.kind = kind /\ item.call = c
  BY DEF Readers, ItemIs
<1>2. e.type = "delta" /\ e.key = k /\ e.pieces = pieces
  BY DEF Delta
<1>3. item \in ItemsRead
  BY <1>1, ItemsTyped
<1>4. item.kind \in Kinds /\ item.call \in Int /\ item.open \in BOOLEAN /\ item # NoItem
  BY <1>3 DEF ItemsRead, Kinds, NoItem
<1>5. Item(r, k) = item
  BY <1>1 DEF Item
<1>6. ReadInOrder(r, e) = w
  BY <1>2, <1>4, <1>5 DEF ReadInOrder
<1> HIDE DEF item
<1>7. /\ p \in Readers /\ p.items = r.items /\ p.ends = r.ends /\ p.index = r.index
  BY <1>4, TakeFacts
<1>8. /\ p.known = r.known
      /\ kind = "call" => p.heard = r.heard /\ p.args = Given(r.args, c, pieces)
      /\ kind # "call" => p.heard = r.heard \o Hear(kind, pieces) /\ p.args = r.args
  BY <1>1, <1>4, TakeSays
<1> HIDE DEF p
<1>9. w \in Readers /\ SameWords(p, w) /\ w.items = p.items /\ w.index = p.index /\ w.ends = p.ends
  <2>1. shut \in BOOLEAN
    BY <1>4
  <2> HIDE DEF shut
  <2>2. QED
    BY <1>7, <2>1 DEF Wrong, Readers, SameWords
<1> HIDE DEF w, e
<1>10. /\ SameWords(w, Read(r, e)) /\ Read(r, e).items = w.items
       /\ Read(r, e).index = w.index /\ Read(r, e).ends = w.ends
  BY <1>6, <1>9, SaysOfRead
<1>11. q = Read(r, e)
  BY DEF e
<1>12. SameWords(p, q) /\ q.items = r.items /\ q.index = r.index /\ q.ends = r.ends
  BY <1>7, <1>9, <1>10, <1>11 DEF SameWords
<1>13. QED
  BY <1>8, <1>12 DEF SameWords

LEMMA CloseSays ==
  ASSUME NEW r \in Readers, NEW k \in Keys, NEW q, q = Read(r, Close(k))
  PROVE  SameWords(r, q) /\ SameItems(r, q) /\ q.index = r.index /\ q.ends = r.ends
<1> DEFINE e == Close(k)
           items == [r.items EXCEPT ![k].open = FALSE]
           w == [r EXCEPT !.items = items]
<1>1. r.items \in Items
  BY DEF Readers
<1>2. e.type = "close" /\ e.key = k
  BY DEF Close
<1>3. q = Read(r, e)
  OBVIOUS
<1>4. CASE ~ Item(r, k).open
  <2> DEFINE z == Wrong(r, TRUE)
  <2>1. ReadInOrder(r, e) = z
    BY <1>2, <1>4 DEF ReadInOrder
  <2>2. z \in Readers /\ SameWords(r, z) /\ z.items = r.items /\ z.index = r.index /\ z.ends = r.ends
    BY WrongFacts DEF Wrong, Readers, SameWords
  <2> HIDE DEF e, z
  <2>3. SameWords(z, q) /\ q.items = z.items /\ q.index = z.index /\ q.ends = z.ends
    BY <1>3, <2>1, <2>2, SaysOfRead
  <2>4. QED
    BY <2>2, <2>3 DEF SameWords, SameItems
<1>5. CASE Item(r, k).open
  <2>1. k \in DOMAIN r.items
    BY <1>5 DEF Item, NoItem
  <2>2. /\ DOMAIN r.items \subseteq Keys /\ r.items \in [DOMAIN r.items -> ItemsRead]
        /\ \A x \in DOMAIN r.items : r.items[x] \in ItemsRead
    BY <1>1, ItemsTyped
  <2>3. /\ items \in [DOMAIN r.items -> ItemsRead]
        /\ \A x \in DOMAIN r.items : items[x].kind = r.items[x].kind /\ items[x].call = r.items[x].call
    BY <2>1, <2>2 DEF ItemsRead
  <2>4. items \in Items /\ DOMAIN items = DOMAIN r.items
    BY <2>2, <2>3 DEF Items
  <2>5. ReadInOrder(r, e) = w
    BY <1>2, <1>5 DEF ReadInOrder
  <2> HIDE DEF items
  <2>6. w \in Readers /\ SameWords(r, w) /\ w.items = items /\ w.index = r.index /\ w.ends = r.ends
    BY <2>4 DEF Readers, SameWords
  <2> HIDE DEF w, e
  <2>7. SameWords(w, q) /\ q.items = w.items /\ q.index = w.index /\ q.ends = w.ends
    BY <1>3, <2>5, <2>6, SaysOfRead
  <2>8. QED
    BY <2>3, <2>4, <2>6, <2>7 DEF SameWords, SameItems
<1>6. QED
  BY <1>4, <1>5

(* One more piece that is heard.                                           *)
LEMMA HearOne ==
  ASSUME NEW h \in Heards, NEW kind \in Kinds, NEW n \in Int
  PROVE  h \o Hear(kind, <<n>>) = Append(h, [kind |-> kind, piece |-> n])
<1> DEFINE x == [kind |-> kind, piece |-> n]
<1>1. Hear(kind, <<n>>) = <<x>>
  BY DEF Hear
<1>2. x \in [kind : Kinds, piece : Int]
  OBVIOUS
<1> HIDE DEF x
<1>3. h \o <<x>> = Append(h, x)
  BY <1>2 DEF Heards
<1>4. QED
  BY <1>1, <1>3 DEF x

LEMMA PartSays ==
  ASSUME NEW r \in Readers, NEW kind \in {"think", "text"}, NEW n \in Int, NEW q, q = Read(r, Part(kind, n))
  PROVE  /\ q.items = r.items /\ q.index = r.index /\ q.ends = r.ends /\ q.known = r.known /\ q.args = r.args
         /\ q.heard = IF n > 0 THEN Append(r.heard, [kind |-> kind, piece |-> n]) ELSE r.heard
<1> DEFINE e == Part(kind, n)
           w == IF n > 0 THEN Take(r, kind, Nothing, <<n>>) ELSE r
<1>1. e.type = "part" /\ e.kind = kind /\ e.piece = n
  BY DEF Part
<1>2. <<n>> \in Seq(Int) /\ Nothing \in Int /\ kind \in Kinds /\ kind # "call"
  BY DEF Nothing, Kinds
<1>3. w = ReadInOrder(r, e)
  BY <1>1 DEF ReadInOrder
<1>4. /\ w \in Readers /\ w.items = r.items /\ w.index = r.index /\ w.ends = r.ends
  BY <1>2, TakeFacts
<1>5. /\ w.known = r.known /\ w.args = r.args
      /\ w.heard = IF n > 0 THEN r.heard \o Hear(kind, <<n>>) ELSE r.heard
  BY <1>2, TakeSays
<1>6. r.heard \in Heards
  BY DEF Readers
<1>7. r.heard \o Hear(kind, <<n>>) = Append(r.heard, [kind |-> kind, piece |-> n])
  BY <1>2, <1>6, HearOne
<1>8. q = Read(r, e)
  OBVIOUS
<1> HIDE DEF w, e
<1>9. SameWords(w, q) /\ q.items = w.items /\ q.index = w.index /\ q.ends = w.ends
  BY <1>3, <1>4, <1>8, SaysOfRead
<1>10. QED
  BY <1>4, <1>5, <1>7, <1>9 DEF SameWords

LEMMA EntrySays ==
  ASSUME NEW r \in Readers, NEW t \in ToolEntries,
         NEW c, c = IF t.id # Nothing THEN t.id ELSE r.index[t.at], c # Nothing,
         NEW q, q = Read(r, Entry(t))
  PROVE  /\ q.items = r.items /\ q.ends = r.ends /\ q.heard = r.heard
         /\ q.index = [r.index EXCEPT ![t.at] = c] /\ q.known = r.known \cup {c}
         /\ q.args = IF t.args = Nothing THEN r.args ELSE Given(r.args, c, <<t.args>>)
<1> DEFINE e == Entry(t)
           index == [r.index EXCEPT ![t.at] = c]
           known == r.known \cup {c}
           p == [r EXCEPT !.index = index, !.known = known]
           w == IF t.args = Nothing THEN p ELSE Take(p, "call", c, <<t.args>>)
<1>1. t.at \in Slots /\ t.id \in Nat /\ t.args \in Int /\ r.index \in [Slots -> Nat] /\ r.known \in SUBSET Int
  BY DEF ToolEntries, Readers
<1>2. c \in Nat /\ c \in Int
  BY <1>1
<1>3. e.type = "entry" /\ e.tool = t
  BY DEF Entry
<1>4. w = ReadInOrder(r, e)
  BY <1>3 DEF ReadInOrder
<1>5. index \in [Slots -> Nat] /\ known \in SUBSET Int
  BY <1>1, <1>2
<1> HIDE DEF index, known
<1>6. /\ p \in Readers /\ p.items = r.items /\ p.index = index /\ p.ends = r.ends
      /\ p.known = known /\ p.heard = r.heard /\ p.args = r.args
  BY <1>5 DEF Readers
<1> HIDE DEF p
<1>7. <<t.args>> \in Seq(Int) /\ "call" \in Kinds
  BY <1>1 DEF Kinds
<1>8. /\ w \in Readers /\ w.items = p.items /\ w.index = p.index /\ w.ends = p.ends
      /\ w.known = p.known /\ w.heard = p.heard
      /\ w.args = IF t.args = Nothing THEN p.args ELSE Given(p.args, c, <<t.args>>)
  <2>1. CASE t.args = Nothing
    BY <1>6, <2>1
  <2>2. CASE t.args # Nothing
    <3> DEFINE pieces == <<t.args>>
    <3>1. w = Take(p, "call", c, pieces) /\ pieces \in Seq(Int)
      BY <1>7, <2>2
    <3> HIDE DEF w, pieces
    <3>2. w \in Readers /\ w.items = p.items /\ w.index = p.index /\ w.ends = p.ends
      BY <1>2, <1>6, <1>7, <3>1, TakeFacts
    <3>3. w.known = p.known /\ w.heard = p.heard /\ w.args = Given(p.args, c, pieces)
      BY <1>2, <1>6, <1>7, <3>1, TakeSays
    <3>4. QED
      BY <2>2, <3>2, <3>3 DEF pieces
  <2>3. QED
    BY <2>1, <2>2
<1>9. q = Read(r, e)
  OBVIOUS
<1> HIDE DEF w, e
<1>10. SameWords(w, q) /\ q.items = w.items /\ q.index = w.index /\ q.ends = w.ends
  BY <1>4, <1>8, <1>9, SaysOfRead
<1>11. QED
  BY <1>6, <1>8, <1>10 DEF SameWords, index, known

LEMMA EndSays ==
  ASSUME NEW r \in Readers, NEW reason \in Reasons, NEW q, q = Read(r, End(reason))
  PROVE  SameWords(r, q) /\ q.ends = Append(r.ends, reason)
<1> DEFINE e == End(reason)
           p == [r EXCEPT !.ends = Append(@, reason)]
           w == Wrong(p, OpenItems(r) # {})
<1>1. e.type = "end" /\ e.reason = reason
  BY DEF End
<1>2. Append(r.ends, reason) \in Seq(Reasons)
  BY DEF Readers
<1>3. p \in Readers /\ SameWords(r, p) /\ p.ends = Append(r.ends, reason)
  BY <1>2 DEF Readers, SameWords
<1>4. w = ReadInOrder(r, e)
  BY <1>1 DEF ReadInOrder
<1> HIDE DEF p
<1>5. w \in Readers /\ SameWords(p, w) /\ w.ends = p.ends
  BY <1>3 DEF Wrong, Readers, SameWords
<1>6. q = Read(r, e)
  OBVIOUS
<1> HIDE DEF w, e
<1>7. SameWords(w, q) /\ q.ends = w.ends
  BY <1>4, <1>5, <1>6, SaysOfRead
<1>8. QED
  BY <1>3, <1>5, <1>7 DEF SameWords

-----------------------------------------------------------------------------
(* What has been said, and what a chunk adds to it                         *)

Accounts ==
  { A \in [heard : Heards, known : SUBSET Calls, args : [Calls -> Seq(Int)]] :
      \A c \in Calls : c \notin A.known => A.args[c] = <<>> }

AddPiece(A, kind, n) == IF n > 0 THEN [A EXCEPT !.heard = Append(@, [kind |-> kind, piece |-> n])] ELSE A

AddCall(A, t) ==
  [A EXCEPT !.known = @ \cup {t.at + 1}, !.args = IF t.args = Nothing THEN @ ELSE Given(@, t.at + 1, <<t.args>>)]

AddCalls(A, tools) == Fold(AddCall, A, tools)

AddChunk(A, c) == AddCalls(AddPiece(AddPiece(A, "think", c.think), "text", c.text), c.tools)

(* An entry names its call, or adds to one that has been named.            *)
FitsIn(A, t) == t \in ToolEntries /\ Numbered(t) /\ t.at + 1 \in Calls /\ (t.id # Nothing \/ t.at + 1 \in A.known)

LEMMA PieceAdded ==
  ASSUME NEW A \in Accounts, NEW kind \in Kinds, NEW n \in Int
  PROVE  /\ AddPiece(A, kind, n) \in Accounts
         /\ AddPiece(A, kind, n).known = A.known /\ AddPiece(A, kind, n).args = A.args
         /\ AddPiece(A, kind, n).heard = IF n > 0 THEN Append(A.heard, [kind |-> kind, piece |-> n]) ELSE A.heard
<1> DEFINE h == Append(A.heard, [kind |-> kind, piece |-> n])
<1>1. A \in [heard : Heards, known : SUBSET Calls, args : [Calls -> Seq(Int)]]
  BY DEF Accounts
<1>2. h \in Heards
  BY <1>1 DEF Heards
<1>3. CASE n > 0
  <2>1. AddPiece(A, kind, n) = [A EXCEPT !.heard = h]
    BY <1>3 DEF AddPiece
  <2> HIDE DEF h
  <2>2. /\ [A EXCEPT !.heard = h] \in Accounts
        /\ [A EXCEPT !.heard = h].known = A.known /\ [A EXCEPT !.heard = h].args = A.args
        /\ [A EXCEPT !.heard = h].heard = h
    BY <1>1, <1>2 DEF Accounts
  <2>3. QED
    BY <1>3, <2>1, <2>2 DEF h
<1>4. CASE ~ (n > 0)
  BY <1>4 DEF AddPiece
<1>5. QED
  BY <1>3, <1>4

LEMMA GivenOne ==
  ASSUME NEW args \in [Calls -> Seq(Int)], NEW c \in Calls, NEW n \in Int
  PROVE  /\ Given(args, c, <<n>>) \in [Calls -> Seq(Int)]
         /\ Given(args, c, <<n>>)[c] = Append(args[c], n)
         /\ \A d \in Calls : d # c => Given(args, c, <<n>>)[d] = args[d]
<1>1. args[c] \in Seq(Int)
  OBVIOUS
<1>2. args[c] \o <<n>> = Append(args[c], n) /\ Append(args[c], n) \in Seq(Int)
  BY <1>1
<1>3. Given(args, c, <<n>>) = [args EXCEPT ![c] = Append(args[c], n)]
  BY <1>2 DEF Given
<1>4. QED
  BY <1>2, <1>3

LEMMA CallAdded ==
  ASSUME NEW A \in Accounts, NEW t, FitsIn(A, t)
  PROVE  /\ AddCall(A, t) \in Accounts
         /\ AddCall(A, t).heard = A.heard /\ AddCall(A, t).known = A.known \cup {t.at + 1}
         /\ AddCall(A, t).args = IF t.args = Nothing THEN A.args ELSE Given(A.args, t.at + 1, <<t.args>>)
         /\ AddCall(A, t).args[t.at + 1] = IF t.args = Nothing THEN A.args[t.at + 1] ELSE Append(A.args[t.at + 1], t.args)
         /\ \A d \in Calls : d # t.at + 1 => AddCall(A, t).args[d] = A.args[d]
<1> DEFINE c == t.at + 1
           known == A.known \cup {c}
           args == IF t.args = Nothing THEN A.args ELSE Given(A.args, c, <<t.args>>)
<1>1. A \in [heard : Heards, known : SUBSET Calls, args : [Calls -> Seq(Int)]]
  BY DEF Accounts
<1>2. c \in Calls /\ t.args \in Int
  BY DEF FitsIn, ToolEntries
<1> HIDE DEF c
<1>3. /\ args \in [Calls -> Seq(Int)]
      /\ args[c] = IF t.args = Nothing THEN A.args[c] ELSE Append(A.args[c], t.args)
      /\ \A d \in Calls : d # c => args[d] = A.args[d]
  <2>1. CASE t.args = Nothing
    BY <1>1, <2>1
  <2>2. CASE t.args # Nothing
    <3> DEFINE n == t.args
               old == A.args
    <3>1. args = Given(old, c, <<n>>) /\ n \in Int /\ old \in [Calls -> Seq(Int)]
      BY <1>1, <1>2, <2>2
    <3> HIDE DEF n, old, args
    <3>2. /\ args \in [Calls -> Seq(Int)] /\ args[c] = Append(old[c], n)
          /\ \A d \in Calls : d # c => args[d] = old[d]
      BY <1>2, <3>1, GivenOne
    <3>3. QED
      BY <2>2, <3>2 DEF n, old
  <2>3. QED
    BY <2>1, <2>2
<1>4. known \in SUBSET Calls
  BY <1>1, <1>2
<1>5. AddCall(A, t) = [A EXCEPT !.known = known, !.args = args]
  BY DEF AddCall, c
<1>6. \A d \in Calls : d \notin known => args[d] = <<>>
  BY <1>3 DEF Accounts
<1> HIDE DEF known, args
<1>7. /\ AddCall(A, t).heard = A.heard /\ AddCall(A, t).known = known /\ AddCall(A, t).args = args
      /\ AddCall(A, t) \in [heard : Heards, known : SUBSET Calls, args : [Calls -> Seq(Int)]]
  BY <1>1, <1>3, <1>4, <1>5
<1>8. QED
  BY <1>3, <1>6, <1>7 DEF known, args, c, Accounts

LEMMA FitsInMore ==
  ASSUME NEW A \in Accounts, NEW t, FitsIn(A, t), NEW u, FitsIn(A, u)
  PROVE  FitsIn(AddCall(A, t), u)
<1>1. AddCall(A, t).known = A.known \cup {t.at + 1}
  BY CallAdded
<1>2. QED
  BY <1>1 DEF FitsIn

(* The calls of a chunk, of which there are two at most. *)
LEMMA CallsAddedAre ==
  ASSUME NEW r, NEW tools, Len(tools) \in {0, 1, 2}
  PROVE  /\ Len(tools) = 0 => AddCalls(r, tools) = r
         /\ Len(tools) = 1 => AddCalls(r, tools) = AddCall(r, tools[1])
         /\ Len(tools) = 2 => AddCalls(r, tools) = AddCall(AddCall(r, tools[1]), tools[2])
<1> DEFINE n == Len(tools)
           R(f) == f = [i \in 0 .. n |-> IF i = 0 THEN r ELSE AddCall(f[i - 1], tools[i])]
           p1 == AddCall(r, tools[1])
           p2 == AddCall(p1, tools[2])
           g == [i \in 0 .. n |-> IF i = 0 THEN r ELSE IF i = 1 THEN p1 ELSE p2]
<1>1. n \in {0, 1, 2}
  OBVIOUS
<1> HIDE DEF n
<1>2. \A i \in 0 .. n : i = 0 \/ i = 1 \/ i = 2
  BY <1>1
<1>3. \A i \in 0 .. n : i # 0 => i - 1 \in 0 .. n
  BY <1>1
<1>4. R(g)
  <2>1. ASSUME NEW i \in 0 .. n PROVE g[i] = IF i = 0 THEN r ELSE AddCall(g[i - 1], tools[i])
    <3>1. CASE i = 0
      BY <3>1
    <3>2. CASE i = 1
      BY <1>3, <3>2
    <3>3. CASE i = 2
      BY <1>3, <3>3
    <3>4. QED
      BY <1>2, <3>1, <3>2, <3>3
  <2>2. g = [i \in 0 .. n |-> g[i]]
    OBVIOUS
  <2> HIDE DEF g
  <2>3. QED
    BY <2>1, <2>2
<1>5. \E f : R(f)
  BY <1>4
<1>6. PICK f : R(f) /\ AddCalls(r, tools) = f[n]
  BY <1>5 DEF AddCalls, Fold, n
<1>7. 0 \in 0 .. n /\ (n >= 1 => 1 \in 0 .. n) /\ (n = 2 => 2 \in 0 .. n)
  BY <1>1
<1>8. f[0] = r /\ (n >= 1 => f[1] = AddCall(f[0], tools[1])) /\ (n = 2 => f[2] = AddCall(f[1], tools[2]))
  BY <1>6, <1>7
<1>9. QED
  BY <1>1, <1>6, <1>8 DEF n

(* The chunks this is about have two calls at most.                        *)
FitIn(A, tools) == tools \in Seq(ToolEntries) /\ Len(tools) \in {0, 1, 2} /\ \A i \in 1 .. Len(tools) : FitsIn(A, tools[i])

LEMMA FitInFacts ==
  ASSUME NEW A, NEW tools, FitIn(A, tools)
  PROVE  /\ Len(tools) \in {0, 1, 2}
         /\ Len(tools) >= 1 => FitsIn(A, tools[1])
         /\ Len(tools) = 2 => FitsIn(A, tools[2])
BY DEF FitIn

LEMMA CallsAdded ==
  ASSUME NEW A \in Accounts, NEW tools, FitIn(A, tools)
  PROVE  AddCalls(A, tools) \in Accounts /\ AddCalls(A, tools).heard = A.heard
<1>1. /\ Len(tools) \in {0, 1, 2}
      /\ Len(tools) >= 1 => FitsIn(A, tools[1])
      /\ Len(tools) = 2 => FitsIn(A, tools[2])
  BY FitInFacts
<1>2. CASE Len(tools) = 0
  BY <1>2, CallsAddedAre
<1>3. CASE Len(tools) = 1
  <2> DEFINE t == tools[1]
  <2>1. FitsIn(A, t) /\ AddCalls(A, tools) = AddCall(A, t)
    BY <1>1, <1>3, CallsAddedAre
  <2> HIDE DEF t
  <2>2. AddCall(A, t) \in Accounts /\ AddCall(A, t).heard = A.heard
    BY <2>1, CallAdded
  <2>3. QED
    BY <2>1, <2>2
<1>4. CASE Len(tools) = 2
  <2> DEFINE t == tools[1]
             u == tools[2]
             B == AddCall(A, t)
  <2>1. FitsIn(A, t) /\ FitsIn(A, u) /\ AddCalls(A, tools) = AddCall(B, u)
    BY <1>1, <1>4, CallsAddedAre
  <2> HIDE DEF t, u
  <2>2. B \in Accounts /\ B.heard = A.heard
    BY <2>1, CallAdded
  <2>3. FitsIn(B, u)
    BY <2>1, FitsInMore
  <2> HIDE DEF B
  <2>4. AddCall(B, u) \in Accounts /\ AddCall(B, u).heard = B.heard
    BY <2>2, <2>3, CallAdded
  <2>5. QED
    BY <2>1, <2>2, <2>4
<1>5. QED
  BY <1>1, <1>2, <1>3, <1>4

-----------------------------------------------------------------------------
(* What a client of Claude Messages has been told                          *)

LEMMA EmittedIs ==
  ASSUME NEW rd \in Readers, NEW r \in Results, NEW e \in Events, NEW s
  PROVE  /\ After(rd, r.out) \in Readers
         /\ After(rd, With(s, Append(r.out, e)).out) = Read(After(rd, r.out), e)
<1>1. r.out \in Seq(Events)
  BY DEF Results
<1>2. With(s, Append(r.out, e)).out = Append(r.out, e)
  BY DEF With
<1>3. QED
  BY <1>1, <1>2, AfterTyped, EmitFacts

(* Whatever the client, the beginning says nothing.                        *)
LEMMA BegunSays ==
  ASSUME NEW rd \in Readers, NEW r \in Results, NEW p, p = After(rd, r.out),
         NEW q, q = After(rd, MessageStart(r).out)
  PROVE  /\ p \in Readers /\ SameWords(p, q) /\ q.items = p.items /\ q.index = p.index /\ q.ends = p.ends
         /\ MessageStart(r).st = [r.st EXCEPT !.begun = TRUE]
<1> DEFINE s == [r.st EXCEPT !.begun = TRUE]
<1>1. p \in Readers /\ r.st \in State
  BY EmittedIs, EventFacts DEF Events, Results
<1>2. CASE r.st.begun
  <2>1. r.st.begun = TRUE
    BY <1>1, <1>2 DEF State
  <2>2. s = r.st
    BY <1>1, <2>1 DEF State
  <2>3. MessageStart(r) = r
    BY <1>2 DEF MessageStart
  <2> HIDE DEF s
  <2>4. QED
    BY <1>1, <2>2, <2>3 DEF SameWords, s
<1>3. CASE ~ r.st.begun
  <2>1. Begin \in Events
    BY EventFacts
  <2>2. MessageStart(r) = With(s, Append(r.out, Begin))
    <3>1. MessageStart(r) = [With(r.st, Append(r.out, Begin)) EXCEPT !.st.begun = TRUE]
      BY <1>3, <2>1, EmitFacts DEF MessageStart
    <3>2. QED
      BY <3>1 DEF With
  <2> HIDE DEF s
  <2>3. q = Read(p, Begin)
    BY <2>1, <2>2, EmittedIs
  <2>4. SameWords(p, q) /\ q.items = p.items /\ q.index = p.index /\ q.ends = p.ends
    BY <1>1, <2>3, BeginSays
  <2>5. MessageStart(r).st = s
    BY <2>2 DEF With
  <2>6. QED
    BY <1>1, <2>4, <2>5 DEF s
<1>4. QED
  BY <1>2, <1>3

(* The blocks of texts and of calls are what the translator takes them for. *)
TextBlocks(s, q) == \A k \in {"think", "text"} : s.block[k] # NoBlock => ItemIs(q, Block(s.block[k]), k, Nothing)

CallBlocks(s, q) ==
  \A i \in Slots : s.toolCalls[i] # NoTool =>
    s.toolCalls[i].call = i + 1 /\ ItemIs(q, Block(s.toolCalls[i].at), "call", i + 1)

(* Arguments wait in the buffers until the end.                            *)
Buffers(s, A) ==
  /\ \A c \in Calls : s.argBuf[c - 1] = A.args[c]
  /\ \A i \in Slots : s.toolCalls[i] # NoTool <=> i + 1 \in A.known
  /\ \A i \in Slots : i + 1 \notin A.known => s.argBuf[i] = <<>>

HeardSoFar(q, A) == q.heard = A.heard /\ q.known = A.known /\ \A c \in Calls : q.args[c] = <<>>

ClaudeHas(s, q, A) ==
  A \in Accounts /\ q.ends = <<>> /\ HeardSoFar(q, A) /\ Buffers(s, A) /\ TextBlocks(s, q) /\ CallBlocks(s, q)

(* What is opened and closed without a word does not matter.               *)
LEMMA ClaudeHasStill ==
  ASSUME NEW s, NEW q, NEW A, ClaudeHas(s, q, A), NEW t, NEW p, SameWords(q, p), SameItems(q, p), p.ends = q.ends,
         t.toolCalls = s.toolCalls, t.argBuf = s.argBuf,
         \A k \in {"think", "text"} : t.block[k] # NoBlock => t.block[k] = s.block[k]
  PROVE  ClaudeHas(t, p, A)
<1>1. TextBlocks(t, p)
  BY ItemsStay DEF ClaudeHas, TextBlocks
<1>2. CallBlocks(t, p)
  BY ItemsStay DEF ClaudeHas, CallBlocks
<1>3. HeardSoFar(p, A) /\ Buffers(t, A)
  BY DEF ClaudeHas, HeardSoFar, Buffers, SameWords
<1>4. QED
  BY <1>1, <1>2, <1>3 DEF ClaudeHas

ClaudeTold(rd, r, A) == TellsClaude(rd, r) /\ ClaudeHas(r.st, After(rd, r.out), A)

LEMMA ClaudeBeginTold ==
  ASSUME NEW rd \in Readers, NEW r \in Results, NEW A, InClaude(r.st, After(rd, r.out)),
         ClaudeHas(r.st, After(rd, r.out), A)
  PROVE  ClaudeTold(rd, MessageStart(r), A)
<1> DEFINE q == MessageStart(r)
           old == After(rd, r.out)
           new == After(rd, q.out)
<1>1. TellsClaude(rd, q)
  BY ClaudeBegun
<1>2. SameWords(old, new) /\ new.items = old.items /\ new.ends = old.ends /\ q.st = [r.st EXCEPT !.begun = TRUE]
  BY BegunSays
<1>3. r.st \in State
  BY DEF Results
<1>4. q.st.toolCalls = r.st.toolCalls /\ q.st.argBuf = r.st.argBuf /\ q.st.block = r.st.block
  BY <1>2, <1>3 DEF State
<1>5. SameItems(old, new)
  BY <1>2 DEF SameItems
<1> HIDE DEF q, old, new
<1>6. ClaudeHas(q.st, new, A)
  BY <1>2, <1>4, <1>5, ClaudeHasStill DEF old
<1>7. QED
  BY <1>1, <1>6 DEF ClaudeTold, q, new

(* A block of text or thinking that is closed.                             *)
LEMMA BlockStopTold ==
  ASSUME NEW rd \in Readers, NEW r \in Results, NEW A, ClaudeTold(rd, r, A), NEW kind \in {"think", "text"}
  PROVE  ClaudeTold(rd, StopBlock(kind, r), A)
<1> DEFINE q == StopBlock(kind, r)
           b == r.st.block[kind]
           e == Close(Block(b))
           s == [r.st EXCEPT !.block[kind] = NoBlock]
           old == After(rd, r.out)
           new == After(rd, q.out)
<1>0. TellsClaude(rd, r) /\ ClaudeHas(r.st, old, A) /\ TellsClaude(rd, q)
  BY ClaudeStopsBlock DEF ClaudeTold
<1>1. r.st \in State
  BY DEF Results
<1>2. CASE b = NoBlock
  <2>1. q = r
    BY <1>2 DEF StopBlock
  <2>2. QED
    BY <2>1
<1>3. CASE b # NoBlock
  <2>1. r.st.block \in [{"think", "text"} -> Numbers] /\ b \in Nat
    BY <1>1, <1>3 DEF State, Numbers
  <2>2. Block(b) \in Keys /\ e \in Events
    BY <2>1, BlockFacts, EventFacts DEF Events
  <2>3. q = With(s, Append(r.out, e))
    <3>1. q = [With(r.st, Append(r.out, e)) EXCEPT !.st.block[kind] = NoBlock]
      BY <1>3, <2>2, EmitFacts DEF StopBlock
    <3>2. QED
      BY <3>1 DEF With
  <2>4. /\ s.toolCalls = r.st.toolCalls /\ s.argBuf = r.st.argBuf
        /\ \A k \in {"think", "text"} : s.block[k] # NoBlock => s.block[k] = r.st.block[k]
    BY <1>1, <2>1 DEF State
  <2>5. old \in Readers /\ new = Read(old, Close(Block(b)))
    BY <2>2, <2>3, EmittedIs
  <2>6. q.st = s
    BY <2>3 DEF With
  <2> HIDE DEF q, b, e, s, old, new
  <2>7. SameWords(old, new) /\ SameItems(old, new) /\ new.ends = old.ends
    BY <2>2, <2>5, CloseSays
  <2>8. ClaudeHas(q.st, new, A)
    BY <1>0, <2>4, <2>6, <2>7, ClaudeHasStill
  <2>9. QED
    BY <1>0, <2>8 DEF ClaudeTold, new, q
<1>4. QED
  BY <1>2, <1>3

LEMMA BlocksStopTold ==
  ASSUME NEW rd \in Readers, NEW r \in Results, NEW A, ClaudeTold(rd, r, A)
  PROVE  ClaudeTold(rd, StopBlocks(r), A)
<1> DEFINE p == StopBlock("think", r)
           q == StopBlock("text", p)
<1>1. ClaudeTold(rd, p, A) /\ p \in Results
  BY BlockStopTold DEF ClaudeTold, TellsClaude
<1> HIDE DEF p
<1>2. ClaudeTold(rd, q, A)
  BY <1>1, BlockStopTold
<1>3. QED
  BY <1>2 DEF StopBlocks, p

(* ... and one that is opened, if it is not.                               *)
LEMMA BlockStartTold ==
  ASSUME NEW rd \in Readers, NEW r \in Results, NEW A, ClaudeTold(rd, r, A), NEW kind \in {"think", "text"}
  PROVE  ClaudeTold(rd, StartBlock(kind, r), A)
<1> DEFINE q == StartBlock(kind, r)
           n == r.st.nextBlock
           e == Open(Block(n), kind, Nothing)
           s == [r.st EXCEPT !.block[kind] = n, !.nextBlock = n + 1]
           old == After(rd, r.out)
           new == After(rd, q.out)
<1>0. TellsClaude(rd, r) /\ ClaudeHas(r.st, old, A) /\ TellsClaude(rd, q)
  BY ClaudeStartsBlock DEF ClaudeTold
<1>1. r.st \in State
  BY DEF Results
<1>2. CASE r.st.block[kind] # NoBlock
  <2>1. q = r
    BY <1>2 DEF StartBlock
  <2>2. QED
    BY <2>1
<1>3. CASE r.st.block[kind] = NoBlock
  <2>1. r.st.block \in [{"think", "text"} -> Numbers] /\ n \in Nat
    BY <1>1 DEF State
  <2>2. Block(n) \in Keys /\ kind \in Kinds /\ kind # "call" /\ Nothing \in Int /\ e \in Events
    BY <2>1, BlockFacts, EventFacts DEF Events, Kinds, Nothing
  <2>3. q = With(s, Append(r.out, e))
    <3>1. q = [With(r.st, Append(r.out, e)) EXCEPT !.st.block[kind] = n, !.st.nextBlock = @ + 1]
      BY <1>3, <2>2, EmitFacts DEF StartBlock
    <3>2. QED
      BY <3>1 DEF With
  <2>4. /\ s.toolCalls = r.st.toolCalls /\ s.argBuf = r.st.argBuf
        /\ s.block[kind] = n /\ \A k \in {"think", "text"} : k # kind => s.block[k] = r.st.block[k]
    BY <1>1, <2>1 DEF State
  <2>5. old \in Readers /\ new = Read(old, Open(Block(n), kind, Nothing))
    BY <2>2, <2>3, EmittedIs
  <2>6. Block(n) \notin DOMAIN old.items
    <3>1. DOMAIN old.items = Blocks(Made(r.st))
      BY <1>0, SeesOpened DEF Sees
    <3>2. n \notin Made(r.st)
      BY <2>1 DEF Made
    <3>3. QED
      BY <3>1, <3>2, BlockFacts
  <2>7. q.st = s
    BY <2>3 DEF With
  <2> HIDE DEF q, n, e, s, old, new
  <2>8. /\ SameItems(old, new) /\ ItemIs(new, Block(n), kind, Nothing)
        /\ SameWords(old, new) /\ new.ends = old.ends
    <3>1. /\ SameItems(old, new) /\ ItemIs(new, Block(n), kind, Nothing)
          /\ new.heard = old.heard /\ new.args = old.args /\ new.ends = old.ends
          /\ new.known = IF kind = "call" THEN old.known \cup {Nothing} ELSE old.known
      <4> DEFINE k == Block(n)
      <4>1. k \in Keys /\ k \notin DOMAIN old.items /\ old \in Readers /\ new = Read(old, Open(k, kind, Nothing))
        BY <2>2, <2>5, <2>6
      <4>2. kind \in Kinds /\ Nothing \in Int
        BY <2>2
      <4> HIDE DEF k
      <4>3. /\ SameItems(old, new) /\ ItemIs(new, k, kind, Nothing)
            /\ new.heard = old.heard /\ new.args = old.args /\ new.ends = old.ends
            /\ new.known = IF kind = "call" THEN old.known \cup {Nothing} ELSE old.known
        <5>1. OpensIt(old, new, k, kind, Nothing)
          BY <4>1, <4>2, OpenSays
        <5>2. QED
          BY <5>1 DEF OpensIt
      <4>4. QED
        BY <4>3 DEF k
    <3>2. QED
      BY <2>2, <3>1 DEF SameWords
  <2>9. HeardSoFar(new, A) /\ Buffers(s, A)
    BY <1>0, <2>4, <2>8 DEF ClaudeHas, HeardSoFar, Buffers, SameWords
  <2>10. TextBlocks(s, new)
    BY <1>0, <2>4, <2>8, ItemsStay DEF ClaudeHas, TextBlocks
  <2>11. CallBlocks(s, new)
    BY <1>0, <2>4, <2>8, ItemsStay DEF ClaudeHas, CallBlocks
  <2>12. QED
    BY <1>0, <2>7, <2>8, <2>9, <2>10, <2>11 DEF ClaudeTold, ClaudeHas, new, q
<1>4. QED
  BY <1>2, <1>3

(* A piece is said in the block of its kind.                               *)
LEMMA BlockDeltaTold ==
  ASSUME NEW rd \in Readers, NEW r \in Results, NEW A, ClaudeTold(rd, r, A),
         NEW kind \in {"think", "text"}, NEW other \in {"think", "text"}, NEW n \in Nat
  PROVE  ClaudeTold(rd, BlockDelta(kind, other, n, r), AddPiece(A, kind, n))
<1> DEFINE p == StopBlock(other, r)
           q == StartBlock(kind, p)
           b == q.st.block[kind]
           e == Delta(Block(b), <<n>>)
           old == After(rd, q.out)
           d == BlockDelta(kind, other, n, r)
           new == After(rd, d.out)
           B == AddPiece(A, kind, n)
<1>1. CASE n = Nothing
  <2>1. d = r
    BY <1>1 DEF BlockDelta
  <2>2. B = A
    BY <1>1 DEF AddPiece, Nothing
  <2>3. QED
    BY <2>1, <2>2
<1>2. CASE n # Nothing
  <2>1. ClaudeTold(rd, p, A) /\ p \in Results
    BY BlockStopTold DEF ClaudeTold, TellsClaude
  <2> HIDE DEF p
  <2>2. ClaudeTold(rd, q, A) /\ q \in Results /\ b # NoBlock
    BY <2>1, BlockStartTold, ClaudeStartsBlock DEF ClaudeTold, TellsClaude
  <2>3. d = Emit(q, e)
    BY <1>2 DEF BlockDelta, p
  <2>4. TellsClaude(rd, d)
    BY ClaudeSays DEF ClaudeTold
  <2> HIDE DEF q
  <2>5. ClaudeHas(q.st, old, A) /\ q.st \in State /\ old \in Readers
    BY <2>2, SeesOpened DEF ClaudeTold
  <2>6. b \in Nat
    BY <2>2, <2>5 DEF State, Numbers
  <2>7. Block(b) \in Keys /\ <<n>> \in Seq(Int) /\ n \in Int
    BY <2>6, BlockFacts
  <2>8. e \in Events
    BY <2>7, EventFacts DEF Events
  <2>9. d = With(q.st, Append(q.out, e)) /\ d.st = q.st
    BY <2>2, <2>3, <2>8, EmitFacts
  <2>10. new = Read(old, Delta(Block(b), <<n>>))
    BY <2>2, <2>8, <2>9, EmittedIs
  <2>11. ItemIs(old, Block(b), kind, Nothing) /\ kind # "call" /\ kind \in Kinds
    BY <2>2, <2>5 DEF ClaudeHas, TextBlocks, Kinds
  <2> HIDE DEF b, e, old, d, new
  <2> DEFINE pieces == <<n>>
  <2>12. pieces \in Seq(Int) /\ new = Read(old, Delta(Block(b), pieces))
    BY <2>7, <2>10
  <2> HIDE DEF pieces
  <2>13. /\ new.items = old.items /\ new.known = old.known /\ new.ends = old.ends
         /\ new.heard = old.heard \o Hear(kind, pieces) /\ new.args = old.args
    BY <2>5, <2>7, <2>11, <2>12, DeltaSays
  <2>14. old.heard = A.heard /\ A \in Accounts /\ A.heard \in Heards
    BY <2>5 DEF ClaudeHas, HeardSoFar, Accounts
  <2>15. new.heard = Append(A.heard, [kind |-> kind, piece |-> n])
    BY <2>7, <2>11, <2>13, <2>14, HearOne DEF pieces
  <2>16. B \in Accounts /\ B.known = A.known /\ B.args = A.args /\ B.heard = new.heard
    <3>1. /\ B \in Accounts /\ B.known = A.known /\ B.args = A.args
          /\ B.heard = IF n > 0 THEN Append(A.heard, [kind |-> kind, piece |-> n]) ELSE A.heard
      BY <2>7, <2>11, <2>14, PieceAdded
    <3>2. n > 0
      BY <1>2 DEF Nothing
    <3>3. QED
      BY <2>15, <3>1, <3>2
  <2> HIDE DEF B
  <2>17. HeardSoFar(new, B) /\ Buffers(q.st, B)
    BY <2>5, <2>13, <2>16 DEF ClaudeHas, HeardSoFar, Buffers
  <2>18. TextBlocks(q.st, new) /\ CallBlocks(q.st, new)
    BY <2>5, <2>13 DEF ClaudeHas, TextBlocks, CallBlocks, ItemIs
  <2>19. QED
    BY <2>4, <2>5, <2>9, <2>13, <2>16, <2>17, <2>18 DEF ClaudeTold, ClaudeHas, new, B, d
<1>3. QED
  BY <1>1, <1>2

(* The call of an entry, before its arguments.                             *)
Named(A, t) == [A EXCEPT !.known = @ \cup {t.at + 1}]

LEMMA NamedFacts ==
  ASSUME NEW A \in Accounts, NEW t, FitsIn(A, t)
  PROVE  /\ Named(A, t) \in Accounts /\ Named(A, t).heard = A.heard /\ Named(A, t).args = A.args
         /\ Named(A, t).known = A.known \cup {t.at + 1}
         /\ t.at + 1 \in A.known => Named(A, t) = A
<1> DEFINE c == t.at + 1
           known == A.known \cup {c}
           B == [A EXCEPT !.known = known]
<1>1. A \in [heard : Heards, known : SUBSET Calls, args : [Calls -> Seq(Int)]] /\ c \in Calls
  BY DEF Accounts, FitsIn
<1>2. known \in SUBSET Calls /\ (c \in A.known => known = A.known) /\ A.known \subseteq known
  BY <1>1
<1>3. Named(A, t) = B
  BY DEF Named
<1> HIDE DEF known, c
<1>4. /\ B \in [heard : Heards, known : SUBSET Calls, args : [Calls -> Seq(Int)]]
      /\ B.heard = A.heard /\ B.args = A.args /\ B.known = known
  BY <1>1, <1>2
<1>5. B \in Accounts
  BY <1>2, <1>4 DEF Accounts
<1>6. known = A.known => B = A
  BY <1>1
<1>7. QED
  BY <1>2, <1>3, <1>4, <1>5, <1>6 DEF known, c

(* A call's block is opened.                                               *)
LEMMA CallOpensTold ==
  ASSUME NEW rd \in Readers, NEW r \in Results, NEW A, ClaudeTold(rd, r, A),
         NEW t, FitsIn(A, t), t.id # Nothing, r.st.toolCalls[t.at] = NoTool
  PROVE  ClaudeTold(rd, OpenCall(r, t), Named(A, t)) /\ OpenCall(r, t) \in Results
<1> DEFINE q == StopBlocks(r)
           n == q.st.nextBlock
           tool == [call |-> t.id, at |-> n]
           calls2 == [q.st.toolCalls EXCEPT ![t.at] = tool]
           e == Open(Block(n), "call", t.id)
           m == n + 1
           s == [q.st EXCEPT !.toolCalls = calls2, !.nextBlock = m]
           p == OpenCall(r, t)
           old == After(rd, q.out)
           new == After(rd, p.out)
           B == Named(A, t)
<1>1. /\ t \in ToolEntries /\ t.at \in Slots /\ t.id = t.at + 1 /\ t.id \in Int /\ t.id \in Calls /\ t.id \in Nat
  BY DEF FitsIn, ToolEntries, Numbered
<1>2. TellsClaude(rd, r) /\ A \in Accounts
  BY DEF ClaudeTold, ClaudeHas
<1>3. TellsClaude(rd, p) /\ p \in Results
  BY <1>1, <1>2, ClaudeOpensCall DEF TellsClaude
<1>4. /\ ClaudeTold(rd, q, A) /\ q \in Results /\ q.st.toolCalls = r.st.toolCalls
      /\ q.st.block["think"] = NoBlock /\ q.st.block["text"] = NoBlock
  BY <1>2, BlocksStopTold, ClaudeStopsBlocks DEF TellsClaude
<1>5. B \in Accounts /\ B.heard = A.heard /\ B.args = A.args /\ B.known = A.known \cup {t.id}
  BY <1>1, <1>2, NamedFacts
<1>6. p = [Emit(q, e) EXCEPT !.st.toolCalls[t.at] = tool, !.st.nextBlock = @ + 1]
  BY DEF OpenCall
<1> HIDE DEF q, p, B
<1>7. ClaudeHas(q.st, old, A) /\ q.st \in State /\ old \in Readers /\ DOMAIN old.items = Blocks(Made(q.st))
  BY <1>4, SeesOpened DEF ClaudeTold, Sees
<1>8. n \in Nat /\ m \in Nat /\ q.st.toolCalls \in [Slots -> ToolsUsed] /\ tool # NoTool
  BY <1>1, <1>7 DEF State, NoTool, NoBlock
<1>9. /\ calls2[t.at] = tool /\ tool.call = t.id /\ tool.at = n
      /\ \A i \in Slots : i # t.at => calls2[i] = q.st.toolCalls[i]
  BY <1>1, <1>8
<1>10. Block(n) \in Keys /\ "call" \in Kinds /\ e \in Events
  BY <1>1, <1>8, BlockFacts, EventFacts DEF Events, Kinds
<1>11. p = With(s, Append(q.out, e))
  <2>1. Emit(q, e) = With(q.st, Append(q.out, e))
    BY <1>4, <1>10, EmitFacts
  <2>2. p = [With(q.st, Append(q.out, e)) EXCEPT !.st.toolCalls[t.at] = tool, !.st.nextBlock = @ + 1]
    BY <1>6, <2>1
  <2> HIDE DEF e, tool
  <2>3. QED
    BY <1>7, <2>2 DEF With, State
<1>12. new = Read(old, e)
  BY <1>4, <1>10, <1>11, EmittedIs
<1>13. Block(n) \notin DOMAIN old.items
  <2>1. n \notin Made(q.st)
    BY <1>8 DEF Made
  <2>2. QED
    BY <1>7, <2>1, BlockFacts
<1>14. p.st = s
  BY <1>11 DEF With
<1> HIDE DEF calls2, m
<1>15. s.toolCalls = calls2 /\ s.argBuf = q.st.argBuf /\ s.block = q.st.block
  BY <1>7 DEF State
<1> DEFINE k == Block(n)
           kind == "call"
           c == t.id
<1>16. /\ k \in Keys /\ k \notin DOMAIN old.items /\ kind \in Kinds /\ c \in Int
       /\ new = Read(old, Open(k, kind, c))
  BY <1>1, <1>10, <1>12, <1>13
<1> HIDE DEF s, old, new, k, kind, c
<1>17. /\ SameItems(old, new) /\ ItemIs(new, k, kind, c)
       /\ new.heard = old.heard /\ new.args = old.args /\ new.ends = old.ends
       /\ new.known = IF kind = "call" THEN old.known \cup {c} ELSE old.known
  <2>1. old \in Readers
    BY <1>7
  <2>2. QED
    BY <2>1, <1>16, OpenSays DEF OpensIt
<1>18. HeardSoFar(new, B)
  BY <1>5, <1>7, <1>17 DEF ClaudeHas, HeardSoFar, kind, c
<1>19. Buffers(s, B)
  <2>1. \A i \in Slots : calls2[i] # NoTool <=> i + 1 \in B.known
    <3> TAKE i \in Slots
    <3>1. CASE i = t.at
      BY <1>1, <1>5, <1>8, <1>9, <3>1
    <3>2. CASE i # t.at
      <4>1. i \in Int /\ t.at \in Int
        BY <1>1 DEF Slots
      <4>2. i + 1 # t.id
        BY <1>1, <3>2, <4>1
      <4>3. QED
        BY <1>5, <1>7, <1>9, <3>2, <4>2 DEF ClaudeHas, Buffers
    <3>3. QED
      BY <3>1, <3>2
  <2>2. QED
    BY <1>5, <1>7, <1>15, <2>1 DEF ClaudeHas, Buffers
<1>20. TextBlocks(s, new)
  BY <1>7, <1>15, <1>17, ItemsStay DEF ClaudeHas, TextBlocks
<1>21. CallBlocks(s, new)
  <2> SUFFICES ASSUME NEW i \in Slots, s.toolCalls[i] # NoTool
               PROVE  s.toolCalls[i].call = i + 1 /\ ItemIs(new, Block(s.toolCalls[i].at), "call", i + 1)
    BY DEF CallBlocks
  <2>1. CASE i = t.at
    BY <1>1, <1>9, <1>15, <1>17, <2>1 DEF k, kind, c
  <2>2. CASE i # t.at
    BY <1>7, <1>9, <1>15, <1>17, <2>2, ItemsStay DEF ClaudeHas, CallBlocks
  <2>3. QED
    BY <2>1, <2>2
<1>22. ClaudeHas(p.st, new, B)
  BY <1>5, <1>7, <1>14, <1>17, <1>18, <1>19, <1>20, <1>21 DEF ClaudeHas
<1>23. QED
  BY <1>3, <1>22 DEF ClaudeTold, B, p, new

(* Arguments of a call that has been named.                                *)
LEMMA ArgsKept ==
  ASSUME NEW rd \in Readers, NEW r \in Results, NEW B, ClaudeTold(rd, r, B),
         NEW t \in ToolEntries, t.at + 1 \in Calls, t.at + 1 \in B.known,
         NEW C \in Accounts, C.heard = B.heard, C.known = B.known,
         C.args[t.at + 1] = IF t.args = Nothing THEN B.args[t.at + 1] ELSE Append(B.args[t.at + 1], t.args),
         \A d \in Calls : d # t.at + 1 => C.args[d] = B.args[d]
  PROVE  ClaudeTold(rd, ToolArgs(r, t), C) /\ ToolArgs(r, t) \in Results
<1> DEFINE p == ToolArgs(r, t)
           buf == [r.st.argBuf EXCEPT ![t.at] = Append(@, t.args)]
           s == [r.st EXCEPT !.argBuf = buf]
           old == After(rd, r.out)
<1>1. TellsClaude(rd, r) /\ ClaudeHas(r.st, old, B) /\ r.st \in State
  BY DEF ClaudeTold, Results
<1>2. TellsClaude(rd, p) /\ p \in Results
  BY <1>1, ClaudeKeepsArgs DEF TellsClaude
<1>3. t.at \in Slots /\ t.at \in Int /\ t.at + 1 - 1 = t.at
  BY DEF ToolEntries, Slots
<1>4. r.st.toolCalls[t.at] # NoTool
  BY <1>1, <1>3 DEF ClaudeHas, Buffers
<1>5. CASE t.args = Nothing
  <2>1. p = r
    BY <1>5 DEF ToolArgs
  <2>2. \A d \in Calls : C.args[d] = B.args[d]
    BY <1>5
  <2>3. HeardSoFar(old, C) /\ Buffers(r.st, C)
    BY <1>1, <2>2 DEF ClaudeHas, HeardSoFar, Buffers
  <2>4. QED
    BY <1>1, <1>2, <2>1, <2>3 DEF ClaudeTold, ClaudeHas
<1>6. CASE t.args # Nothing
  <2>1. p = [r EXCEPT !.st.argBuf[t.at] = Append(@, t.args)]
    BY <1>4, <1>6 DEF ToolArgs
  <2>2. r = With(r.st, r.out)
    BY DEF Results, With
  <2>3. p = With(s, r.out)
    BY <2>1, <2>2 DEF With
  <2>4. p.st = s /\ p.out = r.out
    BY <2>3 DEF With
  <2>5. /\ buf[t.at] = Append(r.st.argBuf[t.at], t.args)
        /\ \A i \in Slots : i # t.at => buf[i] = r.st.argBuf[i]
    BY <1>1, <1>3 DEF State
  <2> HIDE DEF buf
  <2>6. s.toolCalls = r.st.toolCalls /\ s.argBuf = buf /\ s.block = r.st.block
    BY <1>1 DEF State
  <2> HIDE DEF s, p, old
  <2>7. \A c \in Calls : buf[c - 1] = C.args[c]
    <3> TAKE c \in Calls
    <3>1. c - 1 \in Slots /\ c \in Int /\ r.st.argBuf[c - 1] = B.args[c]
      BY <1>1, CallsAreSlots DEF ClaudeHas, Buffers
    <3>2. CASE c = t.at + 1
      <4>1. c - 1 = t.at
        BY <1>3, <3>2
      <4>2. C.args[c] = Append(B.args[c], t.args)
        BY <1>6, <3>2
      <4>3. buf[c - 1] = Append(B.args[c], t.args)
        BY <2>5, <3>1, <4>1
      <4>4. QED
        BY <4>2, <4>3
    <3>3. CASE c # t.at + 1
      BY <1>3, <2>5, <3>1, <3>3
    <3>4. QED
      BY <3>2, <3>3
  <2>8. Buffers(s, C)
    BY <1>1, <2>5, <2>6, <2>7 DEF ClaudeHas, Buffers
  <2>9. HeardSoFar(old, C)
    BY <1>1 DEF ClaudeHas, HeardSoFar
  <2>10. TextBlocks(s, old) /\ CallBlocks(s, old)
    BY <1>1, <2>6 DEF ClaudeHas, TextBlocks, CallBlocks
  <2>11. ClaudeHas(p.st, After(rd, p.out), C)
    BY <1>1, <2>4, <2>8, <2>9, <2>10 DEF ClaudeHas, old
  <2>12. QED
    BY <1>2, <2>11 DEF ClaudeTold, p
<1>7. QED
  BY <1>5, <1>6

(* An entry of a call.                                                     *)
LEMMA CallTaken ==
  ASSUME NEW rd \in Readers, NEW r \in Results, NEW A, NEW t, FitsIn(A, t), ClaudeTold(rd, r, A),
         NEW p \in Results, ClaudeTold(rd, p, Named(A, t))
  PROVE  ClaudeTold(rd, ToolArgs(p, t), AddCall(A, t)) /\ ToolArgs(p, t) \in Results
<1> DEFINE B == Named(A, t)
           C == AddCall(A, t)
<1>1. A \in Accounts
  BY DEF ClaudeTold, ClaudeHas
<1>2. B \in Accounts /\ B.heard = A.heard /\ B.args = A.args /\ B.known = A.known \cup {t.at + 1}
  BY <1>1, NamedFacts
<1>3. /\ C \in Accounts /\ C.heard = A.heard /\ C.known = A.known \cup {t.at + 1}
      /\ C.args[t.at + 1] = IF t.args = Nothing THEN A.args[t.at + 1] ELSE Append(A.args[t.at + 1], t.args)
      /\ \A d \in Calls : d # t.at + 1 => C.args[d] = A.args[d]
  BY <1>1, CallAdded
<1>4. t \in ToolEntries /\ t.at + 1 \in Calls /\ ClaudeTold(rd, p, B)
  BY DEF FitsIn
<1> HIDE DEF B, C
<1>5. C.heard = B.heard /\ C.known = B.known /\ t.at + 1 \in B.known
  BY <1>2, <1>3
<1>6. /\ C.args[t.at + 1] = IF t.args = Nothing THEN B.args[t.at + 1] ELSE Append(B.args[t.at + 1], t.args)
      /\ \A d \in Calls : d # t.at + 1 => C.args[d] = B.args[d]
  BY <1>2, <1>3
<1>7. ClaudeTold(rd, ToolArgs(p, t), C) /\ ToolArgs(p, t) \in Results
  BY <1>3, <1>4, <1>5, <1>6, ArgsKept
<1>8. QED
  BY <1>7 DEF C

LEMMA CallTakenTold ==
  ASSUME NEW rd \in Readers, NEW r \in Results, NEW A, NEW t, FitsIn(A, t), ClaudeTold(rd, r, A)
  PROVE  ClaudeTold(rd, TakeCall(r, t), AddCall(A, t)) /\ TakeCall(r, t) \in Results
<1> DEFINE p == ToolStart(r, t)
<1>1. ClaudeHas(r.st, After(rd, r.out), A) /\ A \in Accounts /\ t.at \in Slots
  BY DEF ClaudeTold, ClaudeHas, FitsIn, ToolEntries
<1>2. p \in Results /\ ClaudeTold(rd, p, Named(A, t))
  <2>1. CASE t.id = Nothing \/ r.st.toolCalls[t.at] # NoTool
    <3>1. p = r
      BY <2>1 DEF ToolStart
    <3>2. t.at + 1 \in A.known
      BY <1>1, <2>1 DEF ClaudeHas, Buffers, FitsIn
    <3>3. Named(A, t) = A
      BY <1>1, <3>2, NamedFacts
    <3>4. QED
      BY <3>1, <3>3
  <2>2. CASE t.id # Nothing /\ r.st.toolCalls[t.at] = NoTool
    <3>1. p = OpenCall(r, t)
      BY <2>2 DEF ToolStart, OpenCall
    <3>2. QED
      BY <2>2, <3>1, CallOpensTold
  <2>3. QED
    BY <2>1, <2>2
<1> HIDE DEF p
<1>3. QED
  BY <1>2, CallTaken DEF TakeCall, p

LEMMA KiroCallTakenTold ==
  ASSUME NEW rd \in Readers, NEW r \in Results, NEW A, NEW t, FitsIn(A, t), ClaudeTold(rd, r, A),
         t.id # Nothing => t.at + 1 \notin A.known
  PROVE  ClaudeTold(rd, TakeKiroCall(r, t), AddCall(A, t)) /\ TakeKiroCall(r, t) \in Results
<1> DEFINE p == KiroToolStart(r, t)
<1>1. ClaudeHas(r.st, After(rd, r.out), A) /\ A \in Accounts /\ t.at \in Slots
  BY DEF ClaudeTold, ClaudeHas, FitsIn, ToolEntries
<1>2. p \in Results /\ ClaudeTold(rd, p, Named(A, t))
  <2>1. CASE t.id = Nothing
    <3>1. p = r
      BY <2>1 DEF KiroToolStart
    <3>2. Named(A, t) = A
      BY <1>1, <2>1, NamedFacts DEF FitsIn
    <3>3. QED
      BY <3>1, <3>2
  <2>2. CASE t.id # Nothing
    <3>1. p = OpenCall(r, t)
      BY <2>2 DEF KiroToolStart, OpenCall
    <3>2. r.st.toolCalls[t.at] = NoTool
      BY <1>1, <2>2 DEF ClaudeHas, Buffers
    <3>3. QED
      BY <2>2, <3>1, <3>2, CallOpensTold
  <2>3. QED
    BY <2>1, <2>2
<1> HIDE DEF p
<1>3. QED
  BY <1>2, CallTaken DEF TakeKiroCall, p

(* The entries of a chunk, one after the other. *)
LEMMA TakeCallsAre ==
  ASSUME NEW r, NEW tools, Len(tools) \in {0, 1, 2}
  PROVE  /\ Len(tools) = 0 => TakeCalls(r, tools) = r
         /\ Len(tools) = 1 => TakeCalls(r, tools) = TakeCall(r, tools[1])
         /\ Len(tools) = 2 => TakeCalls(r, tools) = TakeCall(TakeCall(r, tools[1]), tools[2])
<1> DEFINE n == Len(tools)
           R(f) == f = [i \in 0 .. n |-> IF i = 0 THEN r ELSE TakeCall(f[i - 1], tools[i])]
           p1 == TakeCall(r, tools[1])
           p2 == TakeCall(p1, tools[2])
           g == [i \in 0 .. n |-> IF i = 0 THEN r ELSE IF i = 1 THEN p1 ELSE p2]
<1>1. n \in {0, 1, 2}
  OBVIOUS
<1> HIDE DEF n
<1>2. \A i \in 0 .. n : i = 0 \/ i = 1 \/ i = 2
  BY <1>1
<1>3. \A i \in 0 .. n : i # 0 => i - 1 \in 0 .. n
  BY <1>1
<1>4. R(g)
  <2>1. ASSUME NEW i \in 0 .. n PROVE g[i] = IF i = 0 THEN r ELSE TakeCall(g[i - 1], tools[i])
    <3>1. CASE i = 0
      BY <3>1
    <3>2. CASE i = 1
      BY <1>3, <3>2
    <3>3. CASE i = 2
      BY <1>3, <3>3
    <3>4. QED
      BY <1>2, <3>1, <3>2, <3>3
  <2>2. g = [i \in 0 .. n |-> g[i]]
    OBVIOUS
  <2> HIDE DEF g
  <2>3. QED
    BY <2>1, <2>2
<1>5. \E f : R(f)
  BY <1>4
<1>6. PICK f : R(f) /\ TakeCalls(r, tools) = f[n]
  BY <1>5 DEF TakeCalls, Fold, n
<1>7. 0 \in 0 .. n /\ (n >= 1 => 1 \in 0 .. n) /\ (n = 2 => 2 \in 0 .. n)
  BY <1>1
<1>8. f[0] = r /\ (n >= 1 => f[1] = TakeCall(f[0], tools[1])) /\ (n = 2 => f[2] = TakeCall(f[1], tools[2]))
  BY <1>6, <1>7
<1>9. QED
  BY <1>1, <1>6, <1>8 DEF n

LEMMA TakeKiroCallsAre ==
  ASSUME NEW r, NEW tools, Len(tools) \in {0, 1, 2}
  PROVE  /\ Len(tools) = 0 => TakeKiroCalls(r, tools) = r
         /\ Len(tools) = 1 => TakeKiroCalls(r, tools) = TakeKiroCall(r, tools[1])
         /\ Len(tools) = 2 => TakeKiroCalls(r, tools) = TakeKiroCall(TakeKiroCall(r, tools[1]), tools[2])
<1> DEFINE n == Len(tools)
           R(f) == f = [i \in 0 .. n |-> IF i = 0 THEN r ELSE TakeKiroCall(f[i - 1], tools[i])]
           p1 == TakeKiroCall(r, tools[1])
           p2 == TakeKiroCall(p1, tools[2])
           g == [i \in 0 .. n |-> IF i = 0 THEN r ELSE IF i = 1 THEN p1 ELSE p2]
<1>1. n \in {0, 1, 2}
  OBVIOUS
<1> HIDE DEF n
<1>2. \A i \in 0 .. n : i = 0 \/ i = 1 \/ i = 2
  BY <1>1
<1>3. \A i \in 0 .. n : i # 0 => i - 1 \in 0 .. n
  BY <1>1
<1>4. R(g)
  <2>1. ASSUME NEW i \in 0 .. n PROVE g[i] = IF i = 0 THEN r ELSE TakeKiroCall(g[i - 1], tools[i])
    <3>1. CASE i = 0
      BY <3>1
    <3>2. CASE i = 1
      BY <1>3, <3>2
    <3>3. CASE i = 2
      BY <1>3, <3>3
    <3>4. QED
      BY <1>2, <3>1, <3>2, <3>3
  <2>2. g = [i \in 0 .. n |-> g[i]]
    OBVIOUS
  <2> HIDE DEF g
  <2>3. QED
    BY <2>1, <2>2
<1>5. \E f : R(f)
  BY <1>4
<1>6. PICK f : R(f) /\ TakeKiroCalls(r, tools) = f[n]
  BY <1>5 DEF TakeKiroCalls, Fold, n
<1>7. 0 \in 0 .. n /\ (n >= 1 => 1 \in 0 .. n) /\ (n = 2 => 2 \in 0 .. n)
  BY <1>1
<1>8. f[0] = r /\ (n >= 1 => f[1] = TakeKiroCall(f[0], tools[1])) /\ (n = 2 => f[2] = TakeKiroCall(f[1], tools[2]))
  BY <1>6, <1>7
<1>9. QED
  BY <1>1, <1>6, <1>8 DEF n

LEMMA CallsTakenTold ==
  ASSUME NEW rd \in Readers, NEW r \in Results, NEW A, ClaudeTold(rd, r, A), NEW tools, FitIn(A, tools)
  PROVE  ClaudeTold(rd, TakeCalls(r, tools), AddCalls(A, tools)) /\ TakeCalls(r, tools) \in Results
<1>1. A \in Accounts
  BY DEF ClaudeTold, ClaudeHas
<1>2. CASE Len(tools) = 0
  BY <1>2, FitInFacts, TakeCallsAre, CallsAddedAre
<1>3. CASE Len(tools) = 1
  <2> DEFINE t == tools[1]
  <2>1. FitsIn(A, t) /\ AddCalls(A, tools) = AddCall(A, t) /\ TakeCalls(r, tools) = TakeCall(r, t)
    BY <1>3, FitInFacts, TakeCallsAre, CallsAddedAre
  <2> HIDE DEF t
  <2>2. ClaudeTold(rd, TakeCall(r, t), AddCall(A, t)) /\ TakeCall(r, t) \in Results
    BY <2>1, CallTakenTold
  <2>3. QED
    BY <2>1, <2>2
<1>4. CASE Len(tools) = 2
  <2> DEFINE t == tools[1]
             u == tools[2]
             B == AddCall(A, t)
             p == TakeCall(r, t)
  <2>1. /\ FitsIn(A, t) /\ FitsIn(A, u) /\ AddCalls(A, tools) = AddCall(B, u) /\ TakeCalls(r, tools) = TakeCall(p, u)
    BY <1>4, FitInFacts, TakeCallsAre, CallsAddedAre
  <2> HIDE DEF t, u
  <2>2. FitsIn(B, u) /\ B.known = A.known \cup {t.at + 1}
    BY <1>1, <2>1, FitsInMore, CallAdded
  <2>3. ClaudeTold(rd, p, B) /\ p \in Results
    BY <2>1, CallTakenTold
  <2> HIDE DEF B, p
  <2>4. ClaudeTold(rd, TakeCall(p, u), AddCall(B, u)) /\ TakeCall(p, u) \in Results
    BY <2>1, <2>2, <2>3, CallTakenTold
  <2>5. QED
    BY <2>1, <2>4
<1>5. QED
  BY <1>2, <1>3, <1>4, FitInFacts

(* Kiro names a call once.                                                 *)
NamesAnew(A, tools) ==
  /\ Len(tools) >= 1 /\ tools[1].id # Nothing => tools[1].at + 1 \notin A.known
  /\ Len(tools) = 2 /\ tools[2].id # Nothing
       => tools[2].at + 1 \notin A.known /\ tools[2].at + 1 # tools[1].at + 1

LEMMA KiroCallsTakenTold ==
  ASSUME NEW rd \in Readers, NEW r \in Results, NEW A, ClaudeTold(rd, r, A), NEW tools, FitIn(A, tools), NamesAnew(A, tools)
  PROVE  ClaudeTold(rd, TakeKiroCalls(r, tools), AddCalls(A, tools)) /\ TakeKiroCalls(r, tools) \in Results
<1>1. A \in Accounts
  BY DEF ClaudeTold, ClaudeHas
<1>2. CASE Len(tools) = 0
  BY <1>2, FitInFacts, TakeKiroCallsAre, CallsAddedAre
<1>3. CASE Len(tools) = 1
  <2> DEFINE t == tools[1]
  <2>1. /\ FitsIn(A, t) /\ AddCalls(A, tools) = AddCall(A, t) /\ TakeKiroCalls(r, tools) = TakeKiroCall(r, t)
        /\ (t.id # Nothing => t.at + 1 \notin A.known)
    BY <1>3, FitInFacts, TakeKiroCallsAre, CallsAddedAre DEF NamesAnew
  <2> HIDE DEF t
  <2>2. ClaudeTold(rd, TakeKiroCall(r, t), AddCall(A, t)) /\ TakeKiroCall(r, t) \in Results
    BY <2>1, KiroCallTakenTold
  <2>3. QED
    BY <2>1, <2>2
<1>4. CASE Len(tools) = 2
  <2> DEFINE t == tools[1]
             u == tools[2]
             B == AddCall(A, t)
             p == TakeKiroCall(r, t)
  <2>1. /\ FitsIn(A, t) /\ FitsIn(A, u) /\ AddCalls(A, tools) = AddCall(B, u) /\ TakeKiroCalls(r, tools) = TakeKiroCall(p, u)
        /\ (t.id # Nothing => t.at + 1 \notin A.known)
        /\ (u.id # Nothing => u.at + 1 \notin A.known /\ u.at + 1 # t.at + 1)
    BY <1>4, FitInFacts, TakeKiroCallsAre, CallsAddedAre DEF NamesAnew
  <2> HIDE DEF t, u
  <2>2. FitsIn(B, u) /\ B.known = A.known \cup {t.at + 1}
    BY <1>1, <2>1, FitsInMore, CallAdded
  <2>3. ClaudeTold(rd, p, B) /\ p \in Results
    BY <2>1, KiroCallTakenTold
  <2> HIDE DEF B, p
  <2>4. ClaudeTold(rd, TakeKiroCall(p, u), AddCall(B, u)) /\ TakeKiroCall(p, u) \in Results
    BY <2>1, <2>2, <2>3, KiroCallTakenTold
  <2>5. QED
    BY <2>1, <2>4
<1>5. QED
  BY <1>2, <1>3, <1>4, FitInFacts

(* The arguments that wait are given when their block is closed: those of  *)
(* the blocks with the first k numbers.                                    *)
GivenSoFar(s, q, A, k) ==
  /\ q.ends = <<>> /\ q.heard = A.heard /\ q.known = A.known /\ CallBlocks(s, q)
  /\ \A c \in Calls : q.args[c] = IF s.toolCalls[c - 1].at < k THEN A.args[c] ELSE <<>>

LEMMA GivenAll ==
  ASSUME NEW args \in [Calls -> Seq(Int)], NEW c \in Calls, args[c] = <<>>, NEW pieces \in Seq(Int)
  PROVE  /\ Given(args, c, pieces)[c] = pieces
         /\ \A d \in Calls : d # c => Given(args, c, pieces)[d] = args[d]
<1>1. <<>> \o pieces = pieces
  OBVIOUS
<1>2. Given(args, c, pieces) = [args EXCEPT ![c] = pieces]
  BY <1>1 DEF Given
<1>3. QED
  BY <1>2

LEMMA GivenInTurn ==
  ASSUME NEW rd \in Readers, NEW s \in State, BlocksApart(s),
         NEW k \in 1 .. s.nextBlock, NEW x \in Closing(rd, s, k - 1),
         NEW A \in Accounts, Buffers(s, A), GivenSoFar(s, After(rd, x.out), A, k - 1)
  PROVE  GivenSoFar(s, After(rd, StopTool(x, k - 1).out), A, k)
<1> DEFINE b == k - 1
           here == {i \in Slots : x.st.toolCalls[i].at = b}
           i == CHOOSE j \in here : TRUE
           key == Block(b)
           args == x.st.argBuf[i]
           e1 == Delta(key, args)
           e2 == Close(key)
           p == IF args = <<>> THEN x ELSE Emit(x, e1)
           old == After(rd, x.out)
           mid == After(rd, p.out)
           new == After(rd, StopTool(x, b).out)
<1>1. /\ x \in Results /\ x.st = s /\ x.out \in Seq(Events) /\ old \in Readers
  BY AfterTyped DEF Closing, Results
<1>2. s.nextBlock \in Nat /\ b \in Nat /\ k \in Int /\ k = b + 1
  BY DEF State
<1>3. \A j \in Slots : s.toolCalls[j] \in ToolsUsed /\ s.toolCalls[j].at \in Int
  BY DEF State, ToolsUsed, NoTool, NoBlock
<1>4. \A c \in Calls : c - 1 \in Slots /\ c - 1 + 1 = c
  BY CallsAreSlots
<1>5. CASE here = {}
  <2>1. StopTool(x, b) = x
    BY <1>5 DEF StopTool
  <2>2. \A j \in Slots : s.toolCalls[j].at < k <=> s.toolCalls[j].at < b
    BY <1>1, <1>2, <1>3, <1>5
  <2>3. QED
    BY <1>4, <2>1, <2>2 DEF GivenSoFar
<1>6. CASE here # {}
  <2>1. i \in here
    BY <1>6
  <2>2. i \in Slots /\ s.toolCalls[i].at = b
    BY <1>1, <2>1
  <2>3. args \in Seq(Int) /\ args = s.argBuf[i]
    BY <1>1, <2>2 DEF State
  <2>4. StopTool(x, b) = Emit(p, e2)
    BY <1>6 DEF StopTool
  <2> HIDE DEF i, args, here
  <2> DEFINE c == i + 1
  <2>5. s.toolCalls[i] # NoTool
    BY <1>2, <2>2 DEF NoTool, NoBlock
  <2>6. c \in Calls /\ c - 1 = i /\ A.args[c] = args /\ ItemIs(old, key, "call", c)
    <3>1. c \in A.known /\ i \in Nat
      BY <2>2, <2>5 DEF Buffers, Slots
    <3>2. c \in Calls
      BY <3>1 DEF Accounts
    <3>3. c - 1 = i
      BY <3>1
    <3>4. A.args[c] = s.argBuf[c - 1]
      BY <3>2 DEF Buffers
    <3>5. ItemIs(old, Block(s.toolCalls[i].at), "call", i + 1)
      BY <2>2, <2>5 DEF GivenSoFar, CallBlocks
    <3>6. QED
      BY <2>2, <2>3, <3>2, <3>3, <3>4, <3>5
  <2>7. \A j \in Slots : j # i => s.toolCalls[j].at # b
    BY <1>2, <1>3, <2>2 DEF BlocksApart, NoBlock
  <2>8. key \in Keys
    BY <1>2, BlockFacts
  <2>9. e1 \in Events /\ e2 \in Events
    BY <2>3, <2>8, EventFacts DEF Events
  <2>10. old.args[c] = <<>> /\ old.args \in [Calls -> Seq(Int)]
    BY <1>1, <1>2, <2>2, <2>6 DEF GivenSoFar, Readers
  <2> HIDE DEF key, old, c
  <2>11. /\ p \in Results /\ mid \in Readers /\ SameItems(old, mid) /\ mid.ends = old.ends
         /\ mid.heard = old.heard /\ mid.known = old.known
         /\ mid.args[c] = A.args[c] /\ \A d \in Calls : d # c => mid.args[d] = old.args[d]
    <3>1. CASE args = <<>>
      <4>1. p = x
        BY <3>1
      <4>2. mid = old
        BY <4>1 DEF old
      <4> HIDE DEF p, mid
      <4>3. SameItems(old, old)
        BY DEF SameItems
      <4>4. QED
        BY <1>1, <2>6, <2>10, <3>1, <4>1, <4>2, <4>3
    <3>2. CASE args # <<>>
      <4>1. p = With(s, Append(x.out, e1)) /\ p \in Results
        BY <1>1, <2>9, <3>2, EmitFacts
      <4>2. mid = Read(old, Delta(key, args))
        BY <1>1, <2>9, <4>1, EmittedIs DEF old
      <4>3. mid \in Readers
        BY <4>1, AfterTyped DEF Results
      <4> HIDE DEF p, mid, e1
      <4>4. /\ mid.items = old.items /\ mid.known = old.known /\ mid.index = old.index /\ mid.ends = old.ends
            /\ "call" = "call" => mid.heard = old.heard /\ mid.args = Given(old.args, c, args)
        BY <1>1, <2>3, <2>6, <2>8, <4>2, DeltaSays
      <4>5. /\ Given(old.args, c, args)[c] = args
            /\ \A d \in Calls : d # c => Given(old.args, c, args)[d] = old.args[d]
        BY <2>3, <2>6, <2>10, GivenAll
      <4>6. SameItems(old, mid)
        BY <4>4 DEF SameItems
      <4>7. QED
        BY <2>6, <4>1, <4>3, <4>4, <4>5, <4>6
    <3>3. QED
      BY <3>1, <3>2
  <2> HIDE DEF p
  <2>12. new = Read(mid, Close(key))
    <3>1. Emit(p, e2) = With(p.st, Append(p.out, e2))
      BY <2>9, <2>11, EmitFacts
    <3>2. QED
      BY <2>4, <2>9, <2>11, <3>1, EmittedIs
  <2> HIDE DEF mid, new, e2
  <2>13. SameWords(mid, new) /\ SameItems(mid, new) /\ new.ends = mid.ends
    BY <2>8, <2>11, <2>12, CloseSays
  <2>14. CallBlocks(s, new)
    <3>1. CallBlocks(s, old)
      BY DEF GivenSoFar, old
    <3>2. CallBlocks(s, mid)
      BY <2>11, <3>1, ItemsStay DEF CallBlocks
    <3>3. QED
      BY <2>13, <3>2, ItemsStay DEF CallBlocks
  <2>15. \A d \in Calls : new.args[d] = IF s.toolCalls[d - 1].at < k THEN A.args[d] ELSE <<>>
    <3> TAKE d \in Calls
    <3>1. old.args[d] = IF s.toolCalls[d - 1].at < b THEN A.args[d] ELSE <<>>
      BY DEF GivenSoFar, old
    <3>2. CASE d = c
      <4>1. s.toolCalls[d - 1].at < k
        BY <1>2, <2>2, <2>6, <3>2
      <4>2. QED
        BY <2>11, <2>13, <3>2, <4>1 DEF SameWords
    <3>3. CASE d # c
      <4>1. d - 1 \in Slots /\ d - 1 # i
        BY <1>4, <2>6, <3>3 DEF c
      <4>2. s.toolCalls[d - 1].at < k <=> s.toolCalls[d - 1].at < b
        BY <1>2, <1>3, <2>7, <4>1
      <4>3. QED
        BY <2>11, <2>13, <3>1, <3>3, <4>2 DEF SameWords
    <3>4. QED
      BY <3>2, <3>3
  <2>16. QED
    BY <2>11, <2>13, <2>14, <2>15 DEF GivenSoFar, SameWords, old, new
<1>7. QED
  BY <1>5, <1>6

(* What a client has in the end.                                           *)
Conveys(q, A) == q.heard = A.heard /\ q.known = A.known /\ q.args = A.args

LEMMA CallsStopTold ==
  ASSUME NEW rd \in Readers, NEW r \in Results, NEW A, ClaudeTold(rd, r, A), NEW s0, s0.nextBlock = r.st.nextBlock,
         r.st.block["think"] = NoBlock, r.st.block["text"] = NoBlock
  PROVE  /\ StopCalls(r, s0) \in Results /\ Conveys(After(rd, StopCalls(r, s0).out), A)
         /\ After(rd, StopCalls(r, s0).out).ends = <<>>
<1> DEFINE s == r.st
           n == s.nextBlock
           D == [i \in 0 .. n |-> {x \in Results : GivenSoFar(s, After(rd, x.out), A, i)}]
           q == After(rd, StopCalls(r, s0).out)
<1>1. TellsClaude(rd, r) /\ ClaudeHas(s, After(rd, r.out), A) /\ A \in Accounts /\ Buffers(s, A)
  BY DEF ClaudeTold, ClaudeHas
<1>2. s \in State /\ BlocksApart(s)
  BY <1>1, SeesOpened
<1>3. n \in Nat /\ \A j \in Slots : s.toolCalls[j] \in ToolsUsed /\ s.toolCalls[j].at \in Int
  BY <1>2 DEF State, ToolsUsed, NoTool, NoBlock
<1>4. PICK g : Stopping(g, rd, r, s0)
  BY <1>1, StopCallsRuns
<1> HIDE DEF s
<1>5. /\ g[0] = r /\ g[n] = StopCalls(r, s0) /\ \A i \in 1 .. n : g[i] = StopTool(g[i - 1], i - 1)
      /\ \A i \in 0 .. n : g[i] \in Closing(rd, s, i)
  BY <1>4 DEF Stopping, s
<1>6. \A i \in 0 .. n : g[i] \in Results
  BY <1>5 DEF Closing
<1>7. GivenSoFar(s, After(rd, g[0].out), A, 0)
  <2>1. \A c \in Calls : s.toolCalls[c - 1].at < 0 => A.args[c] = <<>>
    <3> TAKE c \in Calls
    <3> HAVE s.toolCalls[c - 1].at < 0
    <3>1. c - 1 \in Slots /\ c - 1 + 1 = c
      BY CallsAreSlots
    <3>2. s.toolCalls[c - 1] = NoTool
      BY <1>3, <3>1 DEF ToolsUsed
    <3>3. c \notin A.known
      BY <1>1, <3>1, <3>2 DEF Buffers
    <3>4. QED
      BY <1>1, <3>3 DEF Accounts
  <2>2. QED
    BY <1>1, <1>5, <2>1 DEF ClaudeHas, HeardSoFar, GivenSoFar
<1>8. \A i \in 0 .. n : g[i] \in D[i]
  <2> HIDE DEF n
  <2>1. 0 \in 0 .. n /\ g[0] \in D[0]
    BY <1>3, <1>6, <1>7
  <2>2. ASSUME NEW i \in 1 .. n, g[i - 1] \in D[i - 1] PROVE g[i] \in D[i]
    <3>1. i - 1 \in 0 .. n /\ i \in 0 .. n
      BY <1>3
    <3> DEFINE x == g[i - 1]
    <3>2. GivenSoFar(s, After(rd, x.out), A, i - 1) /\ x \in Closing(rd, s, i - 1)
      BY <1>5, <2>2, <3>1
    <3>3. g[i] = StopTool(x, i - 1) /\ i \in 1 .. s.nextBlock
      BY <1>5 DEF n
    <3> HIDE DEF x
    <3>4. GivenSoFar(s, After(rd, StopTool(x, i - 1).out), A, i)
      BY <1>1, <1>2, <3>2, <3>3, GivenInTurn
    <3>5. QED
      BY <1>6, <3>1, <3>3, <3>4
  <2> HIDE DEF D
  <2>3. QED
    BY <1>3, <2>1, <2>2, Kept
<1>9. n \in 0 .. n
  BY <1>3
<1>10. StopCalls(r, s0) \in Results /\ GivenSoFar(s, q, A, n)
  BY <1>5, <1>8, <1>9
<1>11. \A c \in Calls : q.args[c] = A.args[c]
  <2> TAKE c \in Calls
  <2>1. c - 1 \in Slots
    BY CallsAreSlots
  <2>2. s.toolCalls[c - 1].at < n
    BY <1>2, <1>3, <2>1 DEF BlocksApart, NoBlock
  <2>3. QED
    BY <1>10, <2>2 DEF GivenSoFar
<1>12. q.args = A.args
  <2>1. q \in Readers
    BY <1>10, AfterTyped DEF Results
  <2>2. q.args \in [Calls -> Seq(Int)] /\ A.args \in [Calls -> Seq(Int)]
    BY <1>1, <2>1 DEF Readers, Accounts
  <2> HIDE DEF q
  <2>3. QED
    BY <1>11, <2>2
<1>13. QED
  BY <1>10, <1>12 DEF Conveys, GivenSoFar

(* An answer that is finished.                                             *)
Ended(q, reason, A) == Conveys(q, A) /\ q.ends = <<reason>>

LEMMA ClaudeEndTold ==
  ASSUME NEW rd \in Readers, NEW r \in Results, NEW A, ClaudeTold(rd, r, A), NEW reason \in Finishings
  PROVE  /\ reason = "" => ClaudeTold(rd, ClaudeFinish(reason, r), A)
         /\ reason # "" => Ended(After(rd, ClaudeFinish(reason, r).out), reason, A)
<1> DEFINE p == StopBlocks(r)
           q == StopCalls(p, r.st)
           e == End(reason)
           old == After(rd, q.out)
           new == After(rd, ClaudeFinish(reason, r).out)
<1>1. CASE reason = ""
  BY <1>1 DEF ClaudeFinish
<1>2. CASE reason # ""
  <2>1. reason \in Reasons
    BY <1>2 DEF Finishings, Reasons
  <2>2. e \in Events
    BY <2>1, EventFacts DEF Events
  <2>3. ClaudeTold(rd, p, A)
    BY BlocksStopTold
  <2>4. p \in Results /\ r.st.nextBlock = p.st.nextBlock /\ p.st.block["think"] = NoBlock /\ p.st.block["text"] = NoBlock
    BY ClaudeStopsBlocks DEF ClaudeTold, TellsClaude
  <2>5. ClaudeFinish(reason, r) = Emit(q, e)
    BY <1>2 DEF ClaudeFinish, StopCalls
  <2> HIDE DEF p
  <2>6. q \in Results /\ Conveys(old, A) /\ old.ends = <<>>
    BY <2>3, <2>4, CallsStopTold
  <2> HIDE DEF q
  <2>7. old \in Readers /\ new = Read(old, End(reason))
    <3>1. Emit(q, e) = With(q.st, Append(q.out, e))
      BY <2>2, <2>6, EmitFacts
    <3>2. After(rd, With(q.st, Append(q.out, e)).out) = Read(old, e) /\ old \in Readers
      BY <2>2, <2>6, EmittedIs
    <3>3. QED
      BY <2>5, <3>1, <3>2
  <2> HIDE DEF old, new
  <2>8. SameWords(old, new) /\ new.ends = Append(old.ends, reason)
    BY <2>1, <2>7, EndSays
  <2>9. Append(<<>>, reason) = <<reason>>
    OBVIOUS
  <2>10. QED
    BY <1>2, <2>6, <2>8, <2>9 DEF Ended, Conveys, SameWords, new
<1>3. QED
  BY <1>1, <1>2

LEMMA ClaudeTextsTold ==
  ASSUME NEW rd \in Readers, NEW r \in Results, InClaude(r.st, After(rd, r.out)),
         NEW A, ClaudeHas(r.st, After(rd, r.out), A), NEW c, c.think \in Nat, c.text \in Nat
  PROVE  /\ ClaudeTold(rd, ClaudeHearsTexts(r, c), AddPiece(AddPiece(A, "think", c.think), "text", c.text))
         /\ ClaudeHearsTexts(r, c) \in Results
<1> DEFINE o == MessageStart(r)
           n == c.think
           m == c.text
           p == BlockDelta("think", "text", n, o)
           q == BlockDelta("text", "think", m, p)
           B == AddPiece(A, "think", n)
<1>1. "think" \in {"think", "text"} /\ "text" \in {"think", "text"} /\ n \in Nat /\ m \in Nat
  OBVIOUS
<1>2. ClaudeTold(rd, o, A) /\ o \in Results
  BY ClaudeBeginTold DEF ClaudeTold, TellsClaude
<1> HIDE DEF o, n, m
<1>3. ClaudeTold(rd, p, B) /\ p \in Results
  BY <1>1, <1>2, BlockDeltaTold DEF ClaudeTold, TellsClaude
<1> HIDE DEF p, B
<1>4. ClaudeTold(rd, q, AddPiece(B, "text", m)) /\ q \in Results
  BY <1>1, <1>3, BlockDeltaTold DEF ClaudeTold, TellsClaude
<1>5. QED
  BY <1>4 DEF ClaudeHearsTexts, o, p, n, m, B

(* A chunk that the client can take.                                       *)
Takeable(A, c) == c \in ChunksSaid /\ c.think \in Nat /\ FitIn(A, c.tools)

LEMMA ClaudeIsTold ==
  ASSUME NEW rd \in Readers, NEW r \in Results, InClaude(r.st, After(rd, r.out)),
         NEW A, ClaudeHas(r.st, After(rd, r.out), A), NEW c, Takeable(A, c), c.text \in Nat,
         NEW q, q = OpenAIToClaude(r, c)
  PROVE  /\ c.finish = "" => ClaudeHas(q.st, After(rd, q.out), AddChunk(A, c))
         /\ c.finish # "" => Ended(After(rd, q.out), c.finish, AddChunk(A, c))
<1> DEFINE p == ClaudeHearsTexts(r, c)
           B == AddPiece(AddPiece(A, "think", c.think), "text", c.text)
           C == AddCalls(B, c.tools)
           o == TakeCalls(p, c.tools)
           f == ClaudeFinish(c.finish, o)
<1>1. c.think \in Nat /\ c.finish \in Finishings /\ FitIn(A, c.tools) /\ A \in Accounts
  BY DEF Takeable, ChunksSaid, ClaudeHas
<1>2. q = f
  BY DEF OpenAIToClaude, ClaudeHearsTexts, TakeCalls, TakeCall, Fold
<1>3. ClaudeTold(rd, p, B) /\ p \in Results
  BY <1>1, ClaudeTextsTold
<1>4. FitIn(B, c.tools)
  <2> DEFINE E == AddPiece(A, "think", c.think)
  <2>1. c.think \in Int /\ c.text \in Int /\ "think" \in Kinds /\ "text" \in Kinds
    BY <1>1 DEF Kinds
  <2>2. E \in Accounts /\ E.known = A.known
    BY <1>1, <2>1, PieceAdded
  <2> HIDE DEF E
  <2>3. AddPiece(E, "text", c.text).known = E.known
    BY <2>1, <2>2, PieceAdded
  <2>4. B.known = A.known
    BY <2>2, <2>3 DEF E
  <2>5. QED
    BY <1>1, <2>4 DEF FitIn, FitsIn
<1> HIDE DEF p, B
<1>5. ClaudeTold(rd, o, C) /\ o \in Results
  BY <1>3, <1>4, CallsTakenTold
<1> HIDE DEF o, C
<1>6. /\ c.finish = "" => ClaudeTold(rd, f, C)
      /\ c.finish # "" => Ended(After(rd, f.out), c.finish, C)
  BY <1>1, <1>5, ClaudeEndTold
<1>7. C = AddChunk(A, c)
  BY DEF C, B, AddChunk
<1>8. QED
  BY <1>2, <1>6, <1>7 DEF ClaudeTold

LEMMA KiroIsTold ==
  ASSUME NEW rd \in Readers, NEW r \in Results, InClaude(r.st, After(rd, r.out)),
         NEW A, ClaudeHas(r.st, After(rd, r.out), A), NEW c, Takeable(A, c), c.text \in Nat, NamesAnew(A, c.tools),
         NEW q, q = KiroToClaude(r, c)
  PROVE  /\ c.finish = "" => ClaudeHas(q.st, After(rd, q.out), AddChunk(A, c))
         /\ c.finish # "" => Ended(After(rd, q.out), c.finish, AddChunk(A, c))
<1> DEFINE p == ClaudeHearsTexts(r, c)
           B == AddPiece(AddPiece(A, "think", c.think), "text", c.text)
           C == AddCalls(B, c.tools)
           o == TakeKiroCalls(p, c.tools)
           f == ClaudeFinish(c.finish, o)
<1>1. c.think \in Nat /\ c.finish \in Finishings /\ FitIn(A, c.tools) /\ A \in Accounts
  BY DEF Takeable, ChunksSaid, ClaudeHas
<1>2. q = f
  BY DEF KiroToClaude, ClaudeHearsTexts, TakeKiroCalls, TakeKiroCall, Fold
<1>3. ClaudeTold(rd, p, B) /\ p \in Results
  BY <1>1, ClaudeTextsTold
<1>4. FitIn(B, c.tools) /\ NamesAnew(B, c.tools)
  <2> DEFINE E == AddPiece(A, "think", c.think)
  <2>1. c.think \in Int /\ c.text \in Int /\ "think" \in Kinds /\ "text" \in Kinds
    BY <1>1 DEF Kinds
  <2>2. E \in Accounts /\ E.known = A.known
    BY <1>1, <2>1, PieceAdded
  <2> HIDE DEF E
  <2>3. AddPiece(E, "text", c.text).known = E.known
    BY <2>1, <2>2, PieceAdded
  <2>4. B.known = A.known
    BY <2>2, <2>3 DEF E
  <2>5. QED
    BY <1>1, <2>4 DEF FitIn, FitsIn, NamesAnew
<1> HIDE DEF p, B
<1>5. ClaudeTold(rd, o, C) /\ o \in Results
  BY <1>3, <1>4, KiroCallsTakenTold
<1> HIDE DEF o, C
<1>6. /\ c.finish = "" => ClaudeTold(rd, f, C)
      /\ c.finish # "" => Ended(After(rd, f.out), c.finish, C)
  BY <1>1, <1>5, ClaudeEndTold
<1>7. C = AddChunk(A, c)
  BY DEF C, B, AddChunk
<1>8. QED
  BY <1>2, <1>6, <1>7 DEF ClaudeTold

-----------------------------------------------------------------------------
(* What a client of the Responses API has been told                        *)

ItemsTold(s, q, A) ==
  /\ s.message # "none" => ItemIs(q, Message, "text", Nothing)
  /\ s.reasoning # "none" => ItemIs(q, Reasoning, "think", Nothing)
  /\ \A i \in Slots : i \in s.funcAdded <=> i + 1 \in A.known
  /\ \A i \in Slots : i \in s.funcAdded => ItemIs(q, Function(i + 1), "call", i + 1)

ResponsesHas(s, q, A) == A \in Accounts /\ q.ends = <<>> /\ Conveys(q, A) /\ ItemsTold(s, q, A)

LEMMA ResponsesStay ==
  ASSUME NEW s, NEW q, NEW A, ResponsesHas(s, q, A), NEW t, NEW p, SameWords(q, p), SameItems(q, p), p.ends = q.ends,
         t.funcAdded = s.funcAdded, t.message # "none" => s.message # "none",
         t.reasoning # "none" => s.reasoning # "none"
  PROVE  ResponsesHas(t, p, A)
<1>1. Conveys(p, A)
  BY DEF ResponsesHas, Conveys, SameWords
<1>2. ItemsTold(t, p, A)
  BY ItemsStay DEF ResponsesHas, ItemsTold
<1>3. QED
  BY <1>1, <1>2 DEF ResponsesHas

ResponsesTold(rd, r, A) == r \in Results /\ TellsResponses(rd, r) /\ ResponsesHas(r.st, After(rd, r.out), A)

LEMMA ResponsesBeginTold ==
  ASSUME NEW rd \in Readers, NEW r \in Results, NEW A, InResponses(r.st, After(rd, r.out)),
         ResponsesHas(r.st, After(rd, r.out), A)
  PROVE  ResponsesTold(rd, MessageStart(r), A) /\ MessageStart(r).st.inThinking = r.st.inThinking
<1> DEFINE q == MessageStart(r)
           old == After(rd, r.out)
           new == After(rd, q.out)
<1>1. TellsResponses(rd, q) /\ q \in Results /\ q.st.inThinking = r.st.inThinking
  BY ResponsesBegun DEF TellsResponses
<1>2. SameWords(old, new) /\ new.items = old.items /\ new.ends = old.ends /\ q.st = [r.st EXCEPT !.begun = TRUE]
  BY BegunSays
<1>3. r.st \in State
  BY DEF Results
<1>4. q.st.message = r.st.message /\ q.st.reasoning = r.st.reasoning /\ q.st.funcAdded = r.st.funcAdded
  BY <1>2, <1>3 DEF State
<1>5. SameItems(old, new)
  BY <1>2 DEF SameItems
<1> HIDE DEF q, old, new
<1>6. ResponsesHas(q.st, new, A)
  BY <1>2, <1>4, <1>5, ResponsesStay DEF old
<1>7. QED
  BY <1>1, <1>6 DEF ResponsesTold, q, new

LEMMA ReasoningStartTold ==
  ASSUME NEW rd \in Readers, NEW r, NEW A, ResponsesTold(rd, r, A)
  PROVE  /\ ResponsesTold(rd, StartReasoning(r), A) /\ StartReasoning(r).st.inThinking = r.st.inThinking
         /\ Reasoning \in Known(StartReasoning(r).st) /\ StartReasoning(r).st.reasoning # "none"
<1> DEFINE q == StartReasoning(r)
           e == Open(Reasoning, "think", Nothing)
           s == [r.st EXCEPT !.reasoning = "open"]
           old == After(rd, r.out)
           new == After(rd, q.out)
<1>1. r \in Results /\ TellsResponses(rd, r) /\ ResponsesHas(r.st, old, A)
  BY DEF ResponsesTold
<1>2. TellsResponses(rd, q) /\ q \in Results /\ Reasoning \in Known(q.st) /\ q.st.reasoning # "none"
  BY <1>1, ReasoningStarts DEF TellsResponses
<1>3. CASE r.st.reasoning # "none"
  <2>1. q = r
    BY <1>3 DEF StartReasoning
  <2>2. QED
    BY <1>2, <2>1
<1>4. CASE r.st.reasoning = "none"
  <2>1. old \in Readers /\ r.st \in State /\ DOMAIN old.items = Known(r.st) /\ r.st.funcAdded \in SUBSET Slots
    BY <1>1, ResponsesHeard DEF Sees
  <2>2. e \in Events /\ Reasoning \in Keys /\ "think" \in Kinds /\ Nothing \in Int
    BY OutputItems, EventFacts DEF Events, Kinds, Nothing
  <2>3. q = With(s, Append(r.out, e))
    <3>1. q = [With(r.st, Append(r.out, e)) EXCEPT !.st.reasoning = "open"]
      BY <1>1, <1>4, <2>2, EmitFacts DEF StartReasoning
    <3>2. QED
      BY <3>1 DEF With
  <2>4. s.message = r.st.message /\ s.funcAdded = r.st.funcAdded /\ s.inThinking = r.st.inThinking
    BY <2>1 DEF State
  <2>5. Reasoning \notin DOMAIN old.items
    BY <1>4, <2>1, OutputItems DEF Known
  <2>6. q.st = s /\ new = Read(old, e)
    <3>1. After(rd, With(s, Append(r.out, e)).out) = Read(old, e)
      BY <1>1, <2>2, EmittedIs
    <3>2. With(s, Append(r.out, e)).st = s
      BY DEF With
    <3>3. QED
      BY <2>3, <3>1, <3>2
  <2> HIDE DEF q, s, old, new
  <2> DEFINE k == Reasoning
             kind == "think"
             c == Nothing
  <2>7. k \in Keys /\ kind \in Kinds /\ c \in Int /\ k \notin DOMAIN old.items /\ new = Read(old, Open(k, kind, c))
    BY <2>2, <2>5, <2>6 DEF e
  <2> HIDE DEF k, kind, c
  <2>8. /\ SameItems(old, new) /\ ItemIs(new, k, kind, c)
        /\ new.heard = old.heard /\ new.args = old.args /\ new.index = old.index /\ new.ends = old.ends
        /\ new.known = IF kind = "call" THEN old.known \cup {c} ELSE old.known
    BY <2>1, <2>7, OpenSays DEF OpensIt
  <2>9. new.known = old.known /\ ItemIs(new, Reasoning, "think", Nothing)
    BY <2>8 DEF k, kind, c
  <2>10. ItemsTold(s, new, A)
    BY <1>1, <2>4, <2>8, <2>9, ItemsStay DEF ResponsesHas, ItemsTold
  <2>11. ResponsesHas(q.st, new, A)
    BY <1>1, <2>6, <2>8, <2>9, <2>10 DEF ResponsesHas, Conveys
  <2>12. QED
    BY <1>2, <2>4, <2>6, <2>11 DEF ResponsesTold, q, new
<1>5. QED
  BY <1>3, <1>4

(* A piece of text or thinking in its item.                                *)
LEMMA ItemSaysTold ==
  ASSUME NEW rd \in Readers, NEW r, NEW A, ResponsesTold(rd, r, A), NEW k \in Keys, k \in Known(r.st), k \in Resumable,
         NEW kind \in {"think", "text"}, ItemIs(After(rd, r.out), k, kind, Nothing), NEW n \in Nat, n > 0
  PROVE  ResponsesTold(rd, Emit(r, Delta(k, <<n>>)), AddPiece(A, kind, n)) /\ Emit(r, Delta(k, <<n>>)).st = r.st
<1> DEFINE pieces == <<n>>
           e == Delta(k, pieces)
           q == Emit(r, e)
           old == After(rd, r.out)
           new == After(rd, q.out)
           B == AddPiece(A, kind, n)
<1>1. r \in Results /\ TellsResponses(rd, r) /\ ResponsesHas(r.st, old, A) /\ A \in Accounts
  BY DEF ResponsesTold, ResponsesHas
<1>2. TellsResponses(rd, q) /\ q \in Results /\ q.st = r.st
  BY <1>1, ResponsesDelta DEF TellsResponses
<1>3. pieces \in Seq(Int) /\ n \in Int /\ kind \in Kinds /\ kind # "call"
  BY DEF Kinds
<1> HIDE DEF pieces
<1>4. e \in Events
  BY <1>3, EventFacts DEF Events
<1>5. old \in Readers /\ new = Read(old, Delta(k, pieces))
  <2>1. q = With(r.st, Append(r.out, e))
    BY <1>1, <1>4, EmitFacts
  <2>2. QED
    BY <1>1, <1>4, <2>1, EmittedIs
<1> HIDE DEF e, q, old, new
<1>6. ItemIs(old, k, kind, Nothing)
  BY DEF old
<1>7. /\ new.items = old.items /\ new.known = old.known /\ new.ends = old.ends
      /\ new.heard = old.heard \o Hear(kind, pieces) /\ new.args = old.args
  BY <1>3, <1>5, <1>6, DeltaSays
<1>8. /\ B \in Accounts /\ B.known = A.known /\ B.args = A.args
      /\ B.heard = IF n > 0 THEN Append(A.heard, [kind |-> kind, piece |-> n]) ELSE A.heard
  BY <1>1, <1>3, PieceAdded
<1>9. old.heard = A.heard /\ old.heard \in Heards
  BY <1>1, <1>5 DEF ResponsesHas, Conveys, Readers
<1>10. old.heard \o Hear(kind, pieces) = Append(old.heard, [kind |-> kind, piece |-> n])
  BY <1>3, <1>9, HearOne DEF pieces
<1> HIDE DEF B
<1>11. Conveys(new, B)
  BY <1>1, <1>7, <1>8, <1>9, <1>10 DEF ResponsesHas, Conveys
<1>12. ItemsTold(r.st, new, B)
  BY <1>1, <1>7, <1>8 DEF ResponsesHas, ItemsTold, ItemIs
<1>13. QED
  BY <1>1, <1>2, <1>7, <1>8, <1>11, <1>12 DEF ResponsesTold, ResponsesHas, q, new, e, pieces, B

LEMMA ReasoningDeltaTold ==
  ASSUME NEW rd \in Readers, NEW r, NEW A, ResponsesTold(rd, r, A), NEW n \in Nat
  PROVE  /\ ResponsesTold(rd, ReasoningDelta(n, r), AddPiece(A, "think", n))
         /\ ReasoningDelta(n, r).st.inThinking = r.st.inThinking
<1> DEFINE p == StartReasoning(r)
<1>1. CASE n = Nothing
  <2>1. ReasoningDelta(n, r) = r /\ AddPiece(A, "think", n) = A
    BY <1>1 DEF ReasoningDelta, AddPiece, Nothing
  <2>2. QED
    BY <2>1
<1>2. CASE n # Nothing
  <2>1. /\ ResponsesTold(rd, p, A) /\ p.st.inThinking = r.st.inThinking
        /\ Reasoning \in Known(p.st) /\ p.st.reasoning # "none"
    BY ReasoningStartTold
  <2>2. ReasoningDelta(n, r) = Emit(p, Delta(Reasoning, <<n>>))
    BY <1>2 DEF ReasoningDelta
  <2> HIDE DEF p
  <2>3. Reasoning \in Keys /\ n > 0 /\ Reasoning \in Resumable
    BY <1>2, OutputItems DEF Nothing, Resumable
  <2>4. ItemIs(After(rd, p.out), Reasoning, "think", Nothing)
    BY <2>1 DEF ResponsesTold, ResponsesHas, ItemsTold
  <2>5. /\ ResponsesTold(rd, Emit(p, Delta(Reasoning, <<n>>)), AddPiece(A, "think", n))
        /\ Emit(p, Delta(Reasoning, <<n>>)).st = p.st
    BY <2>1, <2>3, <2>4, ItemSaysTold
  <2>6. QED
    BY <2>1, <2>2, <2>5
<1>3. QED
  BY <1>1, <1>2

LEMMA ReasoningStopTold ==
  ASSUME NEW rd \in Readers, NEW r \in Results, FitsResponses(rd, r), NEW A, ResponsesHas(r.st, After(rd, r.out), A)
  PROVE  /\ ResponsesHas(CloseReasoning(r).st, After(rd, CloseReasoning(r).out), A)
         /\ CloseReasoning(r).st.inThinking = r.st.inThinking
<1> DEFINE q == CloseReasoning(r)
           e == Close(Reasoning)
           s == [r.st EXCEPT !.reasoning = "done"]
           old == After(rd, r.out)
           new == After(rd, q.out)
<1>1. CASE r.st.reasoning # "open"
  BY <1>1 DEF CloseReasoning
<1>2. CASE r.st.reasoning = "open"
  <2>1. r.st \in State
    BY DEF Results
  <2>2. e \in Events /\ Reasoning \in Keys
    BY OutputItems, EventFacts DEF Events
  <2>3. q = With(s, Append(r.out, e))
    <3>1. q = [With(r.st, Append(r.out, e)) EXCEPT !.st.reasoning = "done"]
      BY <1>2, <2>2, EmitFacts DEF CloseReasoning
    <3>2. QED
      BY <3>1 DEF With
  <2>4. s.message = r.st.message /\ s.funcAdded = r.st.funcAdded /\ s.inThinking = r.st.inThinking
    BY <2>1 DEF State
  <2>5. q.st = s /\ old \in Readers /\ new = Read(old, Close(Reasoning))
    BY <2>2, <2>3, EmittedIs DEF With
  <2> HIDE DEF q, s, old, new
  <2>6. SameWords(old, new) /\ SameItems(old, new) /\ new.ends = old.ends
    BY <2>2, <2>5, CloseSays
  <2>7. ResponsesHas(q.st, new, A)
    BY <1>2, <2>4, <2>5, <2>6, ResponsesStay DEF old
  <2>8. QED
    BY <2>4, <2>5, <2>7 DEF q, new
<1>3. QED
  BY <1>1, <1>2

LEMMA MessageStopTold ==
  ASSUME NEW rd \in Readers, NEW r \in Results, FitsResponses(rd, r), NEW A, ResponsesHas(r.st, After(rd, r.out), A)
  PROVE  /\ ResponsesHas(CloseMessage(r).st, After(rd, CloseMessage(r).out), A)
         /\ CloseMessage(r).st.inThinking = r.st.inThinking
<1> DEFINE q == CloseMessage(r)
           e == Close(Message)
           s == [r.st EXCEPT !.message = "done"]
           old == After(rd, r.out)
           new == After(rd, q.out)
<1>1. CASE r.st.message # "open"
  BY <1>1 DEF CloseMessage
<1>2. CASE r.st.message = "open"
  <2>1. r.st \in State
    BY DEF Results
  <2>2. e \in Events /\ Message \in Keys
    BY OutputItems, EventFacts DEF Events
  <2>3. q = With(s, Append(r.out, e))
    <3>1. q = [With(r.st, Append(r.out, e)) EXCEPT !.st.message = "done"]
      BY <1>2, <2>2, EmitFacts DEF CloseMessage
    <3>2. QED
      BY <3>1 DEF With
  <2>4. s.reasoning = r.st.reasoning /\ s.funcAdded = r.st.funcAdded /\ s.inThinking = r.st.inThinking
    BY <2>1 DEF State
  <2>5. q.st = s /\ old \in Readers /\ new = Read(old, Close(Message))
    BY <2>2, <2>3, EmittedIs DEF With
  <2> HIDE DEF q, s, old, new
  <2>6. SameWords(old, new) /\ SameItems(old, new) /\ new.ends = old.ends
    BY <2>2, <2>5, CloseSays
  <2>7. ResponsesHas(q.st, new, A)
    BY <1>2, <2>4, <2>5, <2>6, ResponsesStay DEF old
  <2>8. QED
    BY <2>4, <2>5, <2>7 DEF q, new
<1>3. QED
  BY <1>1, <1>2

LEMMA MessageStartTold ==
  ASSUME NEW rd \in Readers, NEW r, NEW A, ResponsesTold(rd, r, A)
  PROVE  /\ ResponsesTold(rd, OpenMessage(r), A) /\ OpenMessage(r).st.inThinking = r.st.inThinking
         /\ Message \in Known(OpenMessage(r).st) /\ OpenMessage(r).st.message # "none"
<1> DEFINE q == OpenMessage(r)
           e == Open(Message, "text", Nothing)
           s == [r.st EXCEPT !.message = "open"]
           old == After(rd, r.out)
           new == After(rd, q.out)
<1>1. r \in Results /\ TellsResponses(rd, r) /\ ResponsesHas(r.st, old, A)
  BY DEF ResponsesTold
<1>2. TellsResponses(rd, q) /\ q \in Results /\ Message \in Known(q.st) /\ q.st.message # "none"
  BY <1>1, MessageOpens DEF TellsResponses, OpenMessage
<1>3. CASE r.st.message # "none"
  <2>1. q = r
    BY <1>3 DEF OpenMessage
  <2>2. QED
    BY <1>2, <2>1
<1>4. CASE r.st.message = "none"
  <2>1. old \in Readers /\ r.st \in State /\ DOMAIN old.items = Known(r.st) /\ r.st.funcAdded \in SUBSET Slots
    BY <1>1, ResponsesHeard DEF Sees
  <2>2. e \in Events /\ Message \in Keys /\ "text" \in Kinds /\ Nothing \in Int
    BY OutputItems, EventFacts DEF Events, Kinds, Nothing
  <2>3. q = With(s, Append(r.out, e))
    <3>1. q = [With(r.st, Append(r.out, e)) EXCEPT !.st.message = "open"]
      BY <1>1, <1>4, <2>2, EmitFacts DEF OpenMessage
    <3>2. QED
      BY <3>1 DEF With
  <2>4. s.reasoning = r.st.reasoning /\ s.funcAdded = r.st.funcAdded /\ s.inThinking = r.st.inThinking
    BY <2>1 DEF State
  <2>5. Message \notin DOMAIN old.items
    BY <1>4, <2>1, OutputItems DEF Known
  <2>6. q.st = s /\ new = Read(old, e)
    <3>1. After(rd, With(s, Append(r.out, e)).out) = Read(old, e)
      BY <1>1, <2>2, EmittedIs
    <3>2. With(s, Append(r.out, e)).st = s
      BY DEF With
    <3>3. QED
      BY <2>3, <3>1, <3>2
  <2> HIDE DEF q, s, old, new
  <2> DEFINE k == Message
             kind == "text"
             c == Nothing
  <2>7. k \in Keys /\ kind \in Kinds /\ c \in Int /\ k \notin DOMAIN old.items /\ new = Read(old, Open(k, kind, c))
    BY <2>2, <2>5, <2>6 DEF e
  <2> HIDE DEF k, kind, c
  <2>8. /\ SameItems(old, new) /\ ItemIs(new, k, kind, c)
        /\ new.heard = old.heard /\ new.args = old.args /\ new.index = old.index /\ new.ends = old.ends
        /\ new.known = IF kind = "call" THEN old.known \cup {c} ELSE old.known
    BY <2>1, <2>7, OpenSays DEF OpensIt
  <2>9. new.known = old.known /\ ItemIs(new, Message, "text", Nothing)
    BY <2>8 DEF k, kind, c
  <2>10. ItemsTold(s, new, A)
    BY <1>1, <2>4, <2>8, <2>9, ItemsStay DEF ResponsesHas, ItemsTold
  <2>11. ResponsesHas(q.st, new, A)
    BY <1>1, <2>6, <2>8, <2>9, <2>10 DEF ResponsesHas, Conveys
  <2>12. QED
    BY <1>2, <2>4, <2>6, <2>11 DEF ResponsesTold, q, new
<1>5. QED
  BY <1>3, <1>4

LEMMA TextIsToldOf ==
  ASSUME NEW rd \in Readers, NEW r, NEW A, ResponsesTold(rd, r, A), NEW n \in Nat, n > 0
  PROVE  /\ ResponsesTold(rd, EmitTextContent(n, r), AddPiece(A, "text", n))
         /\ EmitTextContent(n, r).st.inThinking = r.st.inThinking
<1> DEFINE p == OpenMessage(r)
<1>1. /\ ResponsesTold(rd, p, A) /\ p.st.inThinking = r.st.inThinking
      /\ Message \in Known(p.st) /\ p.st.message # "none"
  BY MessageStartTold
<1>2. EmitTextContent(n, r) = Emit(p, Delta(Message, <<n>>))
  BY DEF EmitTextContent, OpenMessage
<1> HIDE DEF p
<1>3. Message \in Keys /\ Message \in Resumable
  BY OutputItems DEF Resumable
<1>4. ItemIs(After(rd, p.out), Message, "text", Nothing)
  BY <1>1 DEF ResponsesTold, ResponsesHas, ItemsTold
<1>5. /\ ResponsesTold(rd, Emit(p, Delta(Message, <<n>>)), AddPiece(A, "text", n))
      /\ Emit(p, Delta(Message, <<n>>)).st = p.st
  BY <1>1, <1>3, <1>4, ItemSaysTold
<1>6. QED
  BY <1>1, <1>2, <1>5

(* The state is another only in whether what is said are thoughts.         *)
LEMMA ThinkingTold ==
  ASSUME NEW rd \in Readers, NEW r, NEW A, ResponsesTold(rd, r, A), NEW b \in BOOLEAN, b => r.st.reasoning # "none",
         NEW q, q = [r EXCEPT !.st.inThinking = b]
  PROVE  ResponsesTold(rd, q, A) /\ q.st.inThinking = b
<1>1. r \in Results /\ TellsResponses(rd, r) /\ ResponsesHas(r.st, After(rd, r.out), A) /\ r.st \in State
  BY DEF ResponsesTold, Results
<1>2. TellsResponses(rd, q) /\ q \in Results
  BY <1>1, ThinkingIsSet DEF TellsResponses
<1>3. q.st = [r.st EXCEPT !.inThinking = b] /\ q.out = r.out
  BY <1>1 DEF Results
<1>4. /\ q.st.message = r.st.message /\ q.st.reasoning = r.st.reasoning /\ q.st.funcAdded = r.st.funcAdded
      /\ q.st.inThinking = b
  BY <1>1, <1>3 DEF State
<1>5. ResponsesHas(q.st, After(rd, q.out), A)
  <2>1. SameWords(After(rd, r.out), After(rd, r.out)) /\ SameItems(After(rd, r.out), After(rd, r.out))
    BY DEF SameWords, SameItems
  <2>2. QED
    BY <1>1, <1>3, <1>4, <2>1, ResponsesStay
<1>6. QED
  BY <1>2, <1>4, <1>5 DEF ResponsesTold

(* The content of a chunk, which is thought between the tags.              *)
LEMMA ContentToldOf ==
  ASSUME NEW rd \in Readers, NEW r, NEW A, ResponsesTold(rd, r, A),
         NEW n \in Int, n >= CloseTag, n > 0 => ~ r.st.inThinking, NEW q, q = EmitContent(n, r)
  PROVE  /\ ResponsesTold(rd, q, AddPiece(A, "text", n))
         /\ q.st.inThinking => n = OpenTag \/ (r.st.inThinking /\ n # CloseTag)
<1>0. r \in Results /\ TellsResponses(rd, r) /\ ResponsesHas(r.st, After(rd, r.out), A) /\ FitsResponses(rd, r)
  BY DEF ResponsesTold, FitsResponses, TellsResponses
<1>1. CASE n = Nothing
  <2>1. q = r /\ AddPiece(A, "text", n) = A /\ n # CloseTag
    BY <1>1 DEF EmitContent, OpenTag, CloseTag, Nothing, AddPiece
  <2>2. QED
    BY <2>1
<1>2. CASE n = OpenTag
  <2> DEFINE p == StartReasoning(r)
  <2>1. ResponsesTold(rd, p, A) /\ p.st.reasoning # "none"
    BY ReasoningStartTold
  <2>2. q = [p EXCEPT !.st.inThinking = TRUE] /\ AddPiece(A, "text", n) = A
    BY <1>2 DEF EmitContent, OpenTag, CloseTag, Nothing, AddPiece
  <2> HIDE DEF p
  <2>3. ResponsesTold(rd, q, A)
    BY <2>1, <2>2, ThinkingTold
  <2>4. QED
    BY <1>2, <2>2, <2>3
<1>3. CASE n = CloseTag
  <2> DEFINE p == CloseReasoning(r)
  <2>1. FitsResponses(rd, p) /\ p.st.begun = r.st.begun
    BY <1>0, ReasoningStops
  <2>2. ResponsesHas(p.st, After(rd, p.out), A)
    BY <1>0, ReasoningStopTold
  <2>3. q = [p EXCEPT !.st.inThinking = FALSE] /\ AddPiece(A, "text", n) = A
    BY <1>3 DEF EmitContent, OpenTag, CloseTag, Nothing, AddPiece
  <2>4. r.st.begun
    BY <1>0 DEF TellsResponses
  <2> HIDE DEF p
  <2>5. ResponsesTold(rd, p, A)
    BY <2>1, <2>2, <2>4 DEF ResponsesTold, FitsResponses, TellsResponses
  <2>6. ResponsesTold(rd, q, A) /\ q.st.inThinking = FALSE
    BY <2>3, <2>5, ThinkingTold, ZenonT(60)
  <2>7. QED
    BY <2>3, <2>6
<1>4. CASE n > 0
  <2>1. q = EmitTextContent(n, r)
    BY <1>4 DEF EmitContent, OpenTag, CloseTag, Nothing
  <2>2. n \in Nat /\ n # CloseTag
    BY <1>4 DEF CloseTag
  <2>3. /\ ResponsesTold(rd, EmitTextContent(n, r), AddPiece(A, "text", n))
        /\ EmitTextContent(n, r).st.inThinking = r.st.inThinking
    BY <1>4, <2>2, TextIsToldOf
  <2>4. QED
    BY <2>1, <2>2, <2>3
<1>5. QED
  BY <1>1, <1>2, <1>3, <1>4 DEF OpenTag, CloseTag, Nothing

(* The item of an entry's call.                                            *)
LEMMA CallItemTold ==
  ASSUME NEW rd \in Readers, NEW r, NEW A, ResponsesTold(rd, r, A), NEW t, FitsIn(A, t)
  PROVE  /\ ResponsesTold(rd, AddItem(r, t), Named(A, t)) /\ t.at \in AddItem(r, t).st.funcAdded
         /\ AddItem(r, t).st.inThinking = r.st.inThinking
<1> DEFINE c == CallOf(r, t)
           k == Function(c)
           kind == "call"
           e == Open(k, kind, c)
           q == AddItem(r, t)
           B == Named(A, t)
           ids == [r.st.funcIds EXCEPT ![t.at] = c]
           added == r.st.funcAdded \cup {t.at}
           s1 == [r.st EXCEPT !.funcIds = ids]
           s == [s1 EXCEPT !.funcAdded = added]
           old == After(rd, r.out)
           new == After(rd, q.out)
<1>1. r \in Results /\ TellsResponses(rd, r) /\ ResponsesHas(r.st, old, A) /\ A \in Accounts
  BY DEF ResponsesTold, ResponsesHas
<1>2. t \in ToolEntries /\ Numbered(t) /\ t.at \in Slots /\ t.at \in Nat /\ t.id \in Nat
  BY TranslatorAssumption DEF FitsIn, ToolEntries, Slots
<1>3. /\ TellsResponses(rd, q) /\ q \in Results /\ q.st.funcAdded \in SUBSET Slots /\ c \in {Nothing, t.at + 1}
  BY <1>1, <1>2, ItemIsAdded
<1>4. /\ B \in Accounts /\ B.heard = A.heard /\ B.args = A.args /\ B.known = A.known \cup {t.at + 1}
      /\ t.at + 1 \in A.known => B = A
  BY <1>1, NamedFacts
<1>5. t.at \in r.st.funcAdded <=> t.at + 1 \in A.known
  BY <1>1, <1>2 DEF ResponsesHas, ItemsTold
<1>6. /\ old \in Readers /\ r.st \in State /\ r.st.funcAdded \in SUBSET Slots /\ Orderly(r.st)
      /\ DOMAIN old.items = Known(r.st)
  BY <1>1, ResponsesHeard DEF Sees
<1>7. CASE t.at \in r.st.funcAdded
  <2>1. q = r /\ B = A
    BY <1>4, <1>5, <1>7 DEF AddItem
  <2>2. QED
    BY <1>7, <2>1
<1>8. CASE ~ (t.at \in r.st.funcAdded)
  <2>1. t.id # Nothing /\ c = t.id /\ c = t.at + 1 /\ c # Nothing /\ c \in Int
    <3>1. t.id # Nothing
      BY <1>5, <1>8 DEF FitsIn
    <3>2. t.id = t.at + 1
      BY <1>2, <3>1 DEF Numbered
    <3>3. QED
      BY <1>2, <3>1, <3>2 DEF CallOf
  <2>2. q = [Emit(r, e) EXCEPT !.st.funcIds[t.at] = c, !.st.funcAdded = @ \cup {t.at}]
    BY <1>8, <2>1 DEF AddItem
  <2> HIDE DEF c, q, B, old, new
  <2>3. k \in Keys /\ kind \in Kinds
    BY <2>1, OutputItems DEF Kinds
  <2>4. k \notin DOMAIN old.items
    BY <1>2, <1>6, <1>8, <2>1, OutputItems DEF Known
  <2> HIDE DEF k, kind
  <2>5. e \in Events
    BY <2>1, <2>3, EventFacts DEF Events
  <2> HIDE DEF e
  <2>6. q = With(s, Append(r.out, e))
    <3>1. q = [With(r.st, Append(r.out, e)) EXCEPT !.st.funcIds[t.at] = c, !.st.funcAdded = @ \cup {t.at}]
      BY <1>1, <2>2, <2>5, EmitFacts
    <3>2. QED
      BY <3>1 DEF With
  <2>7. ids \in [Slots -> Int] /\ added \in SUBSET Slots
    <3>1. r.st.funcIds \in [Slots -> Int]
      BY <1>6 DEF State
    <3>2. QED
      BY <1>2, <1>6, <2>1, <3>1
  <2> HIDE DEF ids, added
  <2>8. /\ s.message = r.st.message /\ s.reasoning = r.st.reasoning /\ s.funcAdded = added
        /\ s.inThinking = r.st.inThinking
    <3>1. /\ s1 \in State /\ s1.message = r.st.message /\ s1.reasoning = r.st.reasoning
          /\ s1.inThinking = r.st.inThinking
      BY <1>6, <2>7 DEF State
    <3> HIDE DEF s1
    <3>2. QED
      BY <3>1, <2>7 DEF State
  <2> HIDE DEF s
  <2>9. q.st = s /\ new = Read(old, e)
    <3>1. After(rd, With(s, Append(r.out, e)).out) = Read(old, e)
      BY <1>1, <2>5, EmittedIs DEF old
    <3>2. With(s, Append(r.out, e)).st = s
      BY DEF With
    <3>3. QED
      BY <2>6, <3>1, <3>2 DEF new
  <2>10. /\ SameItems(old, new) /\ ItemIs(new, k, kind, c)
         /\ new.heard = old.heard /\ new.args = old.args /\ new.index = old.index /\ new.ends = old.ends
         /\ new.known = IF kind = "call" THEN old.known \cup {c} ELSE old.known
    <3>1. OpensIt(old, new, k, kind, c)
      BY <1>6, <2>1, <2>3, <2>4, <2>9, OpenSays DEF e
    <3>2. QED
      BY <3>1 DEF OpensIt
  <2>11. new.known = old.known \cup {t.at + 1} /\ ItemIs(new, Function(t.at + 1), "call", t.at + 1)
    BY <2>1, <2>10 DEF k, kind
  <2>12. ItemsTold(s, new, B)
    <3>1. /\ s.message # "none" => ItemIs(new, Message, "text", Nothing)
          /\ s.reasoning # "none" => ItemIs(new, Reasoning, "think", Nothing)
      BY <1>1, <2>8, <2>10, ItemsStay DEF ResponsesHas, ItemsTold
    <3>2. ASSUME NEW i \in Slots
          PROVE (i \in s.funcAdded <=> i + 1 \in B.known) /\ (i \in s.funcAdded => ItemIs(new, Function(i + 1), "call", i + 1))
      <4>1. i \in Int /\ (i \in r.st.funcAdded <=> i + 1 \in A.known)
        BY <1>1, TranslatorAssumption DEF ResponsesHas, ItemsTold, Slots
      <4>2. CASE i = t.at
        BY <1>4, <2>8, <2>11, <4>2 DEF added
      <4>3. CASE i # t.at
        <5>1. i \in s.funcAdded <=> i \in r.st.funcAdded
          BY <2>8, <4>3 DEF added
        <5>2. i + 1 # t.at + 1
          BY <1>2, <4>1, <4>3
        <5>3. i \in r.st.funcAdded => ItemIs(old, Function(i + 1), "call", i + 1)
          BY <1>1 DEF ResponsesHas, ItemsTold
        <5>4. QED
          BY <1>4, <2>10, <4>1, <5>1, <5>2, <5>3, ItemsStay
      <4>4. QED
        BY <4>2, <4>3
    <3>3. QED
      BY <3>1, <3>2 DEF ItemsTold
  <2>13. ResponsesHas(q.st, new, B)
    BY <1>1, <1>4, <2>9, <2>10, <2>11, <2>12 DEF ResponsesHas, Conveys
  <2>14. QED
    BY <1>3, <2>8, <2>9, <2>13 DEF ResponsesTold, q, new, B, added
<1>9. QED
  BY <1>7, <1>8

(* A piece of arguments in the item of its call.                           *)
LEMMA ArgsToldOf ==
  ASSUME NEW rd \in Readers, NEW p, NEW B, ResponsesTold(rd, p, B),
         NEW i \in p.st.funcAdded, i \in Slots, i + 1 \in Calls, NEW n \in Int,
         NEW C \in Accounts, C.heard = B.heard, C.known = B.known, C.args = Given(B.args, i + 1, <<n>>),
         NEW q, q = Emit(p, Delta(Function(i + 1), <<n>>))
  PROVE  ResponsesTold(rd, q, C) /\ q.st = p.st
<1> DEFINE pieces == <<n>>
           c == i + 1
           k == Function(c)
           kind == "call"
           e == Delta(k, pieces)
           old == After(rd, p.out)
           new == After(rd, q.out)
<1>1. p \in Results /\ TellsResponses(rd, p) /\ ResponsesHas(p.st, old, B)
  BY DEF ResponsesTold
<1>2. c \in Int /\ p.st.funcAdded \in SUBSET Slots
  <2>1. i \in Nat
    BY CallsAreSlots
  <2>2. p.st.funcAdded \in SUBSET Slots
    BY <1>1, ResponsesHeard
  <2>3. QED
    BY <2>1, <2>2
<1>3. k \in Keys /\ k \in Known(p.st) /\ k \in Live(p.st) /\ ItemIs(old, k, kind, c)
  <2>1. k \in Live(p.st)
    BY <1>1, <1>2, OutputItems DEF Live, TellsResponses, InResponses, Orderly
  <2>2. QED
    BY <1>1, <1>2, <2>1, OutputItems DEF Known, ResponsesHas, ItemsTold
<1>4. TellsResponses(rd, q) /\ q \in Results /\ q.st = p.st
  BY <1>1, <1>3, ResponsesDelta DEF TellsResponses
<1>5. pieces \in Seq(Int)
  OBVIOUS
<1> HIDE DEF pieces, c, kind, k
<1>6. e \in Events
  BY <1>3, <1>5, EventFacts DEF Events
<1>7. old \in Readers /\ new = Read(old, Delta(k, pieces))
  <2>1. q = With(p.st, Append(p.out, e))
    BY <1>1, <1>6, EmitFacts DEF k, pieces, c
  <2>2. QED
    BY <1>1, <1>6, <2>1, EmittedIs
<1> HIDE DEF e, old, new
<1>8. /\ new.items = old.items /\ new.known = old.known /\ new.index = old.index /\ new.ends = old.ends
      /\ kind = "call" => new.heard = old.heard /\ new.args = Given(old.args, c, pieces)
  BY <1>3, <1>5, <1>7, DeltaSays
<1>9. new.heard = old.heard /\ new.args = Given(old.args, i + 1, <<n>>)
  BY <1>8 DEF kind, c, pieces
<1>10. Conveys(new, C)
  BY <1>1, <1>8, <1>9 DEF ResponsesHas, Conveys
<1>11. ItemsTold(p.st, new, C)
  BY <1>1, <1>8 DEF ResponsesHas, ItemsTold, ItemIs
<1>12. QED
  BY <1>1, <1>4, <1>8, <1>10, <1>11 DEF ResponsesTold, ResponsesHas, new

LEMMA CallToldOf ==
  ASSUME NEW rd \in Readers, NEW r, NEW A, ResponsesTold(rd, r, A), NEW t, FitsIn(A, t)
  PROVE  /\ ResponsesTold(rd, EmitToolCall(r, t), AddCall(A, t))
         /\ EmitToolCall(r, t).st.inThinking = r.st.inThinking
<1> DEFINE c == CallOf(r, t)
           q == AddItem(r, t)
           B == Named(A, t)
           C == AddCall(A, t)
<1>1. r \in Results /\ TellsResponses(rd, r) /\ A \in Accounts /\ t \in ToolEntries /\ Numbered(t) /\ t.at + 1 \in Calls
  BY DEF ResponsesTold, ResponsesHas, FitsIn
<1>2. t.at \in q.st.funcAdded => c = t.at + 1
  <2>1. q.st.funcAdded \in SUBSET Slots /\ (t.at \in q.st.funcAdded => c = t.at + 1)
    BY <1>1, ItemIsAdded
  <2>2. QED
    BY <2>1
<1>3. ResponsesTold(rd, q, B) /\ t.at \in q.st.funcAdded /\ q.st.inThinking = r.st.inThinking
  BY CallItemTold
<1>4. B.heard = A.heard /\ B.args = A.args /\ B.known = A.known \cup {t.at + 1}
  BY <1>1, NamedFacts
<1>5. /\ C \in Accounts /\ C.heard = A.heard /\ C.known = A.known \cup {t.at + 1}
      /\ C.args = IF t.args = Nothing THEN A.args ELSE Given(A.args, t.at + 1, <<t.args>>)
  BY <1>1, CallAdded
<1>6. EmitToolCall(r, t) = IF t.args = Nothing \/ t.at \notin q.st.funcAdded THEN q
                           ELSE Emit(q, Delta(Function(c), <<t.args>>))
  BY DEF EmitToolCall, AddItem, CallOf
<1>7. t.at \in Slots /\ t.args \in Int
  BY <1>1 DEF ToolEntries
<1> HIDE DEF q, c
<1>8. CASE t.args = Nothing
  <2>1. C = B
    BY <1>8 DEF AddCall, Named
  <2>2. QED
    BY <1>3, <1>6, <1>8, <2>1
<1>9. CASE t.args # Nothing
  <2>1. EmitToolCall(r, t) = Emit(q, Delta(Function(t.at + 1), <<t.args>>))
    BY <1>2, <1>3, <1>6, <1>9
  <2>2. C.heard = B.heard /\ C.known = B.known /\ C.args = Given(B.args, t.at + 1, <<t.args>>)
    BY <1>4, <1>5, <1>9
  <2> HIDE DEF B, C
  <2>3. ResponsesTold(rd, EmitToolCall(r, t), C) /\ EmitToolCall(r, t).st = q.st
    BY <1>1, <1>3, <1>5, <1>7, <2>1, <2>2, ArgsToldOf
  <2>4. QED
    BY <1>3, <2>3 DEF C
<1>10. QED
  BY <1>8, <1>9

(* The calls of a chunk, one after the other. *)
LEMMA TellCallsAre ==
  ASSUME NEW r, NEW tools, Len(tools) \in {0, 1, 2}
  PROVE  /\ Len(tools) = 0 => TellCalls(r, tools) = r
         /\ Len(tools) = 1 => TellCalls(r, tools) = EmitToolCall(r, tools[1])
         /\ Len(tools) = 2 => TellCalls(r, tools) = EmitToolCall(EmitToolCall(r, tools[1]), tools[2])
<1> DEFINE n == Len(tools)
           R(f) == f = [i \in 0 .. n |-> IF i = 0 THEN r ELSE EmitToolCall(f[i - 1], tools[i])]
           p1 == EmitToolCall(r, tools[1])
           p2 == EmitToolCall(p1, tools[2])
           g == [i \in 0 .. n |-> IF i = 0 THEN r ELSE IF i = 1 THEN p1 ELSE p2]
<1>1. n \in {0, 1, 2}
  OBVIOUS
<1> HIDE DEF n
<1>2. \A i \in 0 .. n : i = 0 \/ i = 1 \/ i = 2
  BY <1>1
<1>3. \A i \in 0 .. n : i # 0 => i - 1 \in 0 .. n
  BY <1>1
<1>4. R(g)
  <2>1. ASSUME NEW i \in 0 .. n PROVE g[i] = IF i = 0 THEN r ELSE EmitToolCall(g[i - 1], tools[i])
    <3>1. CASE i = 0
      BY <3>1
    <3>2. CASE i = 1
      BY <1>3, <3>2
    <3>3. CASE i = 2
      BY <1>3, <3>3
    <3>4. QED
      BY <1>2, <3>1, <3>2, <3>3
  <2>2. g = [i \in 0 .. n |-> g[i]]
    OBVIOUS
  <2> HIDE DEF g
  <2>3. QED
    BY <2>1, <2>2
<1>5. \E f : R(f)
  BY <1>4
<1>6. PICK f : R(f) /\ TellCalls(r, tools) = f[n]
  BY <1>5 DEF TellCalls, Fold, n
<1>7. 0 \in 0 .. n /\ (n >= 1 => 1 \in 0 .. n) /\ (n = 2 => 2 \in 0 .. n)
  BY <1>1
<1>8. f[0] = r /\ (n >= 1 => f[1] = EmitToolCall(f[0], tools[1])) /\ (n = 2 => f[2] = EmitToolCall(f[1], tools[2]))
  BY <1>6, <1>7
<1>9. QED
  BY <1>1, <1>6, <1>8 DEF n

LEMMA CallsToldOf ==
  ASSUME NEW rd \in Readers, NEW r, NEW A, ResponsesTold(rd, r, A), NEW tools, FitIn(A, tools)
  PROVE  /\ ResponsesTold(rd, TellCalls(r, tools), AddCalls(A, tools))
         /\ TellCalls(r, tools).st.inThinking = r.st.inThinking
<1> DEFINE t == tools[1]
           u == tools[2]
           p == EmitToolCall(r, t)
           q == EmitToolCall(p, u)
           B == AddCall(A, t)
           C == AddCall(B, u)
<1>1. A \in Accounts
  BY DEF ResponsesTold, ResponsesHas
<1>2. /\ Len(tools) \in {0, 1, 2}
      /\ Len(tools) >= 1 => FitsIn(A, t)
      /\ Len(tools) = 2 => FitsIn(A, u)
  BY FitInFacts
<1>3. /\ Len(tools) = 0 => AddCalls(A, tools) = A
      /\ Len(tools) = 1 => AddCalls(A, tools) = B
      /\ Len(tools) = 2 => AddCalls(A, tools) = C
  BY <1>2, CallsAddedAre
<1>4. /\ Len(tools) = 0 => TellCalls(r, tools) = r
      /\ Len(tools) = 1 => TellCalls(r, tools) = p
      /\ Len(tools) = 2 => TellCalls(r, tools) = q
  BY <1>2, TellCallsAre
<1> HIDE DEF t, u
<1>5. Len(tools) >= 1 => ResponsesTold(rd, p, B) /\ p.st.inThinking = r.st.inThinking
  BY <1>2, CallToldOf
<1> HIDE DEF p
<1>6. Len(tools) = 2 => FitsIn(B, u)
  BY <1>1, <1>2, FitsInMore
<1> HIDE DEF B
<1>7. Len(tools) = 2 => ResponsesTold(rd, q, C) /\ q.st.inThinking = p.st.inThinking
  BY <1>2, <1>5, <1>6, CallToldOf
<1>8. QED
  BY <1>2, <1>3, <1>4, <1>5, <1>7

LEMMA CallClosedTold ==
  ASSUME NEW rd \in Readers, NEW x \in Results, NEW i \in Slots, NEW y, y = CloseToolCall(x, i)
  PROVE  SameWords(After(rd, x.out), After(rd, y.out)) /\ After(rd, y.out).ends = After(rd, x.out).ends
<1> DEFINE k == Function(x.st.funcIds[i])
           e == Close(k)
           old == After(rd, x.out)
           new == After(rd, y.out)
<1>1. CASE x.st.funcIds[i] = Nothing \/ i \in x.st.funcDone
  <2>1. y = x
    BY <1>1 DEF CloseToolCall
  <2>2. QED
    BY <2>1 DEF SameWords
<1>2. CASE ~ (x.st.funcIds[i] = Nothing \/ i \in x.st.funcDone)
  <2>1. x.st.funcIds[i] \in Int
    BY DEF Results, State
  <2>2. k \in Keys
    BY <2>1, OutputItems
  <2>3. e \in Events
    BY <2>2, EventFacts DEF Events
  <2>4. y.out = Append(x.out, e)
    <3>1. y = [With(x.st, Append(x.out, e)) EXCEPT !.st.funcDone = @ \cup {i}]
      BY <1>2, <2>3, EmitFacts DEF CloseToolCall
    <3>2. QED
      BY <3>1 DEF With
  <2>5. old \in Readers /\ new = Read(old, Close(k))
    <3>1. After(rd, With(x.st, Append(x.out, e)).out) = Read(old, e) /\ old \in Readers
      BY <2>3, EmittedIs
    <3>2. With(x.st, Append(x.out, e)).out = y.out
      BY <2>4 DEF With
    <3> HIDE DEF e, k
    <3>3. QED
      BY <3>1, <3>2 DEF e
  <2> HIDE DEF k, old, new
  <2>6. SameWords(old, new) /\ new.ends = old.ends
    BY <2>2, <2>5, CloseSays
  <2>7. QED
    BY <2>6 DEF old, new
<1>3. QED
  BY <1>1, <1>2

LEMMA CallsCloseTold ==
  ASSUME NEW rd \in Readers, NEW r \in Results, FitsResponses(rd, r),
         r.st.message # "open", r.st.reasoning # "open", NEW A, ResponsesHas(r.st, After(rd, r.out), A)
  PROVE  Conveys(After(rd, CloseCalls(r).out), A) /\ After(rd, CloseCalls(r).out).ends = <<>>
<1> DEFINE n == LastSlot + 1
           good(x) == Conveys(After(rd, x.out), A) /\ After(rd, x.out).ends = <<>>
           D == [i \in 0 .. n |-> {x \in Finishing(rd, r.st, i) : good(x)}]
<1>1. PICK g : ClosingCalls(g, rd, r)
  BY CloseCallsRuns
<1>2. n \in Nat
  BY TranslatorAssumption
<1>3. g[0] \in D[0]
  <2>1. g[0] = r /\ g[0] \in Finishing(rd, r.st, 0)
    BY <1>1, <1>2 DEF ClosingCalls
  <2>2. good(r)
    BY DEF ResponsesHas
  <2>3. QED
    BY <1>2, <2>1, <2>2
<1>4. \A i \in 1 .. n : g[i - 1] \in D[i - 1] => g[i] \in D[i]
  <2> SUFFICES ASSUME NEW i \in 1 .. n, g[i - 1] \in D[i - 1]
               PROVE  g[i] \in D[i]
    OBVIOUS
  <2>1. i - 1 \in 0 .. n /\ i \in 0 .. n /\ i - 1 \in Slots
    BY <1>2, TranslatorAssumption DEF Slots
  <2>2. g[i - 1] \in Results /\ good(g[i - 1])
    BY <2>1 DEF Finishing
  <2>3. g[i] = CloseToolCall(g[i - 1], i - 1) /\ g[i] \in Finishing(rd, r.st, i)
    BY <1>1, <2>1 DEF ClosingCalls
  <2>4. /\ SameWords(After(rd, g[i - 1].out), After(rd, g[i].out))
        /\ After(rd, g[i].out).ends = After(rd, g[i - 1].out).ends
    BY <2>1, <2>2, <2>3, CallClosedTold
  <2>5. good(g[i])
    BY <2>2, <2>4 DEF SameWords, Conveys
  <2>6. QED
    BY <2>1, <2>3, <2>5
<1> HIDE DEF D
<1>5. \A i \in 0 .. n : g[i] \in D[i]
  BY <1>2, <1>3, <1>4, Kept
<1>6. g[n] \in D[n] /\ g[n] = CloseCalls(r) /\ n \in 0 .. n
  BY <1>1, <1>2, <1>5 DEF ClosingCalls
<1>7. QED
  BY <1>6 DEF D

LEMMA AllClosesTold ==
  ASSUME NEW rd \in Readers, NEW r \in Results, FitsResponses(rd, r), NEW A, ResponsesHas(r.st, After(rd, r.out), A)
  PROVE  Ended(After(rd, CloseAll(r).out), "completed", A)
<1> DEFINE o == CloseMessage(r)
           p == CloseReasoning(o)
           q == CloseCalls(p)
           reason == "completed"
           e == End(reason)
           old == After(rd, q.out)
           new == After(rd, CloseAll(r).out)
<1>1. /\ FitsResponses(rd, o) /\ o \in Results /\ o.st.message # "open" /\ ResponsesHas(o.st, After(rd, o.out), A)
  BY MessageStops, MessageStopTold DEF FitsResponses
<1>2. CloseAll(r) = SendCompleted(q)
  BY DEF CloseAll, CloseCalls, SlotsInOrder
<1> HIDE DEF o
<1>3. /\ FitsResponses(rd, p) /\ p \in Results /\ p.st.reasoning # "open" /\ p.st.message # "open"
      /\ ResponsesHas(p.st, After(rd, p.out), A)
  BY <1>1, ReasoningStops, ReasoningStopTold DEF FitsResponses
<1> HIDE DEF p
<1>4. Conveys(old, A) /\ old.ends = <<>>
  BY <1>3, CallsCloseTold
<1>5. q \in Results /\ q.st = [p.st EXCEPT !.funcDone = FirstDone(p.st, LastSlot + 1)] /\ ~ p.st.completed
  BY <1>3, CallsAreClosed DEF Finishing, FitsResponses, InResponses, Orderly
<1>6. ~ q.st.completed
  <2>1. p.st \in State
    BY <1>3 DEF Results
  <2>2. QED
    BY <1>5, <2>1 DEF State
<1> HIDE DEF q
<1>7. reason \in Reasons
  BY DEF Reasons
<1> HIDE DEF reason
<1>8. e \in Events
  BY <1>7, EventFacts DEF Events
<1>9. CloseAll(r).out = Append(q.out, e)
  <2>1. CloseAll(r) = [With(q.st, Append(q.out, e)) EXCEPT !.st.completed = TRUE]
    BY <1>2, <1>5, <1>6, <1>8, EmitFacts DEF SendCompleted, reason
  <2>2. QED
    BY <2>1 DEF With
<1>10. old \in Readers /\ new = Read(old, End(reason))
  <2>1. After(rd, With(q.st, Append(q.out, e)).out) = Read(old, e) /\ old \in Readers
    BY <1>5, <1>8, EmittedIs
  <2>2. With(q.st, Append(q.out, e)).out = CloseAll(r).out
    BY <1>9 DEF With
  <2> HIDE DEF e, old
  <2>3. QED
    BY <2>1, <2>2 DEF e
<1> HIDE DEF old, new, e
<1>11. SameWords(old, new) /\ new.ends = Append(old.ends, reason)
  BY <1>7, <1>10, EndSays
<1>12. Append(<<>>, reason) = <<reason>>
  OBVIOUS
<1>13. QED
  BY <1>4, <1>11, <1>12 DEF Ended, Conveys, SameWords, new, reason

LEMMA FlushToldOf ==
  ASSUME NEW rd \in Readers, NEW s \in State, InResponses(s, rd), NEW A, ResponsesHas(s, rd, A)
  PROVE  Ended(After(rd, FlushEvents(s).out), "completed", A)
<1>1. Result(s) \in Results /\ Result(s).st = s /\ Result(s).out = <<>>
  BY DEF Result, Results
<1>2. After(rd, Result(s).out) = rd
  BY <1>1, AfterNone
<1>3. FlushEvents(s) = CloseAll(Result(s))
  BY DEF FlushEvents, InResponses, Orderly
<1> DEFINE r == Result(s)
<1> HIDE DEF r
<1>4. FitsResponses(rd, r) /\ ResponsesHas(r.st, After(rd, r.out), A) /\ r \in Results
  BY <1>1, <1>2 DEF FitsResponses, r
<1>5. Ended(After(rd, CloseAll(r).out), "completed", A)
  BY <1>4, AllClosesTold
<1>6. QED
  BY <1>3, <1>5 DEF r

(* The content of a chunk is not among the thoughts between tags.          *)
TextFits(s, c) == c.text \in Int /\ c.text >= CloseTag /\ (c.text > 0 => ~ s.inThinking)

LEMMA ResponsesIsTold ==
  ASSUME NEW rd \in Readers, NEW r \in Results, InResponses(r.st, After(rd, r.out)),
         NEW A, ResponsesHas(r.st, After(rd, r.out), A), NEW c, Takeable(A, c), TextFits(r.st, c),
         NEW q, q = OpenAIToResponses(r, c)
  PROVE  /\ c.finish = "" => /\ ResponsesHas(q.st, After(rd, q.out), AddChunk(A, c))
                             /\ q.st.inThinking => c.text = OpenTag \/ (r.st.inThinking /\ c.text # CloseTag)
         /\ c.finish # "" => Ended(After(rd, q.out), "completed", AddChunk(A, c))
<1> DEFINE n == c.think
           m == c.text
           tools == c.tools
           begun == MessageStart(r)
           thinks == ReasoningDelta(n, begun)
           says == EmitContent(m, thinks)
           stops == CloseMessage(says)
           used == IF tools = <<>> THEN says ELSE TellCalls(stops, tools)
           B == AddPiece(A, "think", n)
           C == AddPiece(B, "text", m)
           E == AddCalls(C, tools)
<1>1. n \in Nat /\ m \in Int /\ m >= CloseTag /\ (m > 0 => ~ r.st.inThinking) /\ FitIn(A, tools) /\ tools \in Seq(ToolEntries)
  BY DEF Takeable, TextFits, FitIn
<1>2. ResponsesTold(rd, begun, A) /\ begun.st.inThinking = r.st.inThinking
  BY ResponsesBeginTold
<1>3. q = IF m > 0 /\ begun.st.inThinking THEN says
          ELSE IF c.finish = "" THEN used ELSE CloseAll(used)
  BY DEF OpenAIToResponses, TellCalls
<1>4. AddChunk(A, c) = E
  BY DEF AddChunk
<1> HIDE DEF n, m, tools, begun
<1>5. ResponsesTold(rd, thinks, B) /\ thinks.st.inThinking = r.st.inThinking
  BY <1>1, <1>2, ReasoningDeltaTold
<1> HIDE DEF thinks
<1>6. ResponsesTold(rd, says, C) /\ (says.st.inThinking => m = OpenTag \/ (r.st.inThinking /\ m # CloseTag))
  BY <1>1, <1>5, ContentToldOf
<1>7. A \in Accounts /\ B \in Accounts /\ C \in Accounts
  BY <1>2, <1>5, <1>6 DEF ResponsesTold, ResponsesHas
<1>8. C.known = A.known
  <2>1. "think" \in Kinds /\ "text" \in Kinds /\ n \in Int
    BY <1>1 DEF Kinds
  <2>2. B.known = A.known
    BY <1>7, <2>1, PieceAdded
  <2> HIDE DEF B
  <2>3. C.known = B.known
    BY <1>1, <1>7, <2>1, PieceAdded
  <2>4. QED
    BY <2>2, <2>3
<1>9. FitIn(C, tools)
  BY <1>1, <1>8 DEF FitIn, FitsIn
<1> HIDE DEF says, B, C
<1>10. ResponsesTold(rd, used, E) /\ (used.st.inThinking => m = OpenTag \/ (r.st.inThinking /\ m # CloseTag))
  <2>1. CASE tools = <<>>
    <3>1. Len(tools) = 0 /\ Len(tools) \in {0, 1, 2}
      BY <2>1
    <3>2. E = C
      BY <3>1, CallsAddedAre
    <3>3. QED
      BY <1>6, <2>1, <3>2
  <2>2. CASE tools # <<>>
    <3>1. says \in Results /\ FitsResponses(rd, says) /\ says.st.begun /\ ResponsesHas(says.st, After(rd, says.out), C)
      BY <1>6 DEF ResponsesTold, TellsResponses, FitsResponses
    <3>2. FitsResponses(rd, stops) /\ stops.st.begun = says.st.begun
      BY <3>1, MessageStops
    <3>3. ResponsesHas(stops.st, After(rd, stops.out), C) /\ stops.st.inThinking = says.st.inThinking
      BY <3>1, MessageStopTold
    <3> HIDE DEF stops
    <3>4. ResponsesTold(rd, stops, C)
      BY <3>1, <3>2, <3>3 DEF ResponsesTold, TellsResponses, FitsResponses
    <3>5. /\ ResponsesTold(rd, TellCalls(stops, tools), E)
          /\ TellCalls(stops, tools).st.inThinking = stops.st.inThinking
      BY <1>9, <3>4, CallsToldOf
    <3> HIDE DEF E
    <3>6. QED
      BY <1>6, <2>2, <3>3, <3>5
  <2>3. QED
    BY <2>1, <2>2
<1> HIDE DEF used, E
<1>11. q = IF c.finish = "" THEN used ELSE CloseAll(used)
  BY <1>1, <1>2, <1>3
<1>12. used \in Results /\ FitsResponses(rd, used) /\ ResponsesHas(used.st, After(rd, used.out), E)
  BY <1>10 DEF ResponsesTold, TellsResponses, FitsResponses
<1>13. Ended(After(rd, CloseAll(used).out), "completed", E)
  BY <1>12, AllClosesTold
<1>14. QED
  BY <1>4, <1>10, <1>11, <1>12, <1>13 DEF m

-----------------------------------------------------------------------------
(* What a client of Chat Completions has been told                         *)

ChatHas(q, A) ==
  /\ A \in Accounts /\ q.ends = <<>> /\ Conveys(q, A)
  /\ \A i \in Slots : q.index[i] = IF i + 1 \in A.known THEN i + 1 ELSE Nothing

ChatTold(rd, r, A) == r \in Results /\ ChatHas(After(rd, r.out), A)

LEMMA ChatPartTold ==
  ASSUME NEW rd \in Readers, NEW r, NEW A, ChatTold(rd, r, A), NEW kind \in {"think", "text"}, NEW n \in Int
  PROVE  ChatTold(rd, Emit(r, Part(kind, n)), AddPiece(A, kind, n)) /\ Emit(r, Part(kind, n)).st = r.st
<1> DEFINE e == Part(kind, n)
           q == Emit(r, e)
           B == AddPiece(A, kind, n)
           old == After(rd, r.out)
           new == After(rd, q.out)
<1>1. r \in Results /\ ChatHas(old, A) /\ A \in Accounts /\ kind \in Kinds
  BY DEF ChatTold, ChatHas, Kinds
<1>2. e \in Events
  BY <1>1, EventFacts DEF Events
<1>3. q \in Results /\ q.st = r.st /\ q = With(r.st, Append(r.out, e))
  BY <1>1, <1>2, EmitFacts
<1> HIDE DEF q
<1>4. old \in Readers /\ new = Read(old, Part(kind, n))
  BY <1>1, <1>2, <1>3, EmittedIs
<1> HIDE DEF e, old, new
<1>5. /\ new.items = old.items /\ new.index = old.index /\ new.ends = old.ends /\ new.known = old.known /\ new.args = old.args
      /\ new.heard = IF n > 0 THEN Append(old.heard, [kind |-> kind, piece |-> n]) ELSE old.heard
  BY <1>4, PartSays
<1>6. /\ B \in Accounts /\ B.known = A.known /\ B.args = A.args
      /\ B.heard = IF n > 0 THEN Append(A.heard, [kind |-> kind, piece |-> n]) ELSE A.heard
  BY <1>1, PieceAdded
<1> HIDE DEF B
<1>7. ChatHas(new, B)
  BY <1>1, <1>5, <1>6 DEF ChatHas, Conveys
<1>8. QED
  BY <1>3, <1>7 DEF ChatTold, new, q, e, B

LEMMA ChatEntryTold ==
  ASSUME NEW rd \in Readers, NEW r, NEW A, ChatTold(rd, r, A), NEW t, FitsIn(A, t)
  PROVE  ChatTold(rd, SendEntry(r, t), AddCall(A, t)) /\ SendEntry(r, t).st = r.st
<1> DEFINE e == Entry(t)
           q == SendEntry(r, t)
           B == AddCall(A, t)
           old == After(rd, r.out)
           new == After(rd, q.out)
           c == IF t.id # Nothing THEN t.id ELSE old.index[t.at]
<1>1. r \in Results /\ ChatHas(old, A) /\ A \in Accounts
  BY DEF ChatTold, ChatHas
<1>2. t \in ToolEntries /\ t.at \in Slots /\ t.at \in Nat /\ t.at + 1 # Nothing
  <2>1. t \in ToolEntries /\ t.at \in Slots
    BY DEF FitsIn, ToolEntries
  <2>2. t.at \in Nat
    BY <2>1, CallsAreSlots
  <2>3. QED
    BY <2>1, <2>2 DEF Nothing
<1>3. e \in Events
  BY <1>2, EventFacts DEF Events
<1>4. q \in Results /\ q.st = r.st /\ q = With(r.st, Append(r.out, e))
  BY <1>1, <1>3, EmitFacts DEF SendEntry
<1> HIDE DEF q
<1>5. old \in Readers /\ new = Read(old, Entry(t))
  BY <1>1, <1>3, <1>4, EmittedIs
<1>6. c = t.at + 1
  BY <1>1, <1>2 DEF FitsIn, Numbered, ChatHas
<1> HIDE DEF e, old, new
<1>7. /\ new.items = old.items /\ new.ends = old.ends /\ new.heard = old.heard
      /\ new.index = [old.index EXCEPT ![t.at] = c] /\ new.known = old.known \cup {c}
      /\ new.args = IF t.args = Nothing THEN old.args ELSE Given(old.args, c, <<t.args>>)
  BY <1>2, <1>5, <1>6, EntrySays
<1> HIDE DEF c
<1>8. /\ B \in Accounts /\ B.heard = A.heard /\ B.known = A.known \cup {t.at + 1}
      /\ B.args = IF t.args = Nothing THEN A.args ELSE Given(A.args, t.at + 1, <<t.args>>)
  BY <1>1, CallAdded
<1> HIDE DEF B
<1>9. Conveys(new, B)
  BY <1>1, <1>6, <1>7, <1>8 DEF ChatHas, Conveys
<1>10. \A i \in Slots : new.index[i] = IF i + 1 \in B.known THEN i + 1 ELSE Nothing
  <2> TAKE i \in Slots
  <2>1. old.index \in [Slots -> Nat]
    BY <1>5 DEF Readers
  <2>2. CASE i = t.at
    BY <1>2, <1>6, <1>7, <1>8, <2>1, <2>2
  <2>3. CASE i # t.at
    <3>1. new.index[i] = old.index[i]
      BY <1>7, <2>1, <2>3
    <3>2. i + 1 \in B.known <=> i + 1 \in A.known
      <4>1. i \in Nat
        BY CallsAreSlots
      <4>2. i + 1 # t.at + 1
        BY <1>2, <2>3, <4>1
      <4>3. QED
        BY <1>8, <4>2
    <3>3. QED
      BY <1>1, <3>1, <3>2 DEF ChatHas
  <2>4. QED
    BY <2>2, <2>3
<1>11. ChatHas(new, B)
  BY <1>1, <1>7, <1>8, <1>9, <1>10 DEF ChatHas
<1>12. QED
  BY <1>4, <1>11 DEF ChatTold, new, B, q

(* The entries of a chunk, one after the other. *)
LEMMA SendEntriesAre ==
  ASSUME NEW r, NEW tools, Len(tools) \in {0, 1, 2}
  PROVE  /\ Len(tools) = 0 => SendEntries(r, tools) = r
         /\ Len(tools) = 1 => SendEntries(r, tools) = SendEntry(r, tools[1])
         /\ Len(tools) = 2 => SendEntries(r, tools) = SendEntry(SendEntry(r, tools[1]), tools[2])
<1> DEFINE n == Len(tools)
           R(f) == f = [i \in 0 .. n |-> IF i = 0 THEN r ELSE SendEntry(f[i - 1], tools[i])]
           p1 == SendEntry(r, tools[1])
           p2 == SendEntry(p1, tools[2])
           g == [i \in 0 .. n |-> IF i = 0 THEN r ELSE IF i = 1 THEN p1 ELSE p2]
<1>1. n \in {0, 1, 2}
  OBVIOUS
<1> HIDE DEF n
<1>2. \A i \in 0 .. n : i = 0 \/ i = 1 \/ i = 2
  BY <1>1
<1>3. \A i \in 0 .. n : i # 0 => i - 1 \in 0 .. n
  BY <1>1
<1>4. R(g)
  <2>1. ASSUME NEW i \in 0 .. n PROVE g[i] = IF i = 0 THEN r ELSE SendEntry(g[i - 1], tools[i])
    <3>1. CASE i = 0
      BY <3>1
    <3>2. CASE i = 1
      BY <1>3, <3>2
    <3>3. CASE i = 2
      BY <1>3, <3>3
    <3>4. QED
      BY <1>2, <3>1, <3>2, <3>3
  <2>2. g = [i \in 0 .. n |-> g[i]]
    OBVIOUS
  <2> HIDE DEF g
  <2>3. QED
    BY <2>1, <2>2
<1>5. \E f : R(f)
  BY <1>4
<1>6. PICK f : R(f) /\ SendEntries(r, tools) = f[n]
  BY <1>5 DEF SendEntries, Fold, n
<1>7. 0 \in 0 .. n /\ (n >= 1 => 1 \in 0 .. n) /\ (n = 2 => 2 \in 0 .. n)
  BY <1>1
<1>8. f[0] = r /\ (n >= 1 => f[1] = SendEntry(f[0], tools[1])) /\ (n = 2 => f[2] = SendEntry(f[1], tools[2]))
  BY <1>6, <1>7
<1>9. QED
  BY <1>1, <1>6, <1>8 DEF n

LEMMA ChatEntriesTold ==
  ASSUME NEW rd \in Readers, NEW r, NEW A, ChatTold(rd, r, A), NEW tools, FitIn(A, tools)
  PROVE  ChatTold(rd, SendEntries(r, tools), AddCalls(A, tools)) /\ SendEntries(r, tools).st = r.st
<1> DEFINE t == tools[1]
           u == tools[2]
           p == SendEntry(r, t)
           q == SendEntry(p, u)
           B == AddCall(A, t)
           C == AddCall(B, u)
<1>1. A \in Accounts
  BY DEF ChatTold, ChatHas
<1>2. /\ Len(tools) \in {0, 1, 2}
      /\ Len(tools) >= 1 => FitsIn(A, t)
      /\ Len(tools) = 2 => FitsIn(A, u)
  BY FitInFacts
<1>3. /\ Len(tools) = 0 => AddCalls(A, tools) = A
      /\ Len(tools) = 1 => AddCalls(A, tools) = B
      /\ Len(tools) = 2 => AddCalls(A, tools) = C
  BY <1>2, CallsAddedAre
<1>4. /\ Len(tools) = 0 => SendEntries(r, tools) = r
      /\ Len(tools) = 1 => SendEntries(r, tools) = p
      /\ Len(tools) = 2 => SendEntries(r, tools) = q
  BY <1>2, SendEntriesAre
<1> HIDE DEF t, u
<1>5. Len(tools) >= 1 => ChatTold(rd, p, B) /\ p.st = r.st
  BY <1>2, ChatEntryTold
<1> HIDE DEF p
<1>6. Len(tools) = 2 => FitsIn(B, u)
  BY <1>1, <1>2, FitsInMore
<1> HIDE DEF B
<1>7. Len(tools) = 2 => ChatTold(rd, q, C) /\ q.st = p.st
  BY <1>2, <1>5, <1>6, ChatEntryTold
<1>8. QED
  BY <1>2, <1>3, <1>4, <1>5, <1>7

(* A piece is told unless there is none.                                   *)
LEMMA ChatSayTold ==
  ASSUME NEW rd \in Readers, NEW r, NEW A, ChatTold(rd, r, A), NEW kind \in {"think", "text"}, NEW n \in Int,
         NEW q, q = IF n = Nothing THEN r ELSE Emit(r, Part(kind, n))
  PROVE  ChatTold(rd, q, AddPiece(A, kind, n)) /\ q.st = r.st
<1>1. CASE n = Nothing
  BY <1>1 DEF AddPiece, Nothing
<1>2. CASE n # Nothing
  BY <1>2, ChatPartTold
<1>3. QED
  BY <1>1, <1>2

LEMMA ChatIsTold ==
  ASSUME NEW rd \in Readers, NEW r \in Results, NEW A, ChatHas(After(rd, r.out), A), NEW c, Takeable(A, c),
         NEW q, q = SendChunk(r, c)
  PROVE  /\ c.finish = "" => ChatHas(After(rd, q.out), AddChunk(A, c))
         /\ c.finish # "" => Ended(After(rd, q.out), c.finish, AddChunk(A, c))
<1> DEFINE n == c.think
           m == c.text
           reason == c.finish
           tools == c.tools
           o == MessageStart(r)
           p == IF n = Nothing THEN o ELSE Emit(o, Part("think", n))
           u == IF m = Nothing THEN p ELSE Emit(p, Part("text", m))
           x == SendEntries(u, tools)
           e == End(reason)
           B == AddPiece(A, "think", n)
           C == AddPiece(B, "text", m)
           E == AddCalls(C, tools)
<1>1. /\ n \in Int /\ m \in Int /\ FitIn(A, tools) /\ reason \in Finishings
      /\ "think" \in {"think", "text"} /\ "text" \in {"think", "text"}
  BY DEF Takeable, ChunksSaid
<1>2. q = IF reason = "" THEN x ELSE Emit(x, e)
  BY DEF SendChunk, SendEntries, SendEntry, Fold
<1>3. ChatTold(rd, o, A)
  <2> DEFINE old == After(rd, r.out)
             new == After(rd, o.out)
  <2>1. o \in Results
    <3>1. Begin \in Events /\ r.st \in State
      BY EventFacts DEF Events, Results
    <3>2. CASE r.st.begun
      BY <3>2 DEF MessageStart
    <3>3. CASE ~ r.st.begun
      <4>1. o = [With(r.st, Append(r.out, Begin)) EXCEPT !.st.begun = TRUE]
        BY <3>1, <3>3, EmitFacts DEF MessageStart
      <4>2. [r.st EXCEPT !.begun = TRUE] \in State
        BY <3>1 DEF State
      <4>3. o = With([r.st EXCEPT !.begun = TRUE], Append(r.out, Begin))
        BY <4>1 DEF With
      <4>4. Append(r.out, Begin) \in Seq(Events)
        BY <3>1, EmitFacts
      <4>5. QED
        BY <4>2, <4>3, <4>4, WithFacts
    <3>4. QED
      BY <3>2, <3>3
  <2>2. SameWords(old, new) /\ new.index = old.index /\ new.ends = old.ends
    <3>1. old = After(rd, r.out) /\ new = After(rd, MessageStart(r).out)
      OBVIOUS
    <3> HIDE DEF old, new
    <3>2. /\ old \in Readers /\ SameWords(old, new) /\ new.items = old.items
          /\ new.index = old.index /\ new.ends = old.ends
          /\ MessageStart(r).st = [r.st EXCEPT !.begun = TRUE]
      BY <3>1, BegunSays
    <3>3. QED
      BY <3>2
  <2>3. QED
    BY <2>1, <2>2 DEF ChatTold, ChatHas, Conveys, SameWords
<1>4. AddChunk(A, c) = E
  BY DEF AddChunk
<1> HIDE DEF n, m, tools, o, reason
<1>5. ChatTold(rd, p, B)
  BY <1>1, <1>3, ChatSayTold
<1>6. A \in Accounts
  BY DEF ChatHas
<1> HIDE DEF p
<1>7. ChatTold(rd, u, C)
  <2> HIDE DEF B
  <2>1. QED
    BY <1>1, <1>5, ChatSayTold
<1>8. B \in Accounts /\ B.known = A.known
  BY <1>1, <1>6, PieceAdded DEF Kinds
<1> HIDE DEF B
<1>9. C.known = B.known
  BY <1>1, <1>8, PieceAdded DEF Kinds
<1>10. FitIn(C, tools)
  BY <1>1, <1>8, <1>9 DEF FitIn, FitsIn
<1> HIDE DEF u, C
<1>11. ChatTold(rd, x, E)
  BY <1>7, <1>10, ChatEntriesTold
<1> HIDE DEF x, E
<1>12. CASE reason = ""
  BY <1>2, <1>4, <1>11, <1>12 DEF ChatTold, reason
<1>13. CASE reason # ""
  <2> DEFINE old == After(rd, x.out)
             new == After(rd, q.out)
  <2>1. reason \in Reasons
    BY <1>1, <1>13 DEF Finishings, Reasons
  <2>2. e \in Events
    BY <2>1, EventFacts DEF Events
  <2>3. x \in Results /\ ChatHas(old, E)
    BY <1>11 DEF ChatTold
  <2>4. q = With(x.st, Append(x.out, e))
    BY <1>2, <1>13, <2>2, <2>3, EmitFacts
  <2>5. old \in Readers /\ new = Read(old, End(reason))
    BY <2>2, <2>3, <2>4, EmittedIs
  <2> HIDE DEF old, new, e
  <2>6. SameWords(old, new) /\ new.ends = Append(old.ends, reason)
    BY <2>1, <2>5, EndSays
  <2>7. Append(<<>>, reason) = <<reason>>
    OBVIOUS
  <2>8. Ended(new, reason, E)
    BY <2>3, <2>6, <2>7 DEF Ended, ChatHas, Conveys, SameWords
  <2>9. QED
    BY <1>4, <1>13, <2>8 DEF new, reason
<1>14. QED
  BY <1>12, <1>13

-----------------------------------------------------------------------------
(* What is told, whatever the client                                       *)

Holds(cl, s, q, A) ==
  /\ cl = "claude" => ClaudeHas(s, q, A)
  /\ cl = "responses" => ResponsesHas(s, q, A)
  /\ cl = "openai" => ChatHas(q, A)

(* The end of an answer, as the client is told of it.                      *)
Ending(cl, reason) == IF cl = "responses" THEN "completed" ELSE reason

(* Tags are not for a client of Claude Messages.                           *)
Suits(cl, s, c) == (cl = "claude" => c.text \in Nat) /\ (cl = "responses" => TextFits(s, c))

StillThinks(cl, s, c, t) == cl = "responses" /\ t.inThinking => c.text = OpenTag \/ (s.inThinking /\ c.text # CloseTag)

(* What has become of a reader who knew of A, when the chunk c was told.   *)
Learns(cl, s, rd, A, c, r) ==
  /\ c.finish = "" => Holds(cl, r.st, After(rd, r.out), AddChunk(A, c)) /\ StillThinks(cl, s, c, r.st)
  /\ c.finish # "" => Ended(After(rd, r.out), Ending(cl, c.finish), AddChunk(A, c))

LEMMA HopSays ==
  ASSUME NEW cl \in Clients, NEW rd \in Readers, NEW r \in Results, NEW N,
         Fits(cl, r.st, After(rd, r.out), N), NEW A, Holds(cl, r.st, After(rd, r.out), A),
         NEW c, Takeable(A, c), Suits(cl, r.st, c), NEW q, q = FromOpenAI(cl, r, c)
  PROVE  Learns(cl, r.st, rd, A, c, q)
<1>1. CASE cl = "claude"
  <2>1. q = OpenAIToClaude(r, c)
    BY <1>1 DEF FromOpenAI
  <2>2. /\ InClaude(r.st, After(rd, r.out)) /\ ClaudeHas(r.st, After(rd, r.out), A) /\ c.text \in Nat
    BY <1>1 DEF Fits, Holds, Suits
  <2>3. /\ c.finish = "" => ClaudeHas(q.st, After(rd, q.out), AddChunk(A, c))
        /\ c.finish # "" => Ended(After(rd, q.out), c.finish, AddChunk(A, c))
    BY <2>1, <2>2, ClaudeIsTold
  <2>4. QED
    BY <1>1, <2>3 DEF Learns, Holds, Ending, StillThinks
<1>2. CASE cl = "responses"
  <2>1. q = OpenAIToResponses(r, c)
    BY <1>2 DEF FromOpenAI
  <2>2. /\ InResponses(r.st, After(rd, r.out)) /\ ResponsesHas(r.st, After(rd, r.out), A) /\ TextFits(r.st, c)
    BY <1>2 DEF Fits, Holds, Suits
  <2>3. /\ c.finish = "" => /\ ResponsesHas(q.st, After(rd, q.out), AddChunk(A, c))
                            /\ q.st.inThinking => c.text = OpenTag \/ (r.st.inThinking /\ c.text # CloseTag)
        /\ c.finish # "" => Ended(After(rd, q.out), "completed", AddChunk(A, c))
    BY <2>1, <2>2, ResponsesIsTold
  <2>4. QED
    BY <1>2, <2>3 DEF Learns, Holds, Ending, StillThinks
<1>3. CASE cl = "openai"
  <2>1. q = SendChunk(r, c)
    BY <1>3 DEF FromOpenAI
  <2>2. ChatHas(After(rd, r.out), A)
    BY <1>3 DEF Holds
  <2>3. /\ c.finish = "" => ChatHas(After(rd, q.out), AddChunk(A, c))
        /\ c.finish # "" => Ended(After(rd, q.out), c.finish, AddChunk(A, c))
    BY <2>1, <2>2, ChatIsTold
  <2>4. QED
    BY <1>3, <2>3 DEF Learns, Holds, Ending, StillThinks
<1>4. QED
  BY <1>1, <1>2, <1>3 DEF Clients

LEMMA HasSame ==
  ASSUME NEW cl, NEW s, NEW t, Same(cl, s, t), NEW q, NEW A, Holds(cl, s, q, A)
  PROVE  Holds(cl, t, q, A)
<1>1. CASE cl = "claude"
  <2>1. ClaudeHas(s, q, A) /\ t.block = s.block /\ t.toolCalls = s.toolCalls /\ t.argBuf = s.argBuf
    BY <1>1 DEF Holds, Same
  <2>2. ClaudeHas(t, q, A)
    BY <2>1 DEF ClaudeHas, Buffers, TextBlocks, CallBlocks
  <2>3. QED
    BY <1>1, <2>2 DEF Holds
<1>2. CASE cl = "responses"
  <2>1. ResponsesHas(s, q, A) /\ t.message = s.message /\ t.reasoning = s.reasoning /\ t.funcAdded = s.funcAdded
    BY <1>2 DEF Holds, Same
  <2>2. ResponsesHas(t, q, A)
    BY <2>1 DEF ResponsesHas, ItemsTold
  <2>3. QED
    BY <1>2, <2>2 DEF Holds
<1>3. CASE cl \notin {"claude", "responses"}
  BY <1>3 DEF Holds
<1>4. QED
  BY <1>1, <1>2, <1>3

(* A reader who follows the hop: what it sees and what it has been told.   *)
Follows(cl, rd, r, N, A) ==
  r \in Results /\ Fits(cl, r.st, After(rd, r.out), N) /\ Holds(cl, r.st, After(rd, r.out), A)

LEMMA HopFollows ==
  ASSUME NEW cl \in Clients, NEW rd \in Readers, NEW r, NEW N \in SUBSET Slots, NEW A, Follows(cl, rd, r, N, A),
         NEW c, Takeable(A, c), Usable(cl, c, N), Suits(cl, r.st, c), NEW q, q = FromOpenAI(cl, r, c)
  PROVE  /\ Learns(cl, r.st, rd, A, c, q)
         /\ c.finish = "" => Follows(cl, rd, q, N, AddChunk(A, c))
<1>1. r \in Results /\ Fits(cl, r.st, After(rd, r.out), N) /\ Holds(cl, r.st, After(rd, r.out), A) /\ c \in ChunksSaid
  BY DEF Follows, Takeable
<1>2. Learns(cl, r.st, rd, A, c, q)
  BY <1>1, HopSays
<1>3. CASE c.finish = ""
  <2>1. q \in Results /\ Fits(cl, q.st, After(rd, q.out), N \cup SlotsOfChunk(c))
    BY <1>1, <1>3, HopHears
  <2>2. Fits(cl, q.st, After(rd, q.out), N)
    <3>1. N \subseteq N \cup SlotsOfChunk(c)
      OBVIOUS
    <3>2. QED
      BY <2>1, <3>1, FitsFewer
  <2>3. QED
    BY <1>2, <1>3, <2>1, <2>2 DEF Follows, Learns
<1>4. QED
  BY <1>2, <1>3

LEMMA FollowsFirst ==
  ASSUME NEW cl, NEW rd \in Readers, NEW s, NEW t \in State, Same(cl, s, t), NEW N, Fits(cl, s, rd, N),
         NEW A, Holds(cl, s, rd, A)
  PROVE  Follows(cl, rd, Result(t), N, A)
<1>1. Result(t) \in Results /\ Result(t).st = t /\ Result(t).out = <<>>
  BY DEF Result, Results
<1>2. After(rd, <<>>) = rd
  BY AfterNone
<1>3. Fits(cl, t, rd, N) /\ Holds(cl, t, rd, A)
  BY FitsSame, HasSame
<1>4. QED
  BY <1>1, <1>2, <1>3 DEF Follows

(* The chunks of an event, of which there are three at most.               *)
LEMMA SecondHopIs ==
  ASSUME NEW cl, NEW r, NEW chunks, Len(chunks) \in {0, 1, 2, 3},
         NEW p1, p1 = FromOpenAI(cl, r, chunks[1]),
         NEW p2, p2 = FromOpenAI(cl, p1, chunks[2]),
         NEW p3, p3 = FromOpenAI(cl, p2, chunks[3])
  PROVE  /\ Len(chunks) = 0 => SecondHop(cl, r, chunks) = r
         /\ Len(chunks) = 1 => SecondHop(cl, r, chunks) = p1
         /\ Len(chunks) = 2 => SecondHop(cl, r, chunks) = p2
         /\ Len(chunks) = 3 => SecondHop(cl, r, chunks) = p3
<1> DEFINE n == Len(chunks)
           R(f) == f = [i \in 0 .. n |-> IF i = 0 THEN r ELSE FromOpenAI(cl, f[i - 1], chunks[i])]
           g == [i \in 0 .. n |-> IF i = 0 THEN r ELSE IF i = 1 THEN p1 ELSE IF i = 2 THEN p2 ELSE p3]
<1>1. n \in {0, 1, 2, 3}
  OBVIOUS
<1> HIDE DEF n
<1>2. \A i \in 0 .. n : i = 0 \/ i = 1 \/ i = 2 \/ i = 3
  BY <1>1
<1>3. \A i \in 0 .. n : i # 0 => i - 1 \in 0 .. n
  BY <1>1
<1>4. R(g)
  <2>1. ASSUME NEW i \in 0 .. n PROVE g[i] = IF i = 0 THEN r ELSE FromOpenAI(cl, g[i - 1], chunks[i])
    <3>1. CASE i = 0
      BY <3>1
    <3>2. CASE i = 1
      BY <1>3, <3>2
    <3>3. CASE i = 2
      BY <1>3, <3>3
    <3>4. CASE i = 3
      BY <1>3, <3>4
    <3>5. QED
      BY <1>2, <3>1, <3>2, <3>3, <3>4
  <2>2. g = [i \in 0 .. n |-> g[i]]
    OBVIOUS
  <2> HIDE DEF g
  <2>3. QED
    BY <2>1, <2>2
<1>5. \E f : R(f)
  BY <1>4
<1>6. PICK f : R(f) /\ SecondHop(cl, r, chunks) = f[n]
  BY <1>5 DEF SecondHop, Fold, n
<1>7. 0 \in 0 .. n /\ (n >= 1 => 1 \in 0 .. n) /\ (n >= 2 => 2 \in 0 .. n) /\ (n = 3 => 3 \in 0 .. n)
  BY <1>1
<1>8. /\ f[0] = r /\ (n >= 1 => f[1] = FromOpenAI(cl, f[0], chunks[1]))
      /\ n >= 2 => f[2] = FromOpenAI(cl, f[1], chunks[2])
      /\ n = 3 => f[3] = FromOpenAI(cl, f[2], chunks[3])
  <2>1. \A i \in 0 .. n : f[i] = IF i = 0 THEN r ELSE FromOpenAI(cl, f[i - 1], chunks[i])
    BY <1>6
  <2>2. f[0] = r
    BY <1>7, <2>1
  <2>3. n >= 1 => f[1] = FromOpenAI(cl, f[0], chunks[1])
    <3>1. 1 - 1 = 0
      OBVIOUS
    <3>2. QED
      BY <1>7, <2>1, <3>1
  <2>4. n >= 2 => f[2] = FromOpenAI(cl, f[1], chunks[2])
    <3>1. 2 - 1 = 1
      OBVIOUS
    <3>2. QED
      BY <1>7, <2>1, <3>1
  <2>5. n = 3 => f[3] = FromOpenAI(cl, f[2], chunks[3])
    <3>1. 3 - 1 = 2
      OBVIOUS
    <3>2. QED
      BY <1>7, <2>1, <3>1
  <2>6. QED
    BY <2>2, <2>3, <2>4, <2>5
<1>9. n \in Nat /\ (n >= 2 => n >= 1) /\ (n = 3 => n >= 2 /\ n >= 1)
  BY <1>1
<1>10. (n >= 1 => f[1] = p1) /\ (n >= 2 => f[2] = p2) /\ (n = 3 => f[3] = p3)
  BY <1>8, <1>9
<1>11. /\ n = 0 => SecondHop(cl, r, chunks) = r
       /\ n = 1 => SecondHop(cl, r, chunks) = p1
       /\ n = 2 => SecondHop(cl, r, chunks) = p2
       /\ n = 3 => SecondHop(cl, r, chunks) = p3
  BY <1>1, <1>6, <1>8, <1>10
<1>12. QED
  BY <1>11 DEF n

(* One chunk.                                                              *)
LEMMA OneSays ==
  ASSUME NEW cl \in Clients, NEW rd \in Readers, NEW s, NEW t \in State, Same(cl, s, t),
         NEW N \in SUBSET Slots, Fits(cl, s, rd, N), NEW A, Holds(cl, s, rd, A),
         NEW c, Takeable(A, c), Usable(cl, c, N), Suits(cl, t, c),
         NEW r, r = SecondHop(cl, Result(t), OnePivot(t, c).out)
  PROVE  Learns(cl, t, rd, A, c, r)
<1> DEFINE b == Result(t)
           chunks == <<c>>
<1>1. Follows(cl, rd, b, N, A) /\ b.st = t
  BY FollowsFirst DEF Result
<1>2. r = SecondHop(cl, b, chunks)
  BY DEF OnePivot
<1>3. Len(chunks) = 1 /\ Len(chunks) \in {0, 1, 2, 3} /\ chunks[1] = c
  OBVIOUS
<1> HIDE DEF b, chunks
<1>4. r = FromOpenAI(cl, b, c)
  BY <1>2, <1>3, SecondHopIs
<1>5. QED
  BY <1>1, <1>4, HopFollows

=============================================================================
