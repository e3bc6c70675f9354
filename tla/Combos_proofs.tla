----------------------------- MODULE Combos_proofs -----------------------------
(***************************************************************************)
(* Theorems about Combos, for any requests, models, lists of bounded       *)
(* length, limits and timeouts.                                            *)
(*                                                                         *)
(* A request's order is made in one step and then kept, so CapableFirst    *)
(* and NoModelDropped come down to what filtering and rotating do to a     *)
(* list (OrderFacts).  RotationFair needs to know where every place of the *)
(* list stands in the pass of the rotation that is under way (LeadInv).    *)
(* The fusion panel's properties follow from the age of the quorum         *)
(* (CollectInv) and from a text staying where it is once it has come       *)
(* (ReadInv).                                                              *)
(***************************************************************************)
EXTENDS Combos, WellFoundedInduction, TLAPS

(* The rotation rot of a list of n models since it was last counted from:  *)
(* place start was the first, after early uses of its turn.  In the pass   *)
(* that is under way the places from start up to the current one have had  *)
(* their StickyLimit uses.                                                 *)
Current(rot, n) == (rot.index % n) + 1

Passed(p, start, current) ==
  IF start <= current THEN start <= p /\ p < current ELSE start <= p \/ p < current

Uses(p, start, early, current, uses) ==
  (IF Passed(p, start, current) THEN StickyLimit ELSE 0) + (IF p = current THEN uses ELSE 0)
    - (IF p = start THEN early ELSE 0)

InPass(d, n, start, early, base, current, uses) ==
  \A p \in 1 .. n : d[p] = Uses(p, start, early, current, uses) + base

LeadFits(l, rot, d) ==
  IF TakesTurn(l)
  THEN /\ \A p \in Places : p > Len(l) => d[p] = 0
       /\ \E p \in 1 .. Len(l) : d[p] = 0
       /\ \E start \in 1 .. Len(l), early \in 0 .. StickyLimit - 1, base \in Int :
            InPass(d, Len(l), start, early, base, Current(rot, Len(l)), rot.uses)
  ELSE d = NoLead

LeadInv == LeadFits(combo, rotation, lead)

OrderInv ==
  /\ CapableFirst
  /\ \A r \in Requests : pc[r] # "idle" => ToSet(list[r]) \subseteq ToSet(order[r])

(* The state a fusion leaves behind, and what it starts from.              *)
AtRest == graceIn = Unset /\ next = 0 /\ answers = {} /\ inTime = {} /\ quorumAge = Unset

CollectInv ==
  stage = "collecting" =>
    /\ next = 0 /\ answers = {} /\ inTime = {}
    /\ graceIn = Unset <=> quorumAge = Unset
    /\ graceIn # Unset => quorumAge + graceIn = Grace
    /\ quorumAge + hardIn <= HardTimeout

ReadInv ==
  stage = "reading" =>
    /\ next >= 1
    /\ \A i \in inTime : call[i] = "text" /\ (i \in answers \/ next <= i)

RestInv == stage \in {"idle", "solo", "judging"} => AtRest

FInv == FusionTypeOK /\ RestInv /\ CollectInv /\ ReadInv
CInv == TypeOK /\ OrderInv /\ LeadInv

-----------------------------------------------------------------------------
(* Numbers, sequences and their elements                                   *)

LEMMA NatMin ==
  ASSUME NEW T, T \subseteq Nat, T # {}
  PROVE  \E x \in T : \A y \in T : x <= y
<1> DEFINE less == OpToRel(<, Nat)
<1>1. PICK x \in T : \A y \in T : <<y, x>> \notin less
  BY NatLessThanWellFounded, WFMin
<1>2. \A y \in T : ~ (y < x)
  BY <1>1 DEF OpToRel
<1>3. QED
  BY <1>2

LEMMA NatMax ==
  ASSUME NEW bound \in Nat, NEW T, T \subseteq 0 .. bound, T # {}
  PROVE  \E x \in T : \A y \in T : x >= y
<1> DEFINE gaps == {bound - x : x \in T}
<1>1. gaps \subseteq Nat /\ gaps # {}
  <2>1. \A x \in 0 .. bound : bound - x \in Nat
    OBVIOUS
  <2>2. QED
    BY <2>1
<1>2. PICK g \in gaps : \A h \in gaps : g <= h
  <2> HIDE DEF gaps
  <2>1. QED
    BY <1>1, NatMin
<1>3. PICK x \in T : g = bound - x
  OBVIOUS
<1>4. \A y \in T : bound - x <= bound - y
  BY <1>2, <1>3
<1>5. \A y \in T : y \in Int
  OBVIOUS
<1>6. QED
  BY <1>3, <1>4, <1>5

(* The place after the last is the first.                                  *)
LEMMA Wraps ==
  ASSUME NEW n \in Nat \ {0}
  PROVE  /\ \A i \in Nat : i % n \in 0 .. n - 1
         /\ \A i \in 0 .. n - 1 : i % n = i /\ (i + 1) % n = IF i = n - 1 THEN 0 ELSE i + 1
<1>1. \A i \in Nat : i % n \in 0 .. n - 1
  OBVIOUS
<1>2. \A i \in Nat : i < n => i % n = i
  OBVIOUS
<1>3. n % n = 0
  OBVIOUS
<1>4. QED
  BY <1>1, <1>2, <1>3

LEMMA InToSet ==
  ASSUME NEW T, NEW s \in Seq(T)
  PROVE  /\ Len(s) \in Nat /\ \A i \in 1 .. Len(s) : s[i] \in T
         /\ \A x : x \in ToSet(s) <=> \E i \in 1 .. Len(s) : x = s[i]
BY DEF ToSet

LEMMA Appended ==
  ASSUME NEW T, NEW s \in Seq(T), NEW e \in T
  PROVE  /\ Append(s, e) \in Seq(T) /\ Len(Append(s, e)) = Len(s) + 1 /\ Append(s, e)[Len(s) + 1] = e
         /\ \A i \in 1 .. Len(s) : Append(s, e)[i] = s[i]
OBVIOUS

LEMMA ElementsOfConcat ==
  ASSUME NEW T, NEW s \in Seq(T), NEW t \in Seq(T)
  PROVE  s \o t \in Seq(T) /\ Len(s \o t) = Len(s) + Len(t) /\ ToSet(s \o t) = ToSet(s) \cup ToSet(t)
<1>1. s \o t \in Seq(T) /\ Len(s \o t) = Len(s) + Len(t) /\ Len(s) \in Nat /\ Len(t) \in Nat
  OBVIOUS
<1>2. \A i \in 1 .. Len(s) : (s \o t)[i] = s[i]
  OBVIOUS
<1>3. \A i \in 1 .. Len(t) : (s \o t)[Len(s) + i] = t[i]
  OBVIOUS
<1>4. \A i \in 1 .. Len(s) + Len(t) : i \in 1 .. Len(s) \/ (i - Len(s) \in 1 .. Len(t) /\ i = Len(s) + (i - Len(s)))
  BY <1>1
<1>5. \A i \in 1 .. Len(t) : Len(s) + i \in 1 .. Len(s \o t)
  BY <1>1
<1>6. \A i \in 1 .. Len(s) : i \in 1 .. Len(s \o t)
  BY <1>1
<1> DEFINE u == s \o t
<1> HIDE DEF u
<1>7. /\ \A x : x \in ToSet(s) <=> \E i \in 1 .. Len(s) : x = s[i]
      /\ \A x : x \in ToSet(t) <=> \E i \in 1 .. Len(t) : x = t[i]
      /\ \A x : x \in ToSet(u) <=> \E i \in 1 .. Len(u) : x = u[i]
  BY <1>1, InToSet DEF u
<1>8. ToSet(u) = ToSet(s) \cup ToSet(t)
  <2>1. ASSUME NEW x \in ToSet(u) PROVE x \in ToSet(s) \cup ToSet(t)
    <3>1. PICK i \in 1 .. Len(u) : x = u[i]
      BY <1>7, <2>1
    <3>2. QED
      BY <1>1, <1>2, <1>3, <1>4, <1>7, <3>1 DEF u
  <2>2. ASSUME NEW x \in ToSet(s) \cup ToSet(t) PROVE x \in ToSet(u)
    BY <1>2, <1>3, <1>5, <1>6, <1>7, <2>2 DEF u
  <2>3. QED
    BY <2>1, <2>2
<1>9. QED
  BY <1>1, <1>8 DEF u

(* Rotating a list permutes it.                                            *)
LEMMA RotatedElements ==
  ASSUME NEW T, NEW s \in Seq(T), NEW k \in 0 .. Len(s)
  PROVE  Rotated(s, k) \in Seq(T) /\ Len(Rotated(s, k)) = Len(s) /\ ToSet(Rotated(s, k)) = ToSet(s)
<1> DEFINE back == SubSeq(s, k + 1, Len(s))
           front == SubSeq(s, 1, k)
<1>1. back \in Seq(T) /\ Len(back) = Len(s) - k /\ \A i \in 1 .. Len(s) - k : back[i] = s[i + k]
  OBVIOUS
<1>2. front \in Seq(T) /\ Len(front) = k /\ \A i \in 1 .. k : front[i] = s[i]
  OBVIOUS
<1> HIDE DEF back, front
<1>3. \A i \in 1 .. Len(s) : i \in 1 .. k \/ (i - k \in 1 .. Len(s) - k /\ i = (i - k) + k)
  OBVIOUS
<1>4. \A i \in 1 .. Len(s) - k : i + k \in 1 .. Len(s)
  OBVIOUS
<1>5. \A i \in 1 .. k : i \in 1 .. Len(s)
  OBVIOUS
<1>6. ToSet(back) \cup ToSet(front) = ToSet(s)
  <2>1. /\ \A x : x \in ToSet(s) <=> \E i \in 1 .. Len(s) : x = s[i]
        /\ \A x : x \in ToSet(back) <=> \E i \in 1 .. Len(back) : x = back[i]
        /\ \A x : x \in ToSet(front) <=> \E i \in 1 .. Len(front) : x = front[i]
    BY <1>1, <1>2, InToSet
  <2>2. ASSUME NEW x \in ToSet(s) PROVE x \in ToSet(back) \cup ToSet(front)
    <3>1. PICK i \in 1 .. Len(s) : x = s[i]
      BY <2>1, <2>2
    <3>2. CASE i \in 1 .. k
      BY <1>2, <2>1, <3>1, <3>2
    <3>3. CASE i - k \in 1 .. Len(s) - k /\ i = (i - k) + k
      BY <1>1, <2>1, <3>1, <3>3
    <3>4. QED
      BY <1>3, <3>2, <3>3
  <2>3. ASSUME NEW x \in ToSet(back) \cup ToSet(front) PROVE x \in ToSet(s)
    BY <1>1, <1>2, <1>4, <1>5, <2>1, <2>3
  <2>4. QED
    BY <2>2, <2>3
<1>7. Rotated(s, k) = back \o front
  BY DEF Rotated, back, front
<1>8. QED
  <2>1. Len(s) \in Nat /\ (Len(s) - k) + k = Len(s)
    OBVIOUS
  <2>2. /\ back \o front \in Seq(T) /\ Len(back \o front) = Len(back) + Len(front)
        /\ ToSet(back \o front) = ToSet(back) \cup ToSet(front)
    BY <1>1, <1>2, ElementsOfConcat, ZenonT(40)
  <2>3. QED
    BY <1>1, <1>2, <1>6, <1>7, <2>1, <2>2

(* The sequence t has what the first n elements of s have in S.            *)
Filters(t, s, T, S, n) ==
  /\ t \in Seq(T) /\ Len(t) <= n
  /\ \A k \in 1 .. Len(t) : t[k] \in S /\ \E j \in 1 .. n : t[k] = s[j]
  /\ \A j \in 1 .. n : s[j] \in S => \E k \in 1 .. Len(t) : t[k] = s[j]

LEMMA FiltersOneMore ==
  ASSUME NEW T, NEW s \in Seq(T), NEW S, NEW i \in 1 .. Len(s),
         NEW old, Filters(old, s, T, S, i - 1),
         NEW t, t = IF s[i] \in S THEN Append(old, s[i]) ELSE old
  PROVE  Filters(t, s, T, S, i)
<1>1. /\ i \in Nat /\ i - 1 \in Nat /\ s[i] \in T
      /\ \A j \in 1 .. i : j = i \/ j \in 1 .. i - 1
      /\ \A j \in 1 .. i - 1 : j \in 1 .. i
  BY InToSet
<1>2. /\ old \in Seq(T) /\ Len(old) \in Nat /\ Len(old) <= i - 1
      /\ \A k \in 1 .. Len(old) : old[k] \in S /\ \E j \in 1 .. i - 1 : old[k] = s[j]
      /\ \A j \in 1 .. i - 1 : s[j] \in S => \E k \in 1 .. Len(old) : old[k] = s[j]
  BY DEF Filters
<1>3. CASE s[i] \notin S
  <2>1. t = old /\ Len(t) <= i
    BY <1>1, <1>2, <1>3
  <2>2. \A k \in 1 .. Len(old) : old[k] \in S /\ \E j \in 1 .. i : old[k] = s[j]
    BY <1>1, <1>2
  <2>3. \A j \in 1 .. i : s[j] \in S => \E k \in 1 .. Len(old) : old[k] = s[j]
    BY <1>1, <1>2, <1>3
  <2>4. QED
    BY <1>2, <2>1, <2>2, <2>3 DEF Filters
<1>4. CASE s[i] \in S
  <2>1. /\ t \in Seq(T) /\ Len(t) = Len(old) + 1 /\ t[Len(old) + 1] = s[i]
        /\ \A k \in 1 .. Len(old) : t[k] = old[k]
    BY <1>1, <1>2, <1>4, Appended
  <2>2. /\ \A k \in 1 .. Len(t) : k \in 1 .. Len(old) \/ k = Len(old) + 1
        /\ \A k \in 1 .. Len(old) : k \in 1 .. Len(t)
        /\ Len(old) + 1 \in 1 .. Len(t) /\ Len(t) <= i
    BY <1>1, <1>2, <2>1
  <2>3. \A k \in 1 .. Len(t) : t[k] \in S /\ \E j \in 1 .. i : t[k] = s[j]
    <3> TAKE k \in 1 .. Len(t)
    <3>1. CASE k \in 1 .. Len(old)
      BY <1>1, <1>2, <2>1, <3>1
    <3>2. CASE k = Len(old) + 1
      BY <1>1, <1>4, <2>1, <3>2
    <3>3. QED
      BY <2>2, <3>1, <3>2
  <2>4. ASSUME NEW j \in 1 .. i, s[j] \in S PROVE \E k \in 1 .. Len(t) : t[k] = s[j]
    <3>1. CASE j = i
      BY <2>1, <2>2, <3>1
    <3>2. CASE j \in 1 .. i - 1
      <4>1. PICK k \in 1 .. Len(old) : old[k] = s[j]
        BY <1>2, <2>4, <3>2
      <4>2. QED
        BY <2>1, <2>2, <4>1
    <3>3. QED
      BY <1>1, <3>1, <3>2
  <2>5. QED
    BY <2>1, <2>2, <2>3, <2>4 DEF Filters
<1>5. QED
  BY <1>3, <1>4

(* Filtering keeps exactly the elements that are in the set.  The function *)
(* Selected is defined by exists, by induction over its length, and so has *)
(* what each of its values is claimed to be.                               *)
LEMMA SelectedElements ==
  ASSUME NEW T, NEW s \in Seq(T), NEW S
  PROVE  /\ Selected(s, S) \in Seq(T) /\ Len(Selected(s, S)) <= Len(s)
         /\ ToSet(Selected(s, S)) = ToSet(s) \cap S
<1> DEFINE Grown(f, i) ==
      IF i = 0 THEN <<>> ELSE IF s[i] \in S THEN Append(f[i - 1], s[i]) ELSE f[i - 1]
    Defined(n) == \E f : f = [i \in 0 .. n |-> Grown(f, i)]
<1>1. Len(s) \in Nat
  OBVIOUS
<1>2. \A n \in Nat : Defined(n)
  <2> SUFFICES ASSUME \E n \in Nat : ~ Defined(n) PROVE FALSE
    OBVIOUS
  <2> DEFINE holes == {n \in Nat : ~ Defined(n)}
  <2>1. PICK n \in holes : \A k \in holes : n <= k
    <3>1. holes \subseteq Nat /\ holes # {}
      OBVIOUS
    <3> HIDE DEF holes
    <3>2. QED
      BY <3>1, NatMin
  <2>2. n # 0
    <3> DEFINE f == [i \in 0 .. 0 |-> <<>>]
    <3>1. f = [i \in 0 .. 0 |-> Grown(f, i)]
      OBVIOUS
    <3>2. Defined(0)
      BY <3>1
    <3>3. QED
      BY <3>2
  <2>3. n \in Nat /\ n - 1 \in Nat /\ Defined(n - 1)
    <3> HIDE DEF Defined
    <3>1. n \in Nat /\ n - 1 \in Nat /\ ~ (n <= n - 1)
      BY <2>1, <2>2
    <3>2. QED
      BY <2>1, <3>1
  <2>4. PICK f : f = [i \in 0 .. n - 1 |-> Grown(f, i)]
    BY <2>3
  <2> DEFINE g == [i \in 0 .. n |-> IF i = n THEN Grown(f, n) ELSE f[i]]
  <2>5. ASSUME NEW i \in 0 .. n PROVE g[i] = Grown(g, i)
    <3>1. CASE i = 0
      BY <2>2, <2>3, <2>4, <3>1
    <3>2. CASE i # 0
      <4>1. i - 1 \in 0 .. n - 1 /\ i - 1 # n /\ i - 1 \in 0 .. n
        BY <2>3, <3>2
      <4>2. g[i - 1] = f[i - 1]
        BY <4>1
      <4>3. CASE i = n
        BY <3>2, <4>2, <4>3
      <4>4. CASE i # n
        <5>1. i \in 0 .. n - 1
          BY <2>3, <4>4
        <5>2. g[i] = f[i] /\ f[i] = Grown(f, i)
          BY <2>4, <4>4, <5>1
        <5>3. QED
          BY <3>2, <4>2, <5>2
      <4>5. QED
        BY <4>3, <4>4
    <3>3. QED
      BY <3>1, <3>2
  <2>6. g = [i \in 0 .. n |-> Grown(g, i)]
    <3>1. g = [i \in 0 .. n |-> g[i]]
      OBVIOUS
    <3> HIDE DEF g
    <3>2. QED
      BY <2>5, <3>1
  <2>7. Defined(n)
    <3> HIDE DEF g
    <3>1. QED
      BY <2>6
  <2>8. QED
    BY <2>7
<1>3. PICK f : f = [i \in 0 .. Len(s) |-> Grown(f, i)] /\ Selected(s, S) = f[Len(s)]
  BY <1>1, <1>2 DEF Selected
<1>4. Filters(f[0], s, T, S, 0)
  <2>1. f[0] = <<>>
    BY <1>1, <1>3
  <2>2. QED
    BY <2>1 DEF Filters
<1>5. ASSUME NEW i \in 1 .. Len(s), Filters(f[i - 1], s, T, S, i - 1) PROVE Filters(f[i], s, T, S, i)
  <2>1. i \in 0 .. Len(s) /\ i # 0
    BY <1>1
  <2>2. f[i] = IF s[i] \in S THEN Append(f[i - 1], s[i]) ELSE f[i - 1]
    BY <1>3, <2>1
  <2>3. QED
    BY <1>5, <2>2, FiltersOneMore
<1>6. Filters(f[Len(s)], s, T, S, Len(s))
  <2> DEFINE wrong == {i \in 0 .. Len(s) : ~ Filters(f[i], s, T, S, i)}
  <2>1. ASSUME wrong # {} PROVE FALSE
    <3>1. wrong \subseteq Nat
      OBVIOUS
    <3>2. PICK i \in wrong : \A k \in wrong : i <= k
      <4> HIDE DEF wrong
      <4>1. QED
        BY <2>1, <3>1, NatMin
    <3>3. i # 0 /\ i \in 1 .. Len(s) /\ i - 1 \in 0 .. Len(s) /\ ~ (i <= i - 1)
      BY <1>1, <1>4, <3>2
    <3>4. Filters(f[i - 1], s, T, S, i - 1)
      BY <3>2, <3>3
    <3>5. Filters(f[i], s, T, S, i)
      BY <1>5, <3>3, <3>4
    <3>6. QED
      BY <3>2, <3>5
  <2>2. QED
    BY <1>1, <2>1
<1>7. QED
  <2> DEFINE t == f[Len(s)]
  <2>1. Filters(t, s, T, S, Len(s))
    BY <1>6
  <2>2. t = Selected(s, S)
    BY <1>3
  <2> HIDE DEF t
  <2>3. ToSet(t) = ToSet(s) \cap S
    <3>1. /\ \A x : x \in ToSet(s) <=> \E i \in 1 .. Len(s) : x = s[i]
          /\ \A x : x \in ToSet(t) <=> \E i \in 1 .. Len(t) : x = t[i]
      BY <2>1, InToSet DEF Filters
    <3>2. ASSUME NEW x \in ToSet(t) PROVE x \in ToSet(s) \cap S
      <4>1. PICK k \in 1 .. Len(t) : x = t[k]
        BY <3>1, <3>2
      <4>2. t[k] \in S /\ \E j \in 1 .. Len(s) : t[k] = s[j]
        BY <2>1 DEF Filters
      <4>3. QED
        BY <3>1, <4>1, <4>2
    <3>3. ASSUME NEW x \in ToSet(s) \cap S PROVE x \in ToSet(t)
      BY <2>1, <3>1, <3>3 DEF Filters
    <3>4. QED
      BY <3>2, <3>3
  <2>4. QED
    BY <2>1, <2>2, <2>3 DEF Filters

-----------------------------------------------------------------------------
(* The lists of a request                                                  *)

(* An upper bound of a set that is in it is its Max.                       *)
LEMMA MaxIs ==
  ASSUME NEW T, T \subseteq Int, NEW m \in T, \A x \in T : m >= x
  PROVE  Max(T) = m
<1>1. Max(T) \in T /\ \A x \in T : Max(T) >= x
  BY DEF Max
<1> DEFINE top == Max(T)
<1> HIDE DEF top
<1>2. top \in T /\ m \in Int /\ top \in Int /\ top >= m /\ m >= top
  BY <1>1 DEF top
<1>3. top = m
  BY <1>2
<1>4. QED
  BY <1>3 DEF top

(* There is a place for every element of an augmented list.                *)
LEMMA EnoughPlaces ==
  ASSUME NEW l \in Lists
  PROVE  \E n \in Nat : /\ Places = 1 .. n /\ Max(Places) = n
                        /\ \A k \in Lists : Len(k) \in 1 .. n /\ Len(k) + Len(Pool) <= n
<1> DEFINE lens == {Len(k) : k \in Lists}
<1>1. \A k \in Lists : k \in Seq(Models) /\ Len(k) \in Nat /\ Len(k) # 0
  <2>1. \A k \in Lists : k \in Seq(Models) /\ k # <<>>
    BY ComboAssumption
  <2>2. \A k \in Seq(Models) : Len(k) \in Nat /\ (Len(k) = 0 => k = <<>>)
    OBVIOUS
  <2>3. QED
    BY <2>1, <2>2
<1>2. lens \subseteq 0 .. MaxPanel /\ lens # {} /\ MaxPanel \in Nat
  <2>1. \A k \in Lists : Len(k) <= MaxPanel
    BY CombosAssumption
  <2>2. MaxPanel \in Nat
    BY FusionAssumption
  <2>3. \A k \in Lists : Len(k) \in 0 .. MaxPanel
    BY <1>1, <2>1, <2>2
  <2>4. QED
    BY <2>2, <2>3
<1>3. PICK m \in lens : \A x \in lens : m >= x
  <2> HIDE DEF lens
  <2>1. QED
    BY <1>2, NatMax
<1>4. Max(lens) = m /\ m \in Nat
  <2>1. m \in Nat /\ lens \subseteq Int
    BY <1>1
  <2> HIDE DEF lens
  <2>2. QED
    BY <1>3, <2>1, MaxIs
<1>5. \A k \in Lists : Len(k) <= m
  BY <1>1, <1>3
<1>6. Len(Pool) \in Nat
  <2>1. Pool \in Seq(Models)
    BY ComboAssumption
  <2> HIDE DEF Models
  <2>2. QED
    BY <2>1
<1> DEFINE n == m + Len(Pool)
<1>7. Places = 1 .. n
  BY <1>4 DEF Places
<1>8. n \in Nat /\ n >= 1
  BY <1>1, <1>4, <1>5, <1>6
<1>9. Max(1 .. n) = n
  <2>1. n \in 1 .. n /\ 1 .. n \subseteq Int /\ \A x \in 1 .. n : n >= x
    BY <1>8
  <2> HIDE DEF n
  <2>2. QED
    BY <2>1, MaxIs
<1>10. \A k \in Lists : Len(k) \in 1 .. n /\ Len(k) + Len(Pool) <= n
  BY <1>1, <1>4, <1>5, <1>6, <1>8
<1>11. QED
  BY <1>7, <1>8, <1>9, <1>10

(* What the capacity adapter makes of a list.                              *)
LEMMA AugmentedFacts ==
  ASSUME NEW l \in Lists, NEW n \in BOOLEAN
  PROVE  /\ Augmented(l, n) \in Seq(Models)
         /\ Len(l) \in Nat /\ Len(l) <= Len(Augmented(l, n)) /\ Len(Augmented(l, n)) <= Len(l) + Len(Pool)
         /\ Len(l) >= 1
         /\ ToSet(l) \subseteq ToSet(Augmented(l, n))
         /\ ToSet(l) \cap Capable # {} => Augmented(l, n) = l
<1>1. l \in Seq(Models) /\ l # <<>> /\ Pool \in Seq(Models)
  BY ComboAssumption
<1> DEFINE extra == Selected(Pool, Capable \ ToSet(l))
<1>2. extra \in Seq(Models) /\ Len(extra) <= Len(Pool)
  BY <1>1, SelectedElements
<1> HIDE DEF extra, Models
<1>3. /\ extra \o l \in Seq(Models) /\ Len(extra \o l) = Len(extra) + Len(l)
      /\ ToSet(extra \o l) = ToSet(extra) \cup ToSet(l)
  BY <1>1, <1>2, ElementsOfConcat
<1>4. Len(l) \in Nat /\ Len(extra) \in Nat /\ Len(Pool) \in Nat /\ Len(l) # 0
  BY <1>1, <1>2
<1>5. Augmented(l, n) = IF n /\ ToSet(l) \cap Capable = {} THEN extra \o l ELSE l
  BY DEF Augmented, extra
<1>6. CASE n /\ ToSet(l) \cap Capable = {}
  BY <1>2, <1>3, <1>4, <1>5, <1>6
<1>7. CASE ~ (n /\ ToSet(l) \cap Capable = {})
  BY <1>1, <1>4, <1>5, <1>7
<1>8. QED
  BY <1>6, <1>7

(* The order is a permutation of the list as the adapter left it, and a    *)
(* model that takes attachments is in front if there is one.               *)
LEMMA OrderFacts ==
  ASSUME NEW a \in Seq(Models), a # <<>>, rotation.index \in Nat, NEW n \in BOOLEAN
  PROVE  /\ Order(a, n) \in Seq(Models) /\ Order(a, n) # <<>> /\ ToSet(Order(a, n)) = ToSet(a)
         /\ Len(Order(a, n)) \in Nat /\ Len(Order(a, n)) >= 1 /\ Head(Order(a, n)) \in ToSet(a)
         /\ n /\ ToSet(a) \cap Capable # {} => Head(Order(a, n)) \in Capable
<1> DEFINE turned == IF TakesTurn(a) THEN Rotated(a, rotation.index % Len(a)) ELSE a
           o == Order(a, n)
<1>1. o = Reordered(turned, n)
  BY DEF Order
<1>2. turned \in Seq(Models) /\ ToSet(turned) = ToSet(a)
  <2>1. Len(a) \in Nat \ {0}
    BY DEF Models
  <2>2. rotation.index % Len(a) \in 0 .. Len(a)
    BY <2>1
  <2>3. /\ Rotated(a, rotation.index % Len(a)) \in Seq(Models)
        /\ ToSet(Rotated(a, rotation.index % Len(a))) = ToSet(a)
    BY <2>2, RotatedElements
  <2>4. QED
    BY <2>3
<1> HIDE DEF turned, o
<1> DEFINE able == Selected(turned, Capable)
           rest == Selected(turned, Models \ Capable)
<1>3. /\ able \in Seq(Models) /\ ToSet(able) = ToSet(a) \cap Capable
      /\ rest \in Seq(Models) /\ ToSet(rest) = ToSet(a) \cap (Models \ Capable)
  BY <1>2, SelectedElements
<1> HIDE DEF able, rest
<1>4. able \o rest \in Seq(Models) /\ ToSet(able \o rest) = ToSet(able) \cup ToSet(rest)
  BY <1>3, ElementsOfConcat
<1>5. ToSet(a) \subseteq Models
  BY InToSet
<1>6. o = IF n THEN able \o rest ELSE turned
  BY <1>1 DEF Reordered, able, rest
<1>7. o \in Seq(Models) /\ ToSet(o) = ToSet(a)
  BY <1>2, <1>3, <1>4, <1>5, <1>6
<1>8. ToSet(a) # {}
  <2>1. Len(a) \in Nat /\ Len(a) # 0
    BY DEF Models
  <2>2. 1 \in 1 .. Len(a)
    BY <2>1
  <2>3. QED
    BY <2>2, InToSet
<1>9. Len(o) \in Nat /\ o # <<>> /\ Len(o) >= 1 /\ Head(o) \in ToSet(a)
  <2>1. PICK x : x \in ToSet(o)
    BY <1>7, <1>8
  <2>2. Len(o) \in Nat /\ \E i \in 1 .. Len(o) : x = o[i]
    BY <1>7, <2>1, InToSet
  <2>3. Len(o) >= 1 /\ o # <<>> /\ 1 \in 1 .. Len(o)
    BY <2>2
  <2>4. Head(o) = o[1]
    BY <1>7, <2>3
  <2>5. QED
    BY <1>7, <2>2, <2>3, <2>4, InToSet
<1>10. ASSUME n, ToSet(a) \cap Capable # {} PROVE Head(o) \in Capable
  <2>1. PICK x : x \in ToSet(able)
    BY <1>3, <1>10
  <2>2. Len(able) \in Nat /\ (\E i \in 1 .. Len(able) : x = able[i])
    BY <1>3, <2>1, InToSet
  <2>3. 1 \in 1 .. Len(able)
    BY <2>2
  <2>4. able[1] \in ToSet(able)
    BY <1>3, <2>3, InToSet
  <2>5. Head(o) = o[1]
    BY <1>7, <1>9
  <2>6. o[1] = able[1]
    BY <1>3, <1>6, <1>10, <2>3 DEF Models
  <2>7. QED
    BY <1>3, <2>4, <2>5, <2>6
<1>11. QED
  BY <1>7, <1>9, <1>10 DEF o

-----------------------------------------------------------------------------
(* The rotation                                                            *)

Rotations == [index : 0 .. Max(Places) - 1, uses : 0 .. StickyLimit - 1]

(* Counting can start anywhere: all places are level.                      *)
LEMMA LeadStarts ==
  ASSUME NEW l \in Lists, NEW rot \in Rotations
  PROVE  LeadFits(l, rot, NoLead)
<1> SUFFICES ASSUME TakesTurn(l)
             PROVE  /\ \A p \in Places : p > Len(l) => NoLead[p] = 0
                    /\ \E p \in 1 .. Len(l) : NoLead[p] = 0
                    /\ \E start \in 1 .. Len(l), early \in 0 .. StickyLimit - 1, base \in Int :
                         InPass(NoLead, Len(l), start, early, base, Current(rot, Len(l)), rot.uses)
  BY DEF LeadFits
<1>1. PICK n \in Nat : Places = 1 .. n /\ Max(Places) = n /\ Len(l) \in 1 .. n
  BY EnoughPlaces
<1>2. rot.index \in Nat /\ rot.uses \in 0 .. StickyLimit - 1
  BY <1>1 DEF Rotations
<1>3. \A p \in 1 .. Len(l) : NoLead[p] = 0
  BY <1>1 DEF NoLead
<1> DEFINE current == Current(rot, Len(l))
<1>4. current \in 1 .. Len(l)
  BY <1>1, <1>2 DEF Current
<1> HIDE DEF current
<1>5. ASSUME NEW p \in 1 .. Len(l) PROVE Uses(p, current, rot.uses, current, rot.uses) = 0
  BY <1>1, <1>2, <1>4 DEF Uses, Passed
<1>6. InPass(NoLead, Len(l), current, rot.uses, 0, current, rot.uses)
  BY <1>3, <1>5 DEF InPass
<1>7. QED
  BY <1>1, <1>2, <1>3, <1>4, <1>6 DEF current, NoLead

(* The pass after one more use.                                            *)
LEMMA NextUse ==
  ASSUME NEW n \in Nat, n > 1, NEW start \in 1 .. n, NEW current \in 1 .. n,
         NEW early \in 0 .. StickyLimit - 1, NEW uses \in 0 .. StickyLimit - 1, NEW base \in Int,
         NEW d, InPass(d, n, start, early, base, current, uses),
         NEW taken, \A p \in 1 .. n : taken[p] = IF p = current THEN d[p] + 1 ELSE d[p]
  PROVE  \E base2 \in Int :
           IF uses + 1 >= StickyLimit
           THEN InPass(taken, n, start, early, base2, IF current = n THEN 1 ELSE current + 1, 0)
           ELSE InPass(taken, n, start, early, base2, current, uses + 1)
<1>1. StickyLimit \in Nat /\ StickyLimit >= 1
  BY ComboAssumption
<1>2. \A p \in 1 .. n : d[p] = Uses(p, start, early, current, uses) + base
  BY DEF InPass
<1>3. CASE uses + 1 < StickyLimit
  <2>1. ASSUME NEW p \in 1 .. n PROVE taken[p] = Uses(p, start, early, current, uses + 1) + base
    BY <1>1, <1>2 DEF Uses, Passed
  <2>2. InPass(taken, n, start, early, base, current, uses + 1)
    BY <2>1 DEF InPass
  <2>3. QED
    BY <1>1, <1>3, <2>2
<1>4. CASE uses + 1 = StickyLimit
  <2> DEFINE onward == IF current = n THEN 1 ELSE current + 1
  <2>1. CASE onward = start
    <3>1. ASSUME NEW p \in 1 .. n
          PROVE  taken[p] = Uses(p, start, early, onward, 0) + (base + StickyLimit)
      <4>1. Passed(p, start, current) <=> p # current
        BY <2>1 DEF Passed
      <4>2. ~ Passed(p, start, onward)
        BY <2>1 DEF Passed
      <4>3. current # start
        BY <2>1
      <4>4. taken[p] = IF p = current THEN d[p] + 1 ELSE d[p]
        OBVIOUS
      <4>5. QED
        BY <1>1, <1>2, <1>4, <4>1, <4>2, <4>3, <4>4 DEF Uses
    <3>2. InPass(taken, n, start, early, base + StickyLimit, onward, 0) /\ base + StickyLimit \in Int
      BY <1>1, <3>1 DEF InPass
    <3>3. QED
      BY <1>1, <1>4, <3>2
  <2>2. CASE onward # start
    <3>1. ASSUME NEW p \in 1 .. n PROVE taken[p] = Uses(p, start, early, onward, 0) + base
      <4>1. Passed(p, start, onward) <=> (p = current \/ Passed(p, start, current))
        BY <2>2 DEF Passed
      <4>2. ~ Passed(current, start, current)
        BY DEF Passed
      <4>3. taken[p] = IF p = current THEN d[p] + 1 ELSE d[p]
        OBVIOUS
      <4>4. QED
        BY <1>1, <1>2, <1>4, <4>1, <4>2, <4>3 DEF Uses
    <3>2. InPass(taken, n, start, early, base, onward, 0)
      BY <3>1 DEF InPass
    <3>3. QED
      BY <1>1, <1>4, <3>2
  <2>3. QED
    BY <2>1, <2>2
<1>5. QED
  BY <1>1, <1>3, <1>4

(* The next turn of the rotation.                                          *)
LEMMA TurnFacts ==
  ASSUME TypeOK, NEW n \in Nat, n > 1
  PROVE  LET current == Current(rotation, n) IN
         /\ current \in 1 .. n /\ current = (rotation.index % n) + 1
         /\ NextTurn(n) \in [index : 0 .. n - 1, uses : 0 .. StickyLimit - 1]
         /\ IF rotation.uses + 1 >= StickyLimit
            THEN /\ Current(NextTurn(n), n) = (IF current = n THEN 1 ELSE current + 1)
                 /\ NextTurn(n).uses = 0
            ELSE Current(NextTurn(n), n) = current /\ NextTurn(n).uses = rotation.uses + 1
<1>1. StickyLimit \in Nat /\ StickyLimit >= 1
  BY ComboAssumption
<1>2. rotation.index \in Nat /\ rotation.uses \in 0 .. StickyLimit - 1
  <2>1. rotation \in Rotations /\ combo \in Lists
    BY DEF TypeOK, Rotations
  <2>2. rotation.index \in 0 .. Max(Places) - 1 /\ rotation.uses \in 0 .. StickyLimit - 1
    BY <2>1 DEF Rotations
  <2>3. Max(Places) \in Nat
    BY <2>1, EnoughPlaces
  <2>4. QED
    BY <2>2, <2>3
<1> DEFINE index == rotation.index % n
<1>a. /\ \A i \in Nat : i % n \in 0 .. n - 1
      /\ \A i \in 0 .. n - 1 : i % n = i /\ (i + 1) % n = IF i = n - 1 THEN 0 ELSE i + 1
  <2>1. n \in Nat \ {0}
    OBVIOUS
  <2>2. QED
    BY <2>1, Wraps
<1>3. index \in 0 .. n - 1
  BY <1>2, <1>a
<1> HIDE DEF index
<1>4. (index + 1) % n = (IF index = n - 1 THEN 0 ELSE index + 1) /\ index % n = index
  BY <1>3, <1>a
<1>5. Current(rotation, n) = index + 1
  BY DEF Current, index
<1>6. CASE rotation.uses + 1 >= StickyLimit
  <2>1. NextTurn(n) = [index |-> (index + 1) % n, uses |-> 0]
    BY <1>6 DEF NextTurn, index
  <2>2. (index + 1) % n \in 0 .. n - 1 /\ ((index + 1) % n) % n = (index + 1) % n
    BY <1>3, <1>4, <1>a
  <2>3. Current(NextTurn(n), n) = ((index + 1) % n) + 1 /\ NextTurn(n).uses = 0
    BY <2>1, <2>2 DEF Current
  <2>4. QED
    BY <1>1, <1>3, <1>4, <1>5, <1>6, <2>1, <2>2, <2>3 DEF index
<1>7. CASE ~ (rotation.uses + 1 >= StickyLimit)
  <2>1. NextTurn(n) = [index |-> index, uses |-> rotation.uses + 1]
    BY <1>7 DEF NextTurn, index
  <2>2. Current(NextTurn(n), n) = index + 1 /\ NextTurn(n).uses = rotation.uses + 1
    BY <1>4, <2>1 DEF Current
  <2>3. rotation.uses + 1 \in 0 .. StickyLimit - 1
    BY <1>1, <1>2, <1>7
  <2>4. QED
    BY <1>3, <1>5, <1>7, <2>1, <2>2, <2>3 DEF index
<1>8. QED
  BY <1>6, <1>7

(* A turn of the list itself moves the pass on.                            *)
LEMMA LeadMoves ==
  ASSUME TypeOK, LeadInv, TakesTurn(combo)
  PROVE  /\ LeadAfterTurn(Len(combo)) \in [Places -> Nat]
         /\ LeadFits(combo, NextTurn(Len(combo)), LeadAfterTurn(Len(combo)))
<1> DEFINE n == Len(combo)
           current == Current(rotation, n)
           taken == [lead EXCEPT ![(rotation.index % n) + 1] = @ + 1]
           after == LeadAfterTurn(n)
           rot == NextTurn(n)
           onward == Current(rot, n)
<1>1. combo \in Lists /\ lead \in [Places -> Nat] /\ rotation \in Rotations
  BY DEF TypeOK, Rotations
<1>2. PICK m \in Nat : Places = 1 .. m /\ n \in 1 .. m
  BY <1>1, EnoughPlaces
<1>3. n \in Nat /\ n > 1
  BY <1>2 DEF TakesTurn
<1>4. current \in 1 .. n /\ current = (rotation.index % n) + 1
  BY <1>3, TurnFacts
<1>5. IF rotation.uses + 1 >= StickyLimit
      THEN onward = (IF current = n THEN 1 ELSE current + 1) /\ rot.uses = 0
      ELSE onward = current /\ rot.uses = rotation.uses + 1
  BY <1>3, TurnFacts
<1> HIDE DEF current, onward, rot, n
<1>6. /\ taken \in [Places -> Nat]
      /\ \A p \in Places : taken[p] = IF p = current THEN lead[p] + 1 ELSE lead[p]
  BY <1>1, <1>2, <1>4
<1>7. /\ \A p \in Places : p > n => lead[p] = 0
      /\ \E p \in 1 .. n : lead[p] = 0
      /\ \E start \in 1 .. n, early \in 0 .. StickyLimit - 1, base \in Int :
           InPass(lead, n, start, early, base, current, rotation.uses)
  BY DEF LeadInv, LeadFits, n, current
<1>8. PICK start \in 1 .. n, early \in 0 .. StickyLimit - 1, base \in Int :
         InPass(taken, n, start, early, base, onward, rot.uses)
  <2>1. PICK start \in 1 .. n, early \in 0 .. StickyLimit - 1, base \in Int :
          InPass(lead, n, start, early, base, current, rotation.uses)
    BY <1>7
  <2>2. rotation.uses \in 0 .. StickyLimit - 1
    BY <1>1 DEF Rotations
  <2>3. \A p \in 1 .. n : taken[p] = IF p = current THEN lead[p] + 1 ELSE lead[p]
    BY <1>2, <1>6
  <2> HIDE DEF taken
  <2>4. \E base2 \in Int :
           IF rotation.uses + 1 >= StickyLimit
           THEN InPass(taken, n, start, early, base2, IF current = n THEN 1 ELSE current + 1, 0)
           ELSE InPass(taken, n, start, early, base2, current, rotation.uses + 1)
    BY <1>3, <1>4, <2>1, <2>2, <2>3, NextUse
  <2>5. QED
    BY <1>5, <2>4
<1>9. after = IF \A p \in 1 .. n : taken[p] > 0 THEN [p \in Places |-> IF p <= n THEN taken[p] - 1 ELSE 0]
              ELSE taken
  BY DEF LeadAfterTurn
<1> HIDE DEF taken, after
<1>10. \A p \in Places : p > n => taken[p] = 0
  BY <1>2, <1>3, <1>4, <1>6, <1>7, SMTT(30)
<1>11. \A p \in 1 .. n : p \in Places /\ taken[p] \in Nat /\ lead[p] \in Nat
  BY <1>1, <1>2, <1>6
<1>12. /\ after \in [Places -> Nat]
       /\ \A p \in Places : p > n => after[p] = 0
       /\ \E p \in 1 .. n : after[p] = 0
       /\ \E b \in Int : InPass(after, n, start, early, b, onward, rot.uses)
  <2>1. CASE \A p \in 1 .. n : taken[p] > 0
    <3>1. after = [p \in Places |-> IF p <= n THEN taken[p] - 1 ELSE 0]
      BY <1>9, <2>1
    <3>2. \A p \in 1 .. n : after[p] = taken[p] - 1 /\ taken[p] - 1 \in Nat
      BY <1>2, <1>11, <2>1, <3>1
    <3>3. \A p \in Places : p > n => after[p] = 0
      BY <1>2, <3>1
    <3>4. after \in [Places -> Nat]
      <4>1. \A p \in Places : (IF p <= n THEN taken[p] - 1 ELSE 0) \in Nat
        BY <1>2, <1>3, <3>2
      <4>2. QED
        BY <3>1, <4>1
    <3>5. \E p \in 1 .. n : after[p] = 0
      <4>1. PICK p \in 1 .. n : lead[p] = 0
        BY <1>7
      <4>2. p = current /\ taken[p] = 1
        BY <1>2, <1>6, <1>11, <2>1, <4>1
      <4>3. QED
        BY <3>2, <4>2
    <3>6. InPass(after, n, start, early, base - 1, onward, rot.uses) /\ base - 1 \in Int
      <4>1. ASSUME NEW p \in 1 .. n
            PROVE  after[p] = Uses(p, start, early, onward, rot.uses) + (base - 1)
        <5>1. taken[p] = Uses(p, start, early, onward, rot.uses) + base
          BY <1>8 DEF InPass
        <5>2. Uses(p, start, early, onward, rot.uses) \in Int
          <6>1. rot.uses \in Int /\ StickyLimit \in Int
            BY <1>1, <1>5, ComboAssumption DEF Rotations
          <6>2. QED
            BY <6>1 DEF Uses
        <5>3. QED
          BY <3>2, <5>1, <5>2
      <4>2. QED
        BY <4>1 DEF InPass
    <3>7. QED
      BY <3>3, <3>4, <3>5, <3>6
  <2>2. CASE ~ \A p \in 1 .. n : taken[p] > 0
    <3>1. after = taken
      BY <1>9, <2>2
    <3>2. \E p \in 1 .. n : taken[p] = 0
      BY <1>11, <2>2
    <3>3. QED
      BY <1>6, <1>8, <1>10, <3>1, <3>2
  <2>3. QED
    BY <2>1, <2>2
<1>13. LeadFits(combo, rot, after)
  BY <1>12 DEF LeadFits, n, onward
<1>14. QED
  BY <1>12, <1>13 DEF n, rot, after

(* No place is more than a turn of StickyLimit uses ahead of the last one. *)
LEMMA LeadIsFair ==
  ASSUME TypeOK, LeadInv
  PROVE  RotationFair
<1>1. StickyLimit \in Nat /\ StickyLimit >= 1
  BY ComboAssumption
<1>2. combo \in Lists /\ rotation \in Rotations
  BY DEF TypeOK, Rotations
<1>3. PICK m \in Nat : Places = 1 .. m /\ Len(combo) \in 1 .. m
  BY <1>2, EnoughPlaces
<1>4. SUFFICES ASSUME NEW p \in Places PROVE lead[p] <= StickyLimit
  BY DEF RotationFair
<1>5. CASE lead = NoLead
  BY <1>1, <1>5 DEF NoLead
<1>6. CASE TakesTurn(combo)
  <2> DEFINE n == Len(combo)
             current == Current(rotation, n)
  <2>1. n \in Nat /\ n > 1
    BY <1>3, <1>6 DEF TakesTurn
  <2>2. current \in 1 .. n
    BY <2>1, TurnFacts
  <2>3. rotation.uses \in 0 .. StickyLimit - 1
    BY <1>2 DEF Rotations
  <2>4. /\ \A q \in Places : q > n => lead[q] = 0
        /\ \E q \in 1 .. n : lead[q] = 0
        /\ \E start \in 1 .. n, early \in 0 .. StickyLimit - 1, base \in Int :
             InPass(lead, n, start, early, base, current, rotation.uses)
    BY <1>6 DEF LeadInv, LeadFits
  <2> HIDE DEF n, current
  <2>5. PICK q \in 1 .. n : lead[q] = 0
    BY <2>4
  <2>6. PICK start \in 1 .. n, early \in 0 .. StickyLimit - 1, base \in Int :
          \A i \in 1 .. n : lead[i] = Uses(i, start, early, current, rotation.uses) + base
    BY <2>4 DEF InPass
  <2>7. CASE p > n
    BY <1>1, <2>4, <2>7
  <2>8. CASE p \in 1 .. n
    <3>1. lead[p] = Uses(p, start, early, current, rotation.uses) + base
      BY <2>6, <2>8
    <3>2. 0 = Uses(q, start, early, current, rotation.uses) + base
      BY <2>5, <2>6
    <3>3. Uses(p, start, early, current, rotation.uses) - Uses(q, start, early, current, rotation.uses) <= StickyLimit
      BY <1>1, <2>1, <2>2, <2>3, <2>8 DEF Uses, Passed
    <3>4. \A i \in 1 .. n : Uses(i, start, early, current, rotation.uses) \in Int
      BY <1>1, <2>3 DEF Uses
    <3>5. QED
      BY <2>8, <3>1, <3>2, <3>3, <3>4
  <2>9. QED
    BY <1>3, <2>1, <2>7, <2>8
<1>7. QED
  BY <1>5, <1>6 DEF LeadInv, LeadFits

-----------------------------------------------------------------------------
(* A combo in turn: CInv is inductive                                      *)

LEMMA CInvAtStart ==
  Init => CInv
<1> SUFFICES ASSUME Init PROVE CInv
  OBVIOUS
<1>1. StickyLimit \in Nat /\ StickyLimit >= 1 /\ MaxEdits \in Nat
  BY ComboAssumption
<1>2. PICK m \in Nat : Places = 1 .. m /\ Max(Places) = m /\ Len(combo) \in 1 .. m
  BY EnoughPlaces DEF Init
<1>3. rotation \in Rotations
  BY <1>1, <1>2 DEF Init, Rotations
<1>4. TypeOK
  BY <1>1, <1>3 DEF Init, TypeOK, Rotations, NoLead
<1>5. LeadInv
  BY <1>3, LeadStarts DEF Init, LeadInv
<1>6. OrderInv
  BY DEF Init, OrderInv, CapableFirst
<1>7. QED
  BY <1>4, <1>5, <1>6 DEF CInv

LEMMA StartKeeps ==
  ASSUME CInv, NEW r \in Requests, Start(r)
  PROVE  CInv'
<1>1. PICK n \in BOOLEAN :
        LET l == Augmented(combo, n) IN
        /\ needs' = [needs EXCEPT ![r] = n]
        /\ order' = [order EXCEPT ![r] = Order(l, n)]
        /\ IF TakesTurn(l) THEN rotation' = NextTurn(Len(l)) ELSE UNCHANGED rotation
        /\ lead' = IF l # combo THEN NoLead ELSE IF TakesTurn(l) THEN LeadAfterTurn(Len(l)) ELSE lead
  BY DEF Start
<1> DEFINE a == Augmented(combo, n)
           o == Order(a, n)
<1>2. /\ needs' = [needs EXCEPT ![r] = n]
      /\ order' = [order EXCEPT ![r] = o]
      /\ IF TakesTurn(a) THEN rotation' = NextTurn(Len(a)) ELSE UNCHANGED rotation
      /\ lead' = IF a # combo THEN NoLead ELSE IF TakesTurn(a) THEN LeadAfterTurn(Len(a)) ELSE lead
      /\ list' = [list EXCEPT ![r] = combo] /\ at' = [at EXCEPT ![r] = 1]
      /\ pc' = [pc EXCEPT ![r] = "calling"] /\ combo' = combo /\ served' = served /\ edits' = edits
  BY <1>1 DEF Start
<1>3. TypeOK /\ LeadInv /\ OrderInv /\ combo \in Lists /\ rotation \in Rotations
  BY DEF CInv, TypeOK, Rotations
<1>4. PICK m \in Nat : /\ Places = 1 .. m /\ Max(Places) = m
                       /\ Len(combo) \in 1 .. m /\ Len(combo) + Len(Pool) <= m
  BY <1>3, EnoughPlaces
<1>5. /\ a \in Seq(Models) /\ Len(combo) <= Len(a) /\ Len(a) <= Len(combo) + Len(Pool)
      /\ ToSet(combo) \subseteq ToSet(a) /\ (ToSet(combo) \cap Capable # {} => a = combo)
  BY <1>3, AugmentedFacts
<1>6. Len(a) \in Nat /\ Len(a) >= 1 /\ Len(a) <= m /\ a # <<>>
  <2>1. Len(a) \in Nat
    BY <1>5, InToSet
  <2>2. Len(Pool) \in Nat
    BY ComboAssumption, InToSet
  <2> HIDE DEF a
  <2>3. Len(a) >= 1 /\ Len(a) <= m
    BY <1>4, <1>5, <2>1, <2>2
  <2>4. QED
    BY <2>1, <2>3
<1>7. rotation.index \in Nat
  BY <1>3, <1>4 DEF Rotations
<1>8. /\ o \in Seq(Models) /\ o # <<>> /\ ToSet(o) = ToSet(a)
      /\ Len(o) \in Nat /\ Len(o) >= 1 /\ Head(o) \in ToSet(a)
      /\ n /\ ToSet(a) \cap Capable # {} => Head(o) \in Capable
  BY <1>5, <1>6, <1>7, OrderFacts
<1> HIDE DEF a, o
<1>9. rotation' \in Rotations
  <2>1. CASE TakesTurn(a)
    <3>1. Len(a) > 1
      BY <2>1 DEF TakesTurn
    <3>2. NextTurn(Len(a)) \in [index : 0 .. Len(a) - 1, uses : 0 .. StickyLimit - 1]
      BY <1>3, <1>6, <3>1, TurnFacts
    <3>3. 0 .. Len(a) - 1 \subseteq 0 .. Max(Places) - 1
      BY <1>4, <1>6
    <3>4. QED
      BY <1>2, <2>1, <3>2, <3>3 DEF Rotations
  <2>2. CASE ~ TakesTurn(a)
    BY <1>2, <1>3, <2>2
  <2>3. QED
    BY <2>1, <2>2
<1>10. lead' \in [Places -> Nat] /\ LeadFits(combo, rotation', lead')
  <2>1. CASE a # combo
    <3>1. lead' = NoLead
      BY <1>2, <2>1
    <3>2. QED
      BY <1>3, <1>9, <3>1, LeadStarts DEF NoLead
  <2>2. CASE a = combo /\ TakesTurn(combo)
    <3>1. lead' = LeadAfterTurn(Len(combo)) /\ rotation' = NextTurn(Len(combo))
      BY <1>2, <2>2
    <3>2. QED
      BY <1>3, <2>2, <3>1, LeadMoves
  <2>3. CASE a = combo /\ ~ TakesTurn(combo)
    BY <1>2, <1>3, <2>3 DEF LeadInv, TypeOK
  <2>4. QED
    BY <2>1, <2>2, <2>3
<1>11. /\ needs' \in [Requests -> BOOLEAN] /\ served' \in [Requests -> BOOLEAN]
       /\ pc' \in [Requests -> {"idle", "calling", "waiting"}] /\ edits' \in 0 .. MaxEdits
  BY <1>2, <1>3 DEF TypeOK
<1>12. /\ list' \in [Requests -> Lists \cup {<<>>}] /\ order' \in [Requests -> Seq(Models)]
       /\ at' \in [Requests -> Nat] /\ combo' \in Lists
  BY <1>2, <1>3, <1>8 DEF TypeOK
<1>13. \A q \in Requests : pc'[q] # "idle" => at'[q] \in DOMAIN order'[q]
  <2> TAKE q \in Requests
  <2>1. CASE q = r
    <3>1. at'[q] = 1 /\ order'[q] = o /\ DOMAIN o = 1 .. Len(o)
      BY <1>2, <1>3, <1>8, <2>1 DEF TypeOK
    <3>2. QED
      BY <1>8, <3>1
  <2>2. CASE q # r
    BY <1>2, <1>3, <2>2 DEF TypeOK
  <2>3. QED
    BY <2>1, <2>2
<1>14. TypeOK'
  BY <1>9, <1>10, <1>11, <1>12, <1>13 DEF TypeOK, Rotations
<1>15. LeadInv'
  BY <1>2, <1>10 DEF LeadInv
<1>16. OrderInv'
  <2> SUFFICES ASSUME NEW q \in Requests, pc'[q] # "idle"
               PROVE  /\ ToSet(list'[q]) \subseteq ToSet(order'[q])
                      /\ needs'[q] => /\ ToSet(order'[q]) \cap Capable # {} => Head(order'[q]) \in Capable
                                      /\ ToSet(list'[q]) \cap Capable # {} => Head(order'[q]) \in ToSet(list'[q])
    BY DEF OrderInv, CapableFirst
  <2>1. CASE q = r
    <3>1. list'[q] = combo /\ order'[q] = o /\ needs'[q] = n
      BY <1>2, <1>3, <2>1 DEF TypeOK
    <3>2. QED
      BY <1>5, <1>8, <3>1
  <2>2. CASE q # r
    <3>1. list'[q] = list[q] /\ order'[q] = order[q] /\ needs'[q] = needs[q] /\ pc'[q] = pc[q]
      BY <1>2, <1>3, <2>2 DEF TypeOK
    <3>2. QED
      BY <1>3, <3>1 DEF OrderInv, CapableFirst
  <2>3. QED
    BY <2>1, <2>2
<1>17. QED
  BY <1>14, <1>15, <1>16 DEF CInv

(* What a request does after its start concerns itself only.               *)
LEMMA ReturnKeeps ==
  ASSUME CInv, NEW r \in Requests, NEW good \in BOOLEAN, Return(r, good)
  PROVE  CInv'
<1>1. TypeOK /\ LeadInv /\ OrderInv
  BY DEF CInv
<1>2. \A q \in Requests : pc'[q] # "idle" =>
        /\ pc[q] # "idle" /\ needs'[q] = needs[q] /\ list'[q] = list[q] /\ order'[q] = order[q]
        /\ at'[q] = at[q]
  BY <1>1 DEF TypeOK, Return
<1>3. /\ pc' \in [Requests -> {"idle", "calling", "waiting"}] /\ served' \in [Requests -> BOOLEAN]
      /\ needs' \in [Requests -> BOOLEAN] /\ at' \in [Requests -> Nat]
      /\ list' \in [Requests -> Lists \cup {<<>>}] /\ order' \in [Requests -> Seq(Models)]
  BY <1>1 DEF TypeOK, Return
<1>4. combo' = combo /\ rotation' = rotation /\ lead' = lead /\ edits' = edits
  BY DEF Return
<1>5. \A q \in Requests : pc'[q] # "idle" => at'[q] \in DOMAIN order'[q]
  BY <1>1, <1>2 DEF TypeOK
<1>6. TypeOK'
  BY <1>1, <1>3, <1>4, <1>5 DEF TypeOK
<1>7. LeadInv'
  BY <1>1, <1>4 DEF LeadInv
<1>8. OrderInv'
  BY <1>1, <1>2 DEF OrderInv, CapableFirst
<1>9. QED
  BY <1>6, <1>7, <1>8 DEF CInv

LEMMA GoingOnKeeps ==
  ASSUME CInv, NEW r \in Requests, Called(r) \/ WaitEnds(r)
  PROVE  CInv'
<1>1. TypeOK /\ LeadInv /\ OrderInv
  BY DEF CInv
<1>2. CASE Return(r, TRUE) \/ Return(r, FALSE)
  BY <1>2, ReturnKeeps
<1>3. CASE /\ pc[r] # "idle" /\ pc' \in {[pc EXCEPT ![r] = "calling"], [pc EXCEPT ![r] = "waiting"]}
           /\ \/ at' = at
              \/ at[r] < Len(order[r]) /\ at' = [at EXCEPT ![r] = @ + 1]
           /\ UNCHANGED <<combo, rotation, needs, list, order, served, lead, edits>>
  <2>1. combo' = combo /\ rotation' = rotation /\ needs' = needs /\ list' = list /\ order' = order
        /\ served' = served /\ lead' = lead /\ edits' = edits
    BY <1>3
  <2>2. \A q \in Requests : pc'[q] # "idle" => pc[q] # "idle"
    BY <1>1, <1>3 DEF TypeOK
  <2>3. pc' \in [Requests -> {"idle", "calling", "waiting"}]
    BY <1>1, <1>3 DEF TypeOK
  <2>4. \A q \in Requests : /\ Len(order[q]) \in Nat /\ DOMAIN order[q] = 1 .. Len(order[q]) /\ at[q] \in Nat
    <3>1. \A q \in Requests : order[q] \in Seq(Models) /\ at[q] \in Nat
      BY <1>1 DEF TypeOK
    <3> HIDE DEF Models
    <3>2. QED
      BY <3>1
  <2>5. at' \in [Requests -> Nat] /\ \A q \in Requests : pc[q] # "idle" => at'[q] \in DOMAIN order[q]
    <3>1. CASE at' = at
      BY <1>1, <3>1 DEF TypeOK
    <3>2. CASE at[r] < Len(order[r]) /\ at' = [at EXCEPT ![r] = @ + 1]
      <4>1. at' \in [Requests -> Nat]
        BY <1>1, <3>2 DEF TypeOK
      <4>2. \A q \in Requests : at'[q] = IF q = r THEN at[q] + 1 ELSE at[q]
        BY <1>1, <3>2 DEF TypeOK
      <4>3. \A q \in Requests : pc[q] # "idle" => at[q] \in DOMAIN order[q]
        BY <1>1 DEF TypeOK
      <4>4. QED
        BY <2>4, <3>2, <4>1, <4>2, <4>3
    <3>3. QED
      BY <1>3, <3>1, <3>2
  <2>6. TypeOK'
    BY <1>1, <2>1, <2>2, <2>3, <2>5 DEF TypeOK
  <2>7. LeadInv'
    BY <1>1, <2>1 DEF LeadInv
  <2>8. OrderInv'
    BY <1>1, <2>1, <2>2 DEF OrderInv, CapableFirst
  <2>9. QED
    BY <2>6, <2>7, <2>8 DEF CInv
<1>4. QED
  BY <1>2, <1>3 DEF Called, Serve, Fail, FailBriefly, WaitEnds, Advance

LEMMA EditKeeps ==
  ASSUME CInv, NEW l \in Lists, UpdateCombo(l)
  PROVE  CInv'
<1>1. TypeOK /\ LeadInv /\ OrderInv
  BY DEF CInv
<1>2. /\ combo' = l /\ lead' = NoLead /\ rotation' = rotation /\ edits < MaxEdits /\ edits' = edits + 1
      /\ pc' = pc /\ needs' = needs /\ list' = list /\ order' = order /\ at' = at /\ served' = served
  BY DEF UpdateCombo, callVars
<1>3. TypeOK'
  <2>1. edits' \in 0 .. MaxEdits
    BY <1>1, <1>2, ComboAssumption DEF TypeOK
  <2>2. lead' \in [Places -> Nat]
    BY <1>2 DEF NoLead
  <2>3. QED
    BY <1>1, <1>2, <2>1, <2>2 DEF TypeOK
<1>4. rotation \in Rotations
  BY <1>1 DEF TypeOK, Rotations
<1>5. LeadInv'
  BY <1>2, <1>4, LeadStarts DEF LeadInv
<1>6. OrderInv'
  BY <1>1, <1>2 DEF OrderInv, CapableFirst
<1>7. QED
  BY <1>3, <1>5, <1>6 DEF CInv

LEMMA CInvInductive ==
  CInv /\ [CombosNext]_allVars => CInv'
<1> SUFFICES ASSUME CInv, [CombosNext]_allVars PROVE CInv'
  OBVIOUS
<1>1. CASE UNCHANGED vars
  BY <1>1 DEF CInv, TypeOK, OrderInv, CapableFirst, LeadInv, vars, callVars
<1>2. CASE \E r \in Requests : Start(r)
  BY <1>2, StartKeeps
<1>3. CASE \E r \in Requests : Called(r) \/ WaitEnds(r)
  BY <1>3, GoingOnKeeps
<1>4. CASE \E l \in Lists : UpdateCombo(l)
  BY <1>4, EditKeeps
<1>5. QED
  BY <1>1, <1>2, <1>3, <1>4
     DEF CombosNext, HandleCombo, HandleFusion, GoOn, GoOnFusing, Edit, allVars

-----------------------------------------------------------------------------
(* A fusion: FInv is inductive                                             *)

LEMMA FInvAtStart ==
  FusionInit => FInv
<1> SUFFICES ASSUME FusionInit PROVE FInv
  OBVIOUS
<1>1. AtRest
  BY DEF FusionInit, AtRest, Unset
<1>2. FusionTypeOK
  BY FusionAssumption DEF FusionInit, FusionTypeOK, Unset, NoCalls, Panel
<1>3. QED
  BY <1>1, <1>2 DEF FusionInit, FInv, RestInv, CollectInv, ReadInv

LEMMA FusionStarts ==
  ASSUME FInv, NEW n \in 1 .. MaxPanel, StartFusion(n)
  PROVE  FInv'
<1>1. FusionTypeOK /\ AtRest /\ stage = "idle" /\ size' = n /\ fusion' = "none"
  BY DEF FInv, RestInv, StartFusion
<1>2. CASE stage' = "solo" /\ UNCHANGED panelVars
  <2>1. AtRest' /\ call' = call /\ hardIn' = hardIn
    BY <1>1, <1>2 DEF AtRest, panelVars, Unset
  <2>2. FusionTypeOK'
    BY <1>1, <1>2, <2>1, FusionAssumption DEF FusionTypeOK, AtRest, Unset, Panel
  <2>3. QED
    BY <1>2, <2>1, <2>2 DEF FInv, RestInv, CollectInv, ReadInv
<1>3. CASE /\ stage' = "collecting"
           /\ call' = [i \in 1 .. MaxPanel |-> IF i <= n THEN "running" ELSE "none"]
           /\ hardIn' = HardTimeout
           /\ UNCHANGED <<graceIn, next, answers, inTime, quorumAge>>
  <2>1. AtRest'
    BY <1>1, <1>3 DEF AtRest, Unset
  <2>2. FusionTypeOK'
    BY <1>1, <1>3, <2>1, FusionAssumption DEF FusionTypeOK, AtRest, Unset, Panel
  <2>3. CollectInv'
    BY <1>3, <2>1, FusionAssumption DEF CollectInv, AtRest, Unset
  <2>4. QED
    BY <1>3, <2>2, <2>3 DEF FInv, RestInv, ReadInv
<1>4. QED
  BY <1>2, <1>3 DEF StartFusion

(* What closes the panel: the request reads what is there.                 *)
LEMMA CloseKeeps ==
  ASSUME FInv, stage = "collecting", Close, call' \in [1 .. MaxPanel -> {"none", "running"} \cup Ends],
         UNCHANGED <<size, hardIn, answers, fusion>>
  PROVE  FInv'
<1>1. FusionTypeOK /\ CollectInv
  BY DEF FInv
<1>2. /\ stage' = "reading" /\ next' = 1 /\ graceIn' = Unset /\ quorumAge' = quorumAge
      /\ inTime' = {i \in Panel : call'[i] = "text"}
      /\ size' = size /\ hardIn' = hardIn /\ answers' = answers /\ fusion' = fusion
  BY DEF Close
<1>3. \A i \in Panel : i >= 1
  BY DEF Panel
<1>4. FusionTypeOK'
  <2>1. next' \in 0 .. size' + 1
    BY <1>1, <1>2, FusionAssumption DEF FusionTypeOK
  <2>2. inTime' \subseteq Panel' /\ answers' \subseteq Panel'
    BY <1>1, <1>2 DEF FusionTypeOK, Panel
  <2>3. QED
    BY <1>1, <1>2, <2>1, <2>2 DEF FusionTypeOK
<1>5. ReadInv'
  BY <1>2, <1>3 DEF ReadInv
<1>6. QED
  BY <1>2, <1>4, <1>5 DEF FInv, RestInv, CollectInv

LEMMA SettleKeeps ==
  ASSUME FInv, NEW i \in Panel, NEW end \in Ends, Settle(i, end)
  PROVE  FInv'
<1>1. FusionTypeOK /\ CollectInv /\ ReadInv /\ size \in 0 .. MaxPanel /\ MaxPanel \in Nat
  BY FusionAssumption DEF FInv, FusionTypeOK
<1>2. /\ call[i] = "running" /\ call' = [call EXCEPT ![i] = end]
      /\ size' = size /\ hardIn' = hardIn /\ answers' = answers /\ fusion' = fusion
  BY DEF Settle
<1>3. call' \in [1 .. MaxPanel -> {"none", "running"} \cup Ends]
  BY <1>1, <1>2 DEF FusionTypeOK
<1>4. CASE stage = "collecting" /\ Close
  BY <1>2, <1>3, <1>4, CloseKeeps
<1>5. CASE stage = "reading" /\ UNCHANGED <<stage, next, graceIn, inTime, quorumAge>>
  <2>1. FusionTypeOK'
    BY <1>1, <1>2, <1>3, <1>5 DEF FusionTypeOK, Panel
  <2>2. \A j \in inTime : j \in 1 .. MaxPanel /\ call[j] = "text" /\ j # i
    BY <1>1, <1>2, <1>5 DEF ReadInv, FusionTypeOK, Panel
  <2>3. \A j \in inTime : call'[j] = "text"
    BY <1>1, <1>2, <2>2 DEF FusionTypeOK
  <2>4. ReadInv'
    BY <1>1, <1>2, <1>5, <2>3 DEF ReadInv
  <2>5. QED
    BY <1>5, <2>1, <2>4 DEF FInv, RestInv, CollectInv
<1>6. CASE stage = "collecting" /\ \E ok : StaysOpen(ok)
  <2>1. PICK ok : StaysOpen(ok)
    BY <1>6
  <2>2. /\ graceIn' = IF StartsGrace(ok) THEN Grace ELSE graceIn
        /\ quorumAge' = IF ok >= Quorum /\ quorumAge = Unset THEN 0 ELSE quorumAge
        /\ stage' = "collecting" /\ next' = next /\ inTime' = inTime
    BY <1>6, <2>1 DEF StaysOpen
  <2>3. /\ next = 0 /\ answers = {} /\ inTime = {}
        /\ graceIn = Unset <=> quorumAge = Unset
        /\ graceIn # Unset => quorumAge + graceIn = Grace
        /\ quorumAge + hardIn <= HardTimeout
    BY <1>1, <1>6 DEF CollectInv
  <2>4. \/ graceIn' = graceIn /\ quorumAge' = quorumAge
        \/ graceIn' = Grace /\ quorumAge' = 0
    BY <2>2, <2>3 DEF StartsGrace
  <2>5. FusionTypeOK'
    BY <1>1, <1>2, <1>3, <2>2, <2>4, FusionAssumption DEF FusionTypeOK, Panel
  <2>6. CollectInv'
    <3>1. hardIn \in 0 .. HardTimeout /\ Grace \in Nat /\ HardTimeout \in Nat
      BY <1>1, FusionAssumption DEF FusionTypeOK
    <3>2. /\ graceIn' = Unset <=> quorumAge' = Unset
          /\ graceIn' # Unset => quorumAge' + graceIn' = Grace
          /\ quorumAge' + hardIn' <= HardTimeout
      <4>1. CASE graceIn' = graceIn /\ quorumAge' = quorumAge
        BY <1>2, <2>3, <4>1
      <4>2. CASE graceIn' = Grace /\ quorumAge' = 0
        BY <1>2, <3>1, <4>2 DEF Unset
      <4>3. QED
        BY <2>4, <4>1, <4>2
    <3>3. QED
      BY <1>2, <2>2, <2>3, <3>2 DEF CollectInv
  <2>7. QED
    BY <2>2, <2>5, <2>6 DEF FInv, RestInv, ReadInv
<1>7. QED
  BY <1>4, <1>5, <1>6 DEF Settle

(* The next body is the first that is there.                               *)
LEMMA FirstBody ==
  ASSUME FInv, stage = "reading", Bodies # {}
  PROVE  Min(Bodies) \in Bodies /\ \A i \in Bodies : Min(Bodies) <= i
<1>1. Bodies \subseteq Nat
  BY DEF Bodies, FInv, FusionTypeOK, ReadInv
<1>2. \E b \in Bodies : \A i \in Bodies : b <= i
  BY <1>1, NatMin
<1>3. QED
  BY <1>2 DEF Min

LEMMA ReadKeeps ==
  ASSUME FInv, Read
  PROVE  FInv'
<1>1. /\ FusionTypeOK /\ ReadInv /\ size \in 0 .. MaxPanel /\ MaxPanel \in Nat /\ next \in 0 .. size + 1
      /\ stage = "reading" /\ next >= 1
  BY FusionAssumption DEF FInv, FusionTypeOK, Read, ReadInv
<1>2. /\ stage' = stage /\ size' = size /\ call' = call /\ graceIn' = graceIn /\ hardIn' = hardIn
      /\ fusion' = fusion /\ inTime' = inTime /\ quorumAge' = quorumAge
  BY DEF Read
<1>3. \A i \in inTime : call[i] = "text" /\ i \in Nat /\ i <= size /\ (i \in answers \/ next <= i)
  BY <1>1 DEF ReadInv, FusionTypeOK, Panel
<1>4. CASE Bodies = {} /\ next' = size + 1 /\ answers' = answers
  <2>1. \A i \in inTime : i \in answers
    BY <1>1, <1>3, <1>4 DEF Bodies, Good
  <2>2. next' \in 0 .. size' + 1 /\ next' >= 1
    BY <1>1, <1>2, <1>4
  <2>3. FusionTypeOK'
    BY <1>1, <1>2, <1>4, <2>2 DEF FusionTypeOK, Panel
  <2>4. ReadInv'
    BY <1>2, <1>3, <1>4, <2>1, <2>2 DEF ReadInv
  <2>5. QED
    BY <1>1, <1>2, <2>3, <2>4 DEF FInv, RestInv, CollectInv
<1>5. CASE /\ Bodies # {} /\ next' = Min(Bodies) + 1
           /\ answers' = IF call[Min(Bodies)] = "text" THEN answers \cup {Min(Bodies)} ELSE answers
  <2> DEFINE first == Min(Bodies)
  <2>1. first \in Bodies /\ \A i \in Bodies : first <= i
    BY <1>1, <1>5, FirstBody
  <2>2. next' = first + 1 /\ answers' = IF call[first] = "text" THEN answers \cup {first} ELSE answers
    BY <1>5
  <2> HIDE DEF first
  <2>3. first \in Panel /\ first \in Nat
    BY <1>1, <2>1 DEF Bodies, Panel
  <2>4. next' \in 0 .. size' + 1 /\ next' >= 1
    BY <1>1, <1>2, <2>2, <2>3 DEF Panel
  <2>5. answers' \subseteq Panel
    BY <1>1, <2>2, <2>3 DEF FusionTypeOK
  <2>6. FusionTypeOK'
    BY <1>1, <1>2, <2>4, <2>5 DEF FusionTypeOK, Panel
  <2>7. \A i \in inTime : i \in answers' \/ next' <= i
    <3> TAKE i \in inTime
    <3>1. CASE i \in answers
      BY <2>2, <3>1
    <3>2. CASE next <= i
      <4>1. i \in Bodies
        BY <1>1, <1>3, <3>2 DEF Bodies, Good
      <4>2. CASE i = first
        BY <1>3, <2>2, <4>2
      <4>3. CASE i # first
        BY <1>3, <2>1, <2>2, <2>3, <4>1, <4>3
      <4>4. QED
        BY <4>2, <4>3
    <3>3. QED
      BY <1>3, <3>1, <3>2
  <2>8. ReadInv'
    BY <1>2, <1>3, <2>4, <2>7 DEF ReadInv
  <2>9. QED
    BY <1>1, <1>2, <2>6, <2>8 DEF FInv, RestInv, CollectInv
<1>6. QED
  BY <1>4, <1>5 DEF Read

LEMMA TickKeeps ==
  ASSUME FInv, FusionTick
  PROVE  FInv'
<1>1. FusionTypeOK /\ CollectInv
  BY DEF FInv
<1>2. /\ stage = "collecting" /\ hardIn > 0 /\ graceIn # 0 /\ hardIn' = hardIn - 1
      /\ graceIn' = IF graceIn = Unset THEN Unset ELSE graceIn - 1
      /\ quorumAge' = IF quorumAge = Unset THEN Unset ELSE quorumAge + 1
      /\ stage' = stage /\ size' = size /\ call' = call /\ next' = next /\ answers' = answers
      /\ fusion' = fusion /\ inTime' = inTime
  BY DEF FusionTick
<1>3. /\ next = 0 /\ answers = {} /\ inTime = {}
      /\ graceIn = Unset <=> quorumAge = Unset
      /\ graceIn # Unset => quorumAge + graceIn = Grace
      /\ quorumAge + hardIn <= HardTimeout
  BY <1>1, <1>2 DEF CollectInv
<1>4. /\ graceIn \in 0 .. Grace \cup {Unset} /\ quorumAge \in 0 .. HardTimeout \cup {Unset}
      /\ hardIn \in 0 .. HardTimeout /\ Grace \in Nat /\ HardTimeout \in Nat
  BY <1>1, FusionAssumption DEF FusionTypeOK
<1>5. /\ graceIn' \in 0 .. Grace \cup {Unset} /\ quorumAge' \in 0 .. HardTimeout \cup {Unset}
      /\ hardIn' \in 0 .. HardTimeout
  BY <1>2, <1>3, <1>4 DEF Unset
<1>6. FusionTypeOK'
  BY <1>1, <1>2, <1>5 DEF FusionTypeOK, Panel
<1>7. CollectInv'
  BY <1>2, <1>3, <1>4 DEF CollectInv, Unset
<1>8. QED
  BY <1>2, <1>6, <1>7 DEF FInv, RestInv, ReadInv

LEMMA LeavingKeeps ==
  ASSUME FInv, Refuse \/ AskAgain \/ AskJudge \/ LastCallEnds
  PROVE  FInv'
<1>1. FusionTypeOK /\ RestInv
  BY DEF FInv
<1>2. stage' \in {"idle", "solo", "judging"} /\ size' \in {size, 0} /\ fusion' \in {fusion, "served", "failed"}
  BY DEF Refuse, AskAgain, AskJudge, LastCallEnds
<1>3. /\ AtRest' /\ call' \in [1 .. MaxPanel -> {"none", "running"} \cup Ends] /\ hardIn' \in 0 .. HardTimeout
  <2>1. CASE Leave
    BY <2>1, FusionAssumption DEF Leave, AtRest, NoCalls, Unset
  <2>2. CASE LastCallEnds
    BY <1>1, <2>2 DEF LastCallEnds, RestInv, AtRest, panelVars, FusionTypeOK, Unset
  <2>3. QED
    BY <2>1, <2>2 DEF Refuse, AskAgain, AskJudge
<1>4. FusionTypeOK'
  <2>1. size' \in 0 .. MaxPanel /\ next' \in 0 .. size' + 1
    <3>1. size \in 0 .. MaxPanel /\ MaxPanel \in Nat
      BY <1>1, FusionAssumption DEF FusionTypeOK
    <3>2. size' \in 0 .. MaxPanel /\ next' = 0
      BY <1>2, <1>3, <3>1 DEF AtRest
    <3>3. \A n \in 0 .. MaxPanel : 0 \in 0 .. n + 1
      BY <3>1
    <3>4. QED
      BY <3>2, <3>3
  <2>2. fusion' \in {"none", "served", "failed"} /\ stage' \in {"idle", "solo", "judging"}
    BY <1>1, <1>2 DEF FusionTypeOK
  <2>3. graceIn' = Unset /\ quorumAge' = Unset /\ answers' = {} /\ inTime' = {}
    BY <1>3 DEF AtRest, Unset
  <2>4. QED
    BY <1>3, <2>1, <2>2, <2>3 DEF FusionTypeOK
<1>5. QED
  BY <1>2, <1>3, <1>4 DEF FInv, RestInv, CollectInv, ReadInv

LEMMA FInvInductive ==
  TypeOK /\ FInv /\ [CombosNext]_allVars => FInv'
<1> SUFFICES ASSUME TypeOK, FInv, [CombosNext]_allVars PROVE FInv'
  OBVIOUS
<1>1. CASE UNCHANGED fusionVars
  BY <1>1 DEF FInv, FusionTypeOK, RestInv, AtRest, CollectInv, ReadInv, Panel, fusionVars, panelVars, Unset
<1>2. CASE StartFusion(Len(combo))
  <2>1. Len(combo) \in 1 .. MaxPanel
    <3>1. combo \in Lists
      BY DEF TypeOK
    <3>2. Len(combo) <= MaxPanel /\ Len(combo) \in Nat /\ Len(combo) >= 1
      BY <3>1, CombosAssumption, AugmentedFacts
    <3>3. QED
      BY <3>2, FusionAssumption
  <2>2. QED
    BY <1>2, <2>1, FusionStarts
<1>3. CASE ModelEnds
  BY <1>3, SettleKeeps DEF ModelEnds
<1>4. CASE CallTimesOut
  BY <1>4, SettleKeeps DEF CallTimesOut, Ends
<1>5. CASE GraceEnds
  BY <1>5, CloseKeeps DEF GraceEnds, FInv, FusionTypeOK
<1>6. CASE FusionTick
  BY <1>6, TickKeeps
<1>7. CASE Read
  BY <1>7, ReadKeeps
<1>8. CASE Refuse \/ AskAgain \/ AskJudge \/ LastCallEnds
  BY <1>8, LeavingKeeps
<1>9. QED
  BY <1>1, <1>2, <1>3, <1>4, <1>5, <1>6, <1>7, <1>8
     DEF CombosNext, HandleCombo, HandleFusion, GoOn, GoOnFusing, Edit, allVars, FusionNext, Collect, Conclude

-----------------------------------------------------------------------------
(* The theorems                                                            *)

(* The inductive invariants of the two kinds of combo hold.                *)
THEOREM CombosInvariant == CombosSpec => [](CInv /\ FInv)
<1>1. CombosInit => CInv /\ FInv
  BY CInvAtStart, FInvAtStart DEF CombosInit
<1>2. CInv /\ FInv /\ [CombosNext]_allVars => (CInv /\ FInv)'
  BY CInvInductive, FInvInductive DEF CInv
<1>3. QED
  BY <1>1, <1>2, PTL DEF CombosSpec

(* Both kinds of combo have states of their types: in particular the       *)
(* rotation's index stays within the longest list, whatever lists it has   *)
(* been used with (getRotatedModels), and the place a request is at is a   *)
(* place of its order (handleComboChat).                                   *)
THEOREM SpecCombosTypeOK == CombosSpec => [](TypeOK /\ FusionTypeOK)
<1>1. CInv /\ FInv => TypeOK /\ FusionTypeOK
  BY DEF CInv, FInv
<1>2. QED
  BY <1>1, CombosInvariant, PTL

(* handleComboChat: a request with an attachment goes first to a model     *)
(* that takes it if there is one, and to one of the user's if one of the   *)
(* user's does, wherever the rotation is.                                  *)
THEOREM SpecCapableFirst == CombosSpec => []CapableFirst
<1>1. CInv /\ FInv => CapableFirst
  BY DEF CInv, OrderInv
<1>2. QED
  BY <1>1, CombosInvariant, PTL

(* getRotatedModels: while the list stays no place is more than            *)
(* StickyLimit turns ahead of another, for any number of requests, lengths *)
(* of the lists and place where the rotation stood when the list came.     *)
THEOREM SpecRotationFair == CombosSpec => []RotationFair
<1>1. CInv /\ FInv => RotationFair
  BY LeadIsFair DEF CInv
<1>2. QED
  BY <1>1, CombosInvariant, PTL

(* handleComboChat refuses a request only when it has tried every model of *)
(* the list the request read, which the user may have changed since.       *)
THEOREM SpecNoModelDropped == CombosSpec => NoModelDropped
<1> DEFINE Tried(r) == ToSet(list[r]) \subseteq {order[r][i] : i \in 1 .. at[r]}
           Refused(r) == pc[r] # "idle" /\ pc'[r] = "idle" /\ ~ served'[r]
           Kept == \A r \in Requests : Refused(r) => Tried(r)
<1>1. CInv /\ [CombosNext]_allVars => [Kept]_vars
  <2> SUFFICES ASSUME CInv, [CombosNext]_allVars, NEW r \in Requests, Refused(r) PROVE Tried(r)
    OBVIOUS
  <2>1. TypeOK /\ OrderInv
    BY DEF CInv
  <2>2. PICK q \in Requests : Called(q) \/ WaitEnds(q)
    <3>1. pc'[r] # pc[r]
      OBVIOUS
    <3>2. ASSUME NEW q \in Requests, Start(q) PROVE FALSE
      <4>1. pc' = [pc EXCEPT ![q] = "calling"]
        BY <3>2 DEF Start
      <4>2. QED
        BY <2>1, <4>1 DEF TypeOK
    <3>3. QED
      BY <3>1, <3>2 DEF CombosNext, HandleCombo, HandleFusion, GoOn, GoOnFusing, Edit, UpdateCombo, allVars, vars, callVars
  <2>3. at[r] = Len(order[r])
    <3>1. q = r
      <4>1. \E end \in {"idle", "calling", "waiting"} : pc' = [pc EXCEPT ![q] = end]
        BY <2>2 DEF Called, Serve, Fail, FailBriefly, WaitEnds, Advance, Return
      <4>2. QED
        BY <2>1, <4>1 DEF TypeOK
    <3>2. CASE Return(r, TRUE)
      BY <2>1, <3>2 DEF Return, TypeOK
    <3>3. CASE pc'[r] # "idle"
      BY <3>3
    <3>4. Return(r, TRUE) \/ pc'[r] # "idle" \/ at[r] = Len(order[r])
      BY <2>1, <2>2, <3>1 DEF Called, Serve, Fail, FailBriefly, WaitEnds, Advance, TypeOK
    <3>5. QED
      BY <3>2, <3>3, <3>4
  <2>4. ToSet(order[r]) = {order[r][i] : i \in 1 .. at[r]}
    <3>1. order[r] \in Seq(Models)
      BY <2>1 DEF TypeOK
    <3>2. DOMAIN order[r] = 1 .. Len(order[r])
      BY <3>1
    <3>3. QED
      BY <2>3, <3>2 DEF ToSet
  <2>5. ToSet(list[r]) \subseteq ToSet(order[r])
    BY <2>1 DEF OrderInv
  <2>6. QED
    BY <2>4, <2>5
<1>2. QED
  BY <1>1, CombosInvariant, PTL DEF CombosSpec, NoModelDropped

(* handleFusionChat uses every text that was there when collectPanel       *)
(* finished, although the array fills while it is read, body by body.      *)
THEOREM SpecInTimeIsUsed == CombosSpec => InTimeIsUsed
<1>1. FInv /\ [CombosNext]_allVars => [HasRead /\ stage' # stage => inTime \subseteq answers]_fusionVars
  <2> SUFFICES ASSUME FInv, HasRead PROVE inTime \subseteq answers
    OBVIOUS
  <2>1. \A i \in inTime : i \in answers \/ next <= i
    BY DEF FInv, HasRead, ReadInv
  <2>2. /\ next > size /\ next \in 0 .. size + 1 /\ size \in 0 .. MaxPanel /\ MaxPanel \in Nat
        /\ inTime \subseteq 1 .. size
    BY FusionAssumption DEF FInv, FusionTypeOK, HasRead, Panel
  <2>3. QED
    BY <2>1, <2>2
<1>2. QED
  BY <1>1, CombosInvariant, PTL DEF CombosSpec, InTimeIsUsed

(* collectPanel cuts a straggler off only when Grace has passed since the  *)
(* quorum was there, whatever calls settle meanwhile and in which order.   *)
THEOREM SpecStragglersGetTheirGrace == CombosSpec => StragglersGetTheirGrace
<1> DEFINE CutOff == stage = "collecting" /\ stage' = "reading" /\ \E i \in Panel : call'[i] = "running"
<1>1. FInv /\ [CombosNext]_allVars => [CutOff => quorumAge >= Grace]_fusionVars
  <2> SUFFICES ASSUME FInv, [CombosNext]_allVars, CutOff PROVE quorumAge >= Grace
    OBVIOUS
  <2>1. GraceEnds
    <3>1. stage' # stage
      OBVIOUS
    <3>2. ASSUME NEW i \in Panel, NEW end \in Ends, Settle(i, end) PROVE FALSE
      BY <3>2 DEF Settle, StaysOpen
    <3>3. QED
      BY <3>1, <3>2 DEF CombosNext, HandleCombo, HandleFusion, StartFusion, GoOn, GoOnFusing, Edit, allVars,
        fusionVars, FusionNext, ModelEnds, Collect, CallTimesOut, FusionTick, Conclude, Read, Refuse, AskAgain,
        AskJudge, LastCallEnds, Ends
  <2>2. graceIn = 0 /\ CollectInv /\ Grace \in Nat
    BY <2>1, FusionAssumption DEF GraceEnds, FInv
  <2>3. quorumAge + graceIn = Grace /\ quorumAge \in Int
    BY <2>2, FusionAssumption DEF CollectInv, FInv, FusionTypeOK, Unset
  <2>4. QED
    BY <2>2, <2>3
<1>2. QED
  BY <1>1, CombosInvariant, PTL DEF CombosSpec, StragglersGetTheirGrace

=============================================================================
