--------------------------- MODULE Accounts_proofs ---------------------------
(***************************************************************************)
(* Theorems about the account a request gets.                              *)
(*                                                                         *)
(* AccountSelection: the promise chain is a mutex, what it protects is not *)
(* lost, and the rotation respects its limit, for every number of          *)
(* requests, connections and calls.                                        *)
(*                                                                         *)
(* TokenRefresh: no refresh token is spent twice while its result is kept, *)
(* and a refused token is not replayed, for every number of requests, of   *)
(* tokens and of attempts, and every lifetime of a result.                 *)
(***************************************************************************)
EXTENDS AccountSelection, TokenRefresh, FiniteSetTheorems, WellFoundedInduction, TLAPS

InCall == InMutex \cup {"queued"}

(* The chain.  Promise n waits for promise n - 1; promises are resolved in *)
(* order; whoever is inside has seen its predecessor resolved and has not  *)
(* resolved its own.                                                       *)
ChainInv ==
  /\ mutex = calls
  /\ resolved \subseteq 0 .. calls
  /\ \A n \in resolved : \A m \in 0 .. n : m \in resolved
  /\ \A r \in Requests : pc[r] \in InCall =>
       /\ promise[r] \in 1 .. calls
       /\ waitsFor[r] = promise[r] - 1
       /\ promise[r] \notin resolved
  /\ \A q, r \in Requests :
       pc[q] \in InCall /\ pc[r] \in InCall /\ promise[q] = promise[r] => q = r
  /\ \A r \in Requests : pc[r] \in InMutex => waitsFor[r] \in resolved

(* What a call holds between its awaits.                                   *)
RotationInv ==
  /\ \A c \in Conns : lastUsed[c] <= now
  /\ \A r \in Requests :
       /\ pc[r] = "settings" => seen[r].conns # {} /\ \A c \in Conns : seen[r].lastUsed[c] <= now
       /\ pc[r] \in {"writing", "proxy", "calling"} => pick[r].conn \in Conns
       /\ pc[r] = "writing" => pick[r].count <= StickyLimit /\ pick[r].at <= now

IInv == TypeOK /\ ChainInv /\ RotationInv /\ UsageReadIsCurrent /\ StickyBound

-----------------------------------------------------------------------------
(* Two calls are never inside: of two, the one with the later promise has  *)
(* seen the earlier one resolved.                                          *)
LEMMA ChainExcludes == TypeOK /\ ChainInv => OneSelectsAtATime
<1> SUFFICES ASSUME TypeOK, ChainInv, NEW q \in Requests, NEW r \in Requests,
                    pc[q] \in InMutex, pc[r] \in InMutex
             PROVE  q = r
  BY DEF OneSelectsAtATime
<1>1. ASSUME NEW x \in Requests, NEW y \in Requests, pc[x] \in InMutex, pc[y] \in InMutex,
             promise[x] < promise[y]
      PROVE  FALSE
  <2>1. /\ promise[x] \in 1 .. calls /\ promise[y] \in 1 .. calls
        /\ promise[x] \notin resolved
        /\ promise[y] - 1 \in resolved
    BY <1>1 DEF ChainInv, InCall
  <2>2. promise[x] \in 0 .. (promise[y] - 1)
    BY <1>1, <2>1 DEF TypeOK
  <2>3. QED
    BY <2>1, <2>2 DEF ChainInv
<1>2. promise[q] = promise[r]
  <2>1. promise[q] \in Nat /\ promise[r] \in Nat
    BY DEF TypeOK
  <2>2. QED
    BY <1>1, <2>1
<1>3. QED
  BY <1>2 DEF ChainInv, InCall

(* A non-empty set of naturals has a least element, and a greatest one if  *)
(* it has a bound: what the sorts pick exists.                             *)
LEMMA NatMin ==
  ASSUME NEW T, T \subseteq Nat, T # {}
  PROVE  \E x \in T : \A y \in T : x <= y
<1> DEFINE less == OpToRel(<, Nat)
<1>1. PICK x \in T : \A y \in T : <<y, x>> \notin less
  BY NatLessThanWellFounded, WFMin
<1>2. \A y \in T : ~ (y < x)
  BY <1>1 DEF OpToRel
<1>3. QED
  BY <1>2

LEMMA NatMax ==
  ASSUME NEW bound \in Nat, NEW T, T \subseteq 0 .. bound, T # {}
  PROVE  \E x \in T : \A y \in T : y <= x
<1> DEFINE gaps == {bound - x : x \in T}
<1>1. gaps \subseteq Nat /\ gaps # {}
  <2>1. \A x \in 0 .. bound : bound - x \in Nat
    OBVIOUS
  <2>2. QED
    BY <2>1
<1>2. PICK g \in gaps : \A h \in gaps : g <= h
  <2> HIDE DEF gaps
  <2>1. QED
    BY <1>1, NatMin
<1>3. PICK x \in T : g = bound - x
  OBVIOUS
<1>4. \A y \in T : bound - x <= bound - y
  BY <1>2, <1>3
<1>5. \A y \in T : y \in Int
  OBVIOUS
<1>6. QED
  BY <1>3, <1>4, <1>5

(* The heads of the two sorts exist and are candidates; the second was     *)
(* used no later than any other.                                           *)
LEMMA HeadsExist ==
  ASSUME NEW s \in [conns : SUBSET Conns, lastUsed : [Conns -> Nat], useCount : [Conns -> Nat]],
         s.conns # {}, NEW t \in Nat, \A c \in Conns : s.lastUsed[c] <= t
  PROVE  /\ MostRecent(s) \in s.conns /\ LeastRecent(s) \in s.conns
         /\ \A d \in s.conns : s.lastUsed[LeastRecent(s)] <= s.lastUsed[d]
<1> USE SelectionAssumption
<1>1. \A T \in SUBSET s.conns : T # {} => \E c \in T : \A d \in T : c <= d
  <2> SUFFICES ASSUME NEW T \in SUBSET s.conns, T # {} PROVE \E c \in T : \A d \in T : c <= d
    OBVIOUS
  <2>1. T \subseteq Nat
    OBVIOUS
  <2>2. QED
    BY <2>1, NatMin
<1> DEFINE times == {s.lastUsed[c] : c \in s.conns}
<1>2. times \subseteq 0 .. t /\ times \subseteq Nat /\ times # {}
  <2>1. ASSUME NEW c \in s.conns PROVE s.lastUsed[c] \in Nat /\ s.lastUsed[c] \in 0 .. t
    <3>1. c \in Conns
      OBVIOUS
    <3>2. s.lastUsed[c] \in Nat /\ s.lastUsed[c] <= t
      BY <3>1
    <3>3. \A i \in Nat : i <= t => i \in 0 .. t
      OBVIOUS
    <3>4. QED
      BY <3>2, <3>3
  <2>2. PICK c \in s.conns : TRUE
    OBVIOUS
  <2>3. s.lastUsed[c] \in times
    BY <2>2
  <2>4. \A u \in times : u \in 0 .. t /\ u \in Nat
    BY <2>1
  <2>5. QED
    BY <2>3, <2>4
<1>3. PICK newest \in times : \A u \in times : u <= newest
  <2> HIDE DEF times
  <2>1. QED
    BY <1>2, NatMax
<1>4. PICK oldest \in times : \A u \in times : oldest <= u
  <2> HIDE DEF times
  <2>1. QED
    BY <1>2, NatMin
<1>5. \E c \in s.conns : \A d \in s.conns :
        s.lastUsed[c] > s.lastUsed[d] \/ (s.lastUsed[c] = s.lastUsed[d] /\ c <= d)
  <2> DEFINE T == {c \in s.conns : s.lastUsed[c] = newest}
  <2>1. T \in SUBSET s.conns /\ T # {}
    BY <1>3
  <2>2. PICK c \in T : \A d \in T : c <= d
    <3> HIDE DEF T
    <3>1. QED
      BY <1>1, <2>1
  <2>3. \A d \in s.conns : s.lastUsed[d] \in Nat /\ s.lastUsed[d] <= newest
    BY <1>3
  <2>4. newest \in Nat
    BY <1>2
  <2>5. QED
    BY <2>2, <2>3, <2>4
<1>6. \E c \in s.conns : \A d \in s.conns :
        s.lastUsed[c] < s.lastUsed[d] \/ (s.lastUsed[c] = s.lastUsed[d] /\ c <= d)
  <2> DEFINE T == {c \in s.conns : s.lastUsed[c] = oldest}
  <2>1. T \in SUBSET s.conns /\ T # {}
    BY <1>4
  <2>2. PICK c \in T : \A d \in T : c <= d
    <3> HIDE DEF T
    <3>1. QED
      BY <1>1, <2>1
  <2>3. \A d \in s.conns : s.lastUsed[d] \in Nat /\ oldest <= s.lastUsed[d]
    BY <1>4
  <2>4. oldest \in Nat
    BY <1>2
  <2>5. QED
    BY <2>2, <2>3, <2>4
<1>7. MostRecent(s) \in s.conns
  BY <1>5 DEF MostRecent
<1>8. /\ LeastRecent(s) \in s.conns
      /\ \A d \in s.conns : \/ s.lastUsed[LeastRecent(s)] < s.lastUsed[d]
                            \/ s.lastUsed[LeastRecent(s)] = s.lastUsed[d] /\ LeastRecent(s) <= d
  BY <1>6 DEF LeastRecent
<1>9. \A d \in s.conns : s.lastUsed[d] \in Nat
  OBVIOUS
<1>10. ASSUME NEW d \in s.conns PROVE s.lastUsed[LeastRecent(s)] <= s.lastUsed[d]
  <2>1. s.lastUsed[LeastRecent(s)] \in Nat /\ s.lastUsed[d] \in Nat
    BY <1>8, <1>9
  <2>2. s.lastUsed[LeastRecent(s)] < s.lastUsed[d] \/ s.lastUsed[LeastRecent(s)] = s.lastUsed[d]
    BY <1>8
  <2>3. QED
    BY <2>1, <2>2
<1>11. QED
  BY <1>7, <1>8, <1>10

LEMMA RotateType ==
  ASSUME NEW s \in [conns : SUBSET Conns, lastUsed : [Conns -> Nat], useCount : [Conns -> Nat]],
         s.conns # {}, NEW u \in Nat, \A c \in Conns : s.lastUsed[c] <= u, NEW t \in Nat
  PROVE  /\ Rotate(s, t) \in [conn : Conns, at : {t}, count : Nat]
         /\ Rotate(s, t).count <= StickyLimit
<1>1. MostRecent(s) \in Conns /\ LeastRecent(s) \in Conns
  BY HeadsExist
<1>2. s.useCount[MostRecent(s)] \in Nat
  BY <1>1
<1>3. CASE Sticks(s, MostRecent(s))
  BY <1>1, <1>2, <1>3, SelectionAssumption DEF Rotate, Sticks
<1>4. CASE ~ Sticks(s, MostRecent(s))
  BY <1>1, <1>4, SelectionAssumption DEF Rotate
<1>5. QED
  BY <1>3, <1>4

(* A count of one is the beginning of a turn, and it goes to an account    *)
(* that was used no later than any other candidate.                        *)
LEMMA RotateIsFair ==
  ASSUME NEW s \in [conns : SUBSET Conns, lastUsed : [Conns -> Nat], useCount : [Conns -> Nat]],
         s.conns # {}, NEW u \in Nat, \A c \in Conns : s.lastUsed[c] <= u, NEW t \in Nat,
         \A c \in Conns : s.lastUsed[c] > 0 => s.useCount[c] > 0
  PROVE  /\ Rotate(s, t).count > 0 /\ Rotate(s, t).at = t
         /\ Rotate(s, t).count = 1 => \A d \in s.conns : s.lastUsed[Rotate(s, t).conn] <= s.lastUsed[d]
<1>1. /\ MostRecent(s) \in Conns /\ LeastRecent(s) \in Conns
      /\ \A d \in s.conns : s.lastUsed[LeastRecent(s)] <= s.lastUsed[d]
  BY HeadsExist
<1>2. s.useCount[MostRecent(s)] \in Nat
  BY <1>1
<1>3. CASE Sticks(s, MostRecent(s))
  BY <1>1, <1>2, <1>3 DEF Rotate, Sticks
<1>4. CASE ~ Sticks(s, MostRecent(s))
  BY <1>1, <1>4 DEF Rotate
<1>5. QED
  BY <1>3, <1>4

-----------------------------------------------------------------------------
(* The inductive invariant                                                 *)

LEMMA InitIInv == Init => IInv
<1> SUFFICES ASSUME Init PROVE IInv
  OBVIOUS
<1> USE SelectionAssumption
<1>1. TypeOK
  <2>1. Nothing \in [conns : SUBSET Conns, lastUsed : [Conns -> Nat], useCount : [Conns -> Nat]]
    BY DEF Nothing
  <2>2. NoPick \in [conn : Conns \cup {Nobody}, at : Nat, count : Nat]
    BY DEF NoPick
  <2>3. available \in [Conns -> BOOLEAN]
    BY Zenon DEF Init
  <2>4. QED
    BY <2>1, <2>2, <2>3 DEF Init, TypeOK, InMutex, Resolved
<1>2. ChainInv
  BY DEF Init, ChainInv, Resolved, InCall, InMutex
<1>3. RotationInv /\ UsageReadIsCurrent /\ StickyBound
  BY DEF Init, RotationInv, UsageReadIsCurrent, StickyBound
<1>4. QED
  BY <1>1, <1>2, <1>3 DEF IInv

(* The chain grows at its end, advances when a promise resolves, and each  *)
(* step of a call inside leaves it alone.                                  *)
LEMMA ChainGrows ==
  ASSUME TypeOK, ChainInv, NEW r \in Requests, Call(r)
  PROVE  ChainInv'
<1>1. /\ calls' = calls + 1 /\ mutex' = calls + 1 /\ resolved' = resolved
      /\ pc' = [pc EXCEPT ![r] = "queued"]
      /\ waitsFor' = [waitsFor EXCEPT ![r] = mutex]
      /\ promise' = [promise EXCEPT ![r] = calls + 1]
      /\ mutex = calls /\ calls \in Nat /\ pc[r] = "idle"
  BY DEF Call, Enqueue, ChainInv, TypeOK
<1>2. resolved' \subseteq 0 .. calls'
  BY <1>1 DEF ChainInv
<1>3. \A q \in Requests : q # r => pc'[q] = pc[q] /\ promise'[q] = promise[q] /\ waitsFor'[q] = waitsFor[q]
  BY <1>1 DEF TypeOK
<1>4. pc'[r] = "queued" /\ promise'[r] = calls + 1 /\ waitsFor'[r] = calls /\ calls + 1 \notin resolved
  BY <1>1 DEF TypeOK, ChainInv
<1>5. \A q \in Requests : pc'[q] \in InCall =>
        promise'[q] \in 1 .. calls' /\ waitsFor'[q] = promise'[q] - 1 /\ promise'[q] \notin resolved'
  BY <1>1, <1>3, <1>4 DEF ChainInv
<1>6. \A p, q \in Requests :
        pc'[p] \in InCall /\ pc'[q] \in InCall /\ promise'[p] = promise'[q] => p = q
  <2>1. \A q \in Requests : q # r /\ pc'[q] \in InCall => promise'[q] # calls + 1
    BY <1>1, <1>3 DEF ChainInv
  <2>2. QED
    BY <1>3, <1>4, <2>1 DEF ChainInv
<1>7. \A q \in Requests : pc'[q] \in InMutex => waitsFor'[q] \in resolved'
  BY <1>1, <1>3, <1>4 DEF ChainInv, InMutex
<1>8. QED
  BY <1>1, <1>2, <1>5, <1>6, <1>7 DEF ChainInv

LEMMA ChainAdvances ==
  ASSUME TypeOK, ChainInv, NEW r \in Requests, pc[r] \in InMutex, Release(r),
         NEW after \in {"idle", "calling"}, pc' = [pc EXCEPT ![r] = after],
         UNCHANGED <<calls, mutex, promise, waitsFor>>
  PROVE  ChainInv'
<1>1. /\ resolved' = resolved \cup {promise[r]}
      /\ promise[r] \in 1 .. calls /\ promise[r] - 1 \in resolved
      /\ calls \in Nat
  BY DEF Release, ChainInv, InCall, TypeOK
<1>2. resolved' \subseteq 0 .. calls'
  <2>1. promise[r] \in 0 .. calls
    BY <1>1
  <2>2. QED
    BY <1>1, <2>1 DEF ChainInv
<1>3. \A n \in resolved' : \A m \in 0 .. n : m \in resolved'
  <2>1. \A m \in 0 .. promise[r] : m = promise[r] \/ m \in 0 .. (promise[r] - 1)
    BY <1>1
  <2>2. QED
    BY <1>1, <2>1 DEF ChainInv
<1>4. after \notin InCall
  BY DEF InCall, InMutex
<1>5. \A q \in Requests : pc'[q] \in InCall => q # r /\ pc[q] \in InCall /\ promise[q] # promise[r]
  BY <1>4 DEF TypeOK, ChainInv, InCall
<1>6. \A q \in Requests : pc'[q] \in InMutex => pc[q] \in InMutex
  BY <1>4 DEF TypeOK, InCall
<1>7. QED
  BY <1>1, <1>2, <1>3, <1>5, <1>6 DEF ChainInv

LEMMA ChainHolds ==
  ASSUME TypeOK, ChainInv, NEW r \in Requests, pc[r] \in InCall,
         pc[r] \in InMutex \/ waitsFor[r] \in resolved,
         NEW inside \in InMutex, pc' = [pc EXCEPT ![r] = inside],
         UNCHANGED <<calls, mutex, resolved, promise, waitsFor>>
  PROVE  ChainInv'
<1>1. \A q \in Requests : pc'[q] \in InCall => pc[q] \in InCall
  BY DEF TypeOK
<1>2. \A q \in Requests : pc'[q] \in InMutex => pc[q] \in InMutex \/ (q = r /\ waitsFor[r] \in resolved)
  BY DEF TypeOK, ChainInv
<1>3. QED
  BY <1>1, <1>2 DEF ChainInv

LEMMA ReleaseType ==
  ASSUME TypeOK, NEW r \in Requests, Release(r)
  PROVE  resolved' \in SUBSET Nat
<1>1. promise[r] \in Nat /\ resolved \in SUBSET Nat
  BY DEF TypeOK
<1>2. {promise[r]} \in SUBSET Nat
  BY <1>1
<1>3. QED
  BY <1>1, <1>2 DEF Release

LEMMA CallerIInv ==
  ASSUME IInv, NEW r \in Requests, Call(r) \/ Acquire(r) \/ Read(r) \/ ReadNone(r)
  PROVE  IInv'
<1> USE DEF IInv
<1>1. CASE Call(r)
  <2>1. TypeOK'
    BY <1>1 DEF Call, Enqueue, TypeOK, rowVars
  <2>2. RotationInv' /\ UsageReadIsCurrent' /\ StickyBound'
    BY <1>1 DEF Call, Enqueue, TypeOK, rowVars, RotationInv, UsageReadIsCurrent, StickyBound
  <2>3. QED
    BY <1>1, <2>1, <2>2, ChainGrows
<1>2. CASE Acquire(r)
  <2>1. ChainInv'
    <3>1. /\ pc[r] \in InCall /\ waitsFor[r] \in resolved /\ pc' = [pc EXCEPT ![r] = "reading"]
          /\ UNCHANGED <<calls, mutex, resolved, promise, waitsFor>>
          /\ "reading" \in InMutex
      BY <1>2 DEF Acquire, InCall, InMutex
    <3>2. QED
      BY <3>1, ChainHolds
  <2>2. TypeOK' /\ RotationInv' /\ UsageReadIsCurrent' /\ StickyBound'
    BY <1>2 DEF Acquire, TypeOK, rowVars, RotationInv, UsageReadIsCurrent, StickyBound, InMutex
  <2>3. QED
    BY <2>1, <2>2
<1>3. CASE Read(r)
  <2>1. ChainInv'
    <3>1. /\ pc[r] \in InMutex /\ pc[r] \in InCall /\ pc' = [pc EXCEPT ![r] = "settings"]
          /\ UNCHANGED <<calls, mutex, resolved, promise, waitsFor>>
          /\ "settings" \in InMutex
      BY <1>3 DEF Read, InCall, InMutex
    <3>2. QED
      BY <3>1, ChainHolds
  <2>2. TypeOK' /\ RotationInv' /\ UsageReadIsCurrent' /\ StickyBound'
    <3>1. Candidates(r) \in SUBSET Conns
      BY DEF Candidates
    <3>2. [conns |-> Candidates(r), lastUsed |-> lastUsed, useCount |-> useCount]
            \in [conns : SUBSET Conns, lastUsed : [Conns -> Nat], useCount : [Conns -> Nat]]
      BY <3>1 DEF TypeOK
    <3>3. TypeOK'
      BY <1>3, <3>2 DEF Read, TypeOK, rowVars, InMutex
    <3>4. RotationInv' /\ UsageReadIsCurrent' /\ StickyBound'
      BY <1>3 DEF Read, TypeOK, rowVars, RotationInv, UsageReadIsCurrent, StickyBound
    <3>5. QED
      BY <3>3, <3>4
  <2>3. QED
    BY <2>1, <2>2
<1>4. CASE ReadNone(r)
  <2>1. ChainInv'
    BY <1>4, ChainAdvances DEF ReadNone, InMutex
  <2>2. TypeOK'
    <3>1. resolved' \in SUBSET Nat
      BY <1>4, ReleaseType DEF ReadNone
    <3>2. QED
      BY <1>4, <3>1 DEF ReadNone, TypeOK, rowVars
  <2>3. RotationInv' /\ UsageReadIsCurrent' /\ StickyBound'
    BY <1>4 DEF ReadNone, TypeOK, rowVars, RotationInv, UsageReadIsCurrent, StickyBound
  <2>4. QED
    BY <2>1, <2>2, <2>3
<1>5. QED
  BY <1>1, <1>2, <1>3, <1>4

LEMMA DecideIInv ==
  ASSUME IInv, NEW r \in Requests, Decide(r)
  PROVE  IInv'
<1> USE DEF IInv
<1>1. ChainInv'
  <2>1. /\ pc[r] \in InMutex /\ pc[r] \in InCall /\ pc' = [pc EXCEPT ![r] = "writing"]
        /\ UNCHANGED <<calls, mutex, resolved, promise, waitsFor>>
        /\ "writing" \in InMutex
    BY DEF Decide, InCall, InMutex
  <2>2. QED
    BY <2>1, ChainHolds
<1>2. PICK t \in Instants : now' = t /\ pick' = [pick EXCEPT ![r] = Rotate(seen[r], t)]
  BY DEF Decide
<1>3. t \in Nat \ {0} /\ now <= t
  BY <1>2 DEF Instants, TypeOK
<1>4. Rotate(seen[r], t) \in [conn : Conns, at : {t}, count : Nat] /\ Rotate(seen[r], t).count <= StickyLimit
  <2>1. seen[r] \in [conns : SUBSET Conns, lastUsed : [Conns -> Nat], useCount : [Conns -> Nat]]
    BY DEF TypeOK
  <2>2. seen[r].conns # {} /\ (\A c \in Conns : seen[r].lastUsed[c] <= now) /\ now \in Nat
    BY DEF Decide, RotationInv, TypeOK
  <2>3. QED
    BY <1>3, <2>1, <2>2, RotateType
<1>5. pc' = [pc EXCEPT ![r] = "writing"] /\ UNCHANGED <<rowVars, calls, mutex, resolved, promise, waitsFor, exclude, seen, passedOver, edits>>
  BY DEF Decide
<1>6. TypeOK'
  BY <1>2, <1>3, <1>4, <1>5 DEF TypeOK, rowVars, InMutex
<1>7. RotationInv'
  <2>1. \A c \in Conns : lastUsed'[c] <= now'
    BY <1>2, <1>3, <1>5 DEF RotationInv, TypeOK, rowVars
  <2>2. \A q \in Requests \ {r} : pc'[q] = pc[q] /\ pick'[q] = pick[q] /\ seen'[q] = seen[q]
    BY <1>2, <1>5 DEF TypeOK
  <2>3. pc'[r] = "writing" /\ pick'[r] = Rotate(seen[r], t)
    BY <1>2, <1>5 DEF TypeOK
  <2>4. \A q \in Requests \ {r} : pc[q] # "writing"
    BY ChainExcludes DEF Decide, OneSelectsAtATime, InMutex
  <2>5. \A q \in Requests \ {r} : pc[q] # "settings"
    BY ChainExcludes DEF Decide, OneSelectsAtATime, InMutex
  <2>6. \A q \in Requests \ {r} :
          pc'[q] \notin {"settings", "writing"} /\ (pc'[q] \in {"proxy", "calling"} => pick'[q].conn \in Conns)
    BY <2>2, <2>4, <2>5 DEF RotationInv
  <2>7. pick'[r].conn \in Conns /\ pick'[r].count <= StickyLimit /\ pick'[r].at <= now'
    <3>1. t <= t
      BY <1>3
    <3>2. QED
      BY <1>2, <1>4, <2>3, <3>1
  <2>8. QED
    BY <2>1, <2>3, <2>6, <2>7 DEF RotationInv
<1>8. UsageReadIsCurrent' /\ StickyBound'
  BY <1>5 DEF UsageReadIsCurrent, StickyBound, Decide, TypeOK, rowVars
<1>9. QED
  BY <1>1, <1>6, <1>7, <1>8

LEMMA WriteIInv ==
  ASSUME IInv, NEW r \in Requests, Write(r)
  PROVE  IInv'
<1> USE DEF IInv
<1>1. ChainInv'
  <2>1. /\ pc[r] \in InMutex /\ pc[r] \in InCall /\ pc' = [pc EXCEPT ![r] = "proxy"]
        /\ UNCHANGED <<calls, mutex, resolved, promise, waitsFor>>
        /\ "proxy" \in InMutex
    BY DEF Write, InCall, InMutex
  <2>2. QED
    BY <2>1, ChainHolds
<1>2. Nothing \in [conns : SUBSET Conns, lastUsed : [Conns -> Nat], useCount : [Conns -> Nat]]
  BY DEF Nothing
<1>3. pick[r].conn \in Conns /\ pick[r].count <= StickyLimit /\ pick[r].at <= now
      /\ pick[r].count \in Nat /\ pick[r].at \in Nat
  BY DEF Write, RotationInv, TypeOK
<1>4. TypeOK'
  <2>1. passedOver' \in [Conns -> Nat]
    BY DEF Write, TypeOK
  <2>2. QED
    BY <1>2, <1>3, <2>1 DEF Write, TypeOK, InMutex
<1>5. \A q \in Requests \ {r} : pc[q] \notin InMutex
  BY ChainExcludes DEF Write, OneSelectsAtATime, InMutex
<1>6. RotationInv' /\ StickyBound'
  BY <1>3, <1>5 DEF Write, TypeOK, RotationInv, StickyBound, InMutex
<1>7. UsageReadIsCurrent'
  BY <1>5 DEF Write, TypeOK, UsageReadIsCurrent, InMutex
<1>8. QED
  BY <1>1, <1>4, <1>6, <1>7

LEMMA LeaveIInv ==
  ASSUME IInv, NEW r \in Requests, Return(r) \/ Throw(r) \/ Succeed(r) \/ Fail(r)
  PROVE  IInv'
<1> USE DEF IInv
<1>1. NoPick \in [conn : Conns \cup {Nobody}, at : Nat, count : Nat]
      /\ Nothing \in [conns : SUBSET Conns, lastUsed : [Conns -> Nat], useCount : [Conns -> Nat]]
  BY DEF NoPick, Nothing
<1>2. CASE Return(r)
  <2>1. ChainInv'
    BY <1>2, ChainAdvances DEF Return, InMutex
  <2>2. TypeOK' /\ RotationInv' /\ UsageReadIsCurrent' /\ StickyBound'
    BY <1>2, ZenonT(40) DEF Return, Release, TypeOK, rowVars, RotationInv, UsageReadIsCurrent, StickyBound
  <2>3. QED
    BY <2>1, <2>2
<1>3. CASE Throw(r)
  <2>1. ChainInv'
    BY <1>3, ChainAdvances DEF Throw
  <2>2. TypeOK' /\ RotationInv' /\ UsageReadIsCurrent' /\ StickyBound'
    <3>1. exclude' \in [Requests -> SUBSET Conns] /\ resolved' \in SUBSET Nat
      BY <1>3, ReleaseType DEF Throw, TypeOK
    <3>2. TypeOK'
      BY <1>1, <1>3, <3>1 DEF Throw, TypeOK, rowVars
    <3>3. RotationInv'
      BY <1>3 DEF Throw, TypeOK, rowVars, RotationInv
    <3>4. UsageReadIsCurrent' /\ StickyBound'
      BY <1>3 DEF Throw, TypeOK, rowVars, UsageReadIsCurrent, StickyBound
    <3>5. QED
      BY <3>2, <3>3, <3>4
  <2>3. QED
    BY <2>1, <2>2
<1>4. CASE Succeed(r) \/ Fail(r)
  <2>1. /\ pc[r] = "calling" /\ pc' = [pc EXCEPT ![r] = "idle"] /\ pick' = [pick EXCEPT ![r] = NoPick]
        /\ UNCHANGED <<lastUsed, useCount, now, calls, mutex, resolved, promise, waitsFor, seen, edits>>
    BY <1>4 DEF Succeed, Fail, rowVars
  <2>2. ChainInv'
    BY <2>1 DEF TypeOK, ChainInv, InCall, InMutex
  <2>3. /\ available' \in [Conns -> BOOLEAN] /\ exclude' \in [Requests -> SUBSET Conns]
        /\ passedOver' \in [Conns -> Nat]
    <3>1. CASE Succeed(r)
      BY <3>1 DEF Succeed, TypeOK, rowVars
    <3>2. CASE Fail(r)
      <4>1. available' = [available EXCEPT ![pick[r].conn] = FALSE]
        BY <3>2 DEF Fail
      <4>2. available' \in [Conns -> BOOLEAN]
        BY <4>1, Zenon DEF TypeOK
      <4>3. QED
        BY <3>2, <4>2 DEF Fail, TypeOK, RotationInv
    <3>3. QED
      BY <1>4, <3>1, <3>2
  <2>4. TypeOK' /\ RotationInv' /\ UsageReadIsCurrent' /\ StickyBound'
    BY <1>1, <2>1, <2>3 DEF TypeOK, RotationInv, UsageReadIsCurrent, StickyBound
  <2>5. QED
    BY <2>2, <2>4
<1>5. QED
  BY <1>2, <1>3, <1>4

LEMMA StepIInv == IInv /\ [Next]_vars => IInv'
<1> SUFFICES ASSUME IInv, [Next]_vars PROVE IInv'
  OBVIOUS
<1>1. ASSUME NEW r \in Requests, Call(r) \/ Select(r) \/ Throw(r) \/ Succeed(r) \/ Fail(r)
      PROVE  IInv'
  BY <1>1, CallerIInv, DecideIInv, WriteIInv, LeaveIInv DEF Select
<1>2. ASSUME NEW c \in Conns, ChangeAvailability(c) PROVE IInv'
  <2>1. available' = [available EXCEPT ![c] = ~ available[c]]
    BY <1>2 DEF ChangeAvailability
  <2>2. available' \in [Conns -> BOOLEAN]
    BY <2>1, Zenon DEF IInv, TypeOK
  <2>3. TypeOK' /\ ChainInv'
    BY <1>2, <2>2 DEF ChangeAvailability, IInv, TypeOK, ChainInv, callVars
  <2>4. RotationInv' /\ UsageReadIsCurrent' /\ StickyBound'
    BY <1>2 DEF ChangeAvailability, IInv, RotationInv, UsageReadIsCurrent, StickyBound, callVars
  <2>5. QED
    BY <2>3, <2>4 DEF IInv
<1>3. CASE UNCHANGED vars
  BY <1>3 DEF vars, rowVars, callVars, IInv, TypeOK, ChainInv, RotationInv, UsageReadIsCurrent, StickyBound
<1>4. QED
  BY <1>1, <1>2, <1>3 DEF Next

-----------------------------------------------------------------------------
(* Fairness of the rotation                                                *)

(* Without ties in the clock, the accounts that have begun a turn an       *)
(* account could have had were all used after it, and as long as it has    *)
(* no turn of its own they stay so.                                        *)
Later(d) == {c \in Conns : lastUsed[d] < lastUsed[c]}

FairInv ==
  /\ \A c \in Conns : lastUsed[c] > 0 => useCount[c] > 0
  /\ \A r \in Requests : pc[r] = "writing" =>
       /\ pick[r].count > 0
       /\ \A c \in Conns : lastUsed[c] < pick[r].at
       /\ pick[r].count = 1 => \A d \in seen[r].conns : lastUsed[pick[r].conn] <= lastUsed[d]
  /\ \A d \in Conns : passedOver[d] <= Cardinality(Later(d))

LEMMA LaterIsFinite ==
  ASSUME TypeOK, NEW d \in Conns
  PROVE  /\ IsFiniteSet(Later(d)) /\ Cardinality(Later(d)) \in Nat
         /\ Cardinality(Later(d)) <= Cardinality(Conns) - 1
<1>1. IsFiniteSet(Conns) /\ IsFiniteSet(Conns \ {d}) /\ Cardinality(Conns \ {d}) = Cardinality(Conns) - 1
  BY SelectionAssumption, FS_RemoveElement
<1>2. Later(d) \subseteq Conns \ {d}
  BY DEF Later, TypeOK
<1>3. QED
  BY <1>1, <1>2, FS_Subset, FS_CardinalityType

LEMMA FairInvMeans == TypeOK /\ FairInv => NoAccountStarves
<1> SUFFICES ASSUME TypeOK, FairInv, NEW d \in Conns
             PROVE  passedOver[d] <= Cardinality(Conns) - 1
  BY DEF NoAccountStarves
<1>1. passedOver[d] \in Nat /\ passedOver[d] <= Cardinality(Later(d))
  BY DEF TypeOK, FairInv
<1>2. Cardinality(Later(d)) \in Nat /\ Cardinality(Later(d)) <= Cardinality(Conns) - 1
  BY LaterIsFinite
<1>3. Cardinality(Conns) \in Nat
  BY SelectionAssumption, FS_CardinalityType
<1>4. QED
  BY <1>1, <1>2, <1>3

LEMMA InitFair == Init => FairInv
<1> SUFFICES ASSUME Init PROVE FairInv
  OBVIOUS
<1>1. TypeOK
  BY InitIInv DEF IInv
<1>2. \A d \in Conns : passedOver[d] = 0 /\ Cardinality(Later(d)) \in Nat
  BY <1>1, LaterIsFinite DEF Init
<1>3. QED
  BY <1>2 DEF Init, FairInv

(* The pick is later than every use, because nobody else is inside.        *)
LEMMA DecideFair ==
  ASSUME IInv, FairInv, ~ SameMs, NEW r \in Requests, Decide(r)
  PROVE  FairInv'
<1> DEFINE t == now + 1
<1>1. /\ pick' = [pick EXCEPT ![r] = Rotate(seen[r], t)]
      /\ pc' = [pc EXCEPT ![r] = "writing"] /\ pc[r] = "settings"
      /\ UNCHANGED <<rowVars, seen, passedOver>>
  BY DEF Decide, Instants
<1>2. /\ seen[r] \in [conns : SUBSET Conns, lastUsed : [Conns -> Nat], useCount : [Conns -> Nat]]
      /\ seen[r].conns # {} /\ now \in Nat /\ t \in Nat
      /\ \A c \in Conns : seen[r].lastUsed[c] <= now
      /\ seen[r].lastUsed = lastUsed /\ seen[r].useCount = useCount
  BY <1>1 DEF IInv, TypeOK, RotationInv, UsageReadIsCurrent
<1>3. \A c \in Conns : seen[r].lastUsed[c] > 0 => seen[r].useCount[c] > 0
  BY <1>2 DEF FairInv
<1>4. /\ Rotate(seen[r], t).count > 0 /\ Rotate(seen[r], t).at = t
      /\ Rotate(seen[r], t).count = 1 =>
           \A d \in seen[r].conns : lastUsed[Rotate(seen[r], t).conn] <= lastUsed[d]
  <2> HIDE DEF t
  <2>1. QED
    BY <1>2, <1>3, RotateIsFair
<1>5. \A q \in Requests \ {r} : pc'[q] # "writing"
  BY <1>1, ChainExcludes DEF IInv, TypeOK, OneSelectsAtATime, InMutex
<1>6. \A c \in Conns : lastUsed[c] < t
  BY <1>2 DEF IInv, TypeOK, RotationInv
<1>7. pick'[r] = Rotate(seen[r], t) /\ UNCHANGED <<lastUsed, useCount, seen, passedOver>>
  BY <1>1 DEF IInv, TypeOK, rowVars
<1>8. QED
  <2> HIDE DEF t
  <2>1. \A d \in Conns : Later(d)' = Later(d)
    BY <1>7 DEF Later
  <2>2. QED
    BY <1>4, <1>5, <1>6, <1>7, <2>1 DEF FairInv

LEMMA WriteFair ==
  ASSUME IInv, FairInv, NEW r \in Requests, Write(r)
  PROVE  FairInv'
<1> DEFINE c == pick[r].conn
<1>1. /\ pc[r] = "writing" /\ pc' = [pc EXCEPT ![r] = "proxy"]
      /\ c \in Conns /\ pick[r].at \in Nat /\ pick[r].count \in Nat /\ pick[r].count > 0
      /\ lastUsed \in [Conns -> Nat] /\ useCount \in [Conns -> Nat] /\ passedOver \in [Conns -> Nat]
      /\ lastUsed' = [lastUsed EXCEPT ![c] = pick[r].at]
      /\ useCount' = [useCount EXCEPT ![c] = pick[r].count]
      /\ \A d \in Conns : lastUsed[d] < pick[r].at
  BY DEF Write, IInv, TypeOK, RotationInv, FairInv
<1>2. \A q \in Requests : pc'[q] # "writing"
  BY <1>1, ChainExcludes DEF IInv, TypeOK, OneSelectsAtATime, InMutex
<1>3. TypeOK'
  BY WriteIInv DEF IInv
<1>4. ASSUME NEW d \in Conns PROVE passedOver'[d] <= Cardinality(Later(d)')
  <2>1. /\ IsFiniteSet(Later(d)) /\ Cardinality(Later(d)) \in Nat
        /\ passedOver[d] \in Nat /\ passedOver[d] <= Cardinality(Later(d))
    BY LaterIsFinite DEF IInv, TypeOK, FairInv
  <2>2. IsFiniteSet(Later(d)') /\ Cardinality(Later(d)') \in Nat
    <3>1. Later(d)' \subseteq Conns
      BY <1>3 DEF Later, TypeOK
    <3>2. QED
      BY <3>1, SelectionAssumption, FS_Subset, FS_CardinalityType
  <2>3. CASE d = c
    BY <2>2, <2>3 DEF Write
  <2>4. CASE d # c
    <3>1. Later(d)' = Later(d) \cup {c}
      BY <1>1, <2>4 DEF Later
    <3>2. CASE d \in seen[r].conns /\ pick[r].count = 1
      <4>1. c \notin Later(d)
        BY <1>1, <3>2 DEF FairInv, Later
      <4>2. Cardinality(Later(d)') = Cardinality(Later(d)) + 1
        BY <2>1, <3>1, <4>1, FS_AddElement
      <4>3. passedOver'[d] = passedOver[d] + 1
        BY <2>4, <3>2 DEF Write
      <4>4. QED
        BY <2>1, <4>2, <4>3
    <3>3. CASE ~ (d \in seen[r].conns /\ pick[r].count = 1)
      <4>1. Cardinality(Later(d)) <= Cardinality(Later(d)')
        BY <2>2, <3>1, FS_Subset
      <4>2. passedOver'[d] = passedOver[d]
        BY <2>4, <3>3 DEF Write
      <4>3. QED
        BY <2>1, <2>2, <4>1, <4>2
    <3>4. QED
      BY <3>2, <3>3
  <2>5. QED
    BY <2>3, <2>4
<1>5. \A d \in Conns : lastUsed'[d] > 0 => useCount'[d] > 0
  BY <1>1 DEF FairInv
<1>6. QED
  BY <1>2, <1>4, <1>5 DEF FairInv

LEMMA OthersFair ==
  ASSUME IInv, FairInv, UNCHANGED <<lastUsed, useCount, passedOver>>,
         \A r \in Requests : pc'[r] = "writing" =>
           pc[r] = "writing" /\ pick'[r] = pick[r] /\ seen'[r] = seen[r]
  PROVE  FairInv'
<1>1. \A d \in Conns : Later(d)' = Later(d)
  BY DEF Later
<1>2. QED
  BY <1>1 DEF FairInv

LEMMA StepFair == IInv /\ FairInv /\ ~ SameMs /\ [Next]_vars => FairInv'
<1> SUFFICES ASSUME IInv, FairInv, ~ SameMs, [Next]_vars PROVE FairInv'
  OBVIOUS
<1>1. ASSUME NEW r \in Requests, Decide(r) \/ Write(r) PROVE FairInv'
  BY <1>1, DecideFair, WriteFair
<1>2. ASSUME NEW r \in Requests,
             \/ Call(r) \/ Acquire(r) \/ Read(r) \/ ReadNone(r) \/ Return(r)
             \/ Throw(r) \/ Succeed(r) \/ Fail(r)
      PROVE  FairInv'
  <2>1. UNCHANGED <<lastUsed, useCount, passedOver>>
    BY <1>2 DEF Call, Acquire, Read, ReadNone, Return, Throw, Succeed, Fail, rowVars
  <2>2. \A q \in Requests : pc'[q] = "writing" =>
          pc[q] = "writing" /\ pick'[q] = pick[q] /\ seen'[q] = seen[q]
    BY <1>2 DEF Call, Acquire, Read, ReadNone, Return, Throw, Succeed, Fail, IInv, TypeOK
  <2>3. QED
    BY <2>1, <2>2, OthersFair
<1>3. CASE (\E c \in Conns : ChangeAvailability(c)) \/ UNCHANGED vars
  <2>1. UNCHANGED <<lastUsed, useCount, passedOver, callVars>>
    BY <1>3 DEF ChangeAvailability, vars, rowVars
  <2>2. QED
    BY <2>1, OthersFair DEF callVars
<1>4. QED
  BY <1>1, <1>2, <1>3 DEF Next, Select

-----------------------------------------------------------------------------
(* Theorems                                                                *)

THEOREM SpecIInv == Spec => []IInv
<1>1. QED
  BY InitIInv, StepIInv, PTL DEF Spec

(* Every variable keeps its type: a call that has chosen has chosen one of *)
(* the provider's connections.                                             *)
THEOREM SpecTypeOK == Spec => []TypeOK
<1>1. IInv => TypeOK
  BY DEF IInv
<1>2. QED
  BY <1>1, SpecIInv, PTL

(* The promise chain is a mutex, whatever throws and whenever.             *)
THEOREM SpecOneSelectsAtATime == Spec => []OneSelectsAtATime
<1>1. IInv => OneSelectsAtATime
  BY ChainExcludes DEF IInv
<1>2. QED
  BY <1>1, SpecIInv, PTL

(* The usage fields a call writes back are the ones it read: no turn is    *)
(* lost.                                                                   *)
THEOREM SpecUsageReadIsCurrent == Spec => []UsageReadIsCurrent
<1>1. IInv => UsageReadIsCurrent
  BY DEF IInv
<1>2. QED
  BY <1>1, SpecIInv, PTL

(* No account is used more often in a row than its limit says.             *)
THEOREM SpecStickyBound == Spec => []StickyBound
<1>1. IInv => StickyBound
  BY DEF IInv
<1>2. QED
  BY <1>1, SpecIInv, PTL

(* The rotation starves nobody, if no two selections fall into one         *)
(* millisecond (the sort by lastUsedAt cannot tell those apart).           *)
THEOREM SpecNoAccountStarves ==
  ASSUME ~ SameMs
  PROVE  Spec => []NoAccountStarves
<1>1. IInv /\ FairInv => NoAccountStarves
  BY FairInvMeans DEF IInv
<1>2. IInv /\ FairInv /\ [Next]_vars => FairInv'
  BY StepFair
<1>3. QED
  BY <1>1, <1>2, InitFair, SpecIInv, PTL DEF Spec

-----------------------------------------------------------------------------
(* The tokens of the account: TokenRefresh *)

(* Nobody holds a token the provider has not issued, and the result kept   *)
(* for a token is a newer one.                                             *)
HeldInv ==
  /\ row <= live
  /\ lock <= live
  /\ \A r \in Chats : tok[r] <= live
  /\ \A r \in Chats : got[r] \in Tokens => got[r] <= live
  /\ \A t \in Tokens : kept[t] \in Tokens => t < kept[t] /\ kept[t] <= live

(* A refresh returns a token newer than the request's own, also when the   *)
(* request joined the refresh of another token.                            *)
GotInv == \A r \in Chats : stage[r] = "got" /\ got[r] \in Tokens => tok[r] < got[r]

(* Until it gets a new one, a refused request holds the token that was     *)
(* refused.                                                                *)
RefusedInv ==
  \A r \in Chats :
    /\ stage[r] \in {"asking", "waiting", "got", "sleeping"} /\ phase[r] = "reactive" => refused[r] = tok[r]
    /\ stage[r] \in {"asking", "sleeping"} => phase[r] = "reactive"
    /\ stage[r] \in {"idle", "selected", "calling"} => phase[r] = "proactive"

(* The kept result of a spent token outlives the danger of sending it.     *)
SpentInv == \A t \in Tokens : spentAge[t] < DedupTtl => ttl[t] + spentAge[t] >= DedupTtl

TokenIInv == TokenTypeOK /\ HeldInv /\ GotInv /\ RefusedInv /\ SpentInv /\ RetryUsesANewerToken

-----------------------------------------------------------------------------
LEMMA InitTokenIInv == TokenInit => TokenIInv
<1> USE RefreshAssumption
<1>1. QED
  BY DEF TokenInit, TokenIInv, TokenTypeOK, HeldInv, GotInv, RefusedInv, SpentInv, RetryUsesANewerToken,
         Tokens, Outcomes, NoRefresh, Failed, Stages

(* What the proofs need to know of tokens and outcomes. *)
LEMMA TokenFacts ==
  /\ Tokens \subseteq Nat
  /\ 1 \in Tokens /\ \A t \in Tokens : 1 <= t
  /\ \A t \in Tokens : t < MaxTokens => t + 1 \in Tokens
  /\ Failed \notin Tokens /\ Dead \notin Tokens /\ NoRefresh \notin Tokens
  /\ Outcomes = Tokens \cup {Failed, Dead}
  BY RefreshAssumption DEF Tokens, Failed, Dead, NoRefresh, Outcomes

(* One lemma per kind of step. *)
LEMMA SelectAccountKeeps == ASSUME TokenIInv, NEW r \in Chats, SelectAccount(r) PROVE TokenIInv'
<1> USE RefreshAssumption, TokenFacts DEF SelectAccount, Stages
<1>1. TokenTypeOK'
  BY DEF TokenIInv, TokenTypeOK
<1>2. HeldInv'
  BY DEF TokenIInv, TokenTypeOK, HeldInv
<1>3. GotInv'
  BY DEF TokenIInv, TokenTypeOK, HeldInv, GotInv
<1>4. RefusedInv'
  BY DEF TokenIInv, TokenTypeOK, RefusedInv
<1>5. SpentInv'
  BY DEF TokenIInv, TokenTypeOK, SpentInv, RefusedInv
<1>6. RetryUsesANewerToken'
  BY DEF TokenIInv, TokenTypeOK, GotInv, RefusedInv, RetryUsesANewerToken
<1>7. QED
  BY <1>1, <1>2, <1>3, <1>4, <1>5, <1>6 DEF TokenIInv

LEMMA NotDueKeeps == ASSUME TokenIInv, NEW r \in Chats, NotDue(r) PROVE TokenIInv'
<1> USE RefreshAssumption, TokenFacts DEF NotDue, Stages
<1>1. TokenTypeOK'
  BY DEF TokenIInv, TokenTypeOK
<1>2. HeldInv'
  BY DEF TokenIInv, TokenTypeOK, HeldInv
<1>3. GotInv'
  BY DEF TokenIInv, TokenTypeOK, HeldInv, GotInv
<1>4. RefusedInv'
  BY DEF TokenIInv, TokenTypeOK, RefusedInv
<1>5. SpentInv'
  BY DEF TokenIInv, TokenTypeOK, SpentInv, RefusedInv
<1>6. RetryUsesANewerToken'
  BY DEF TokenIInv, TokenTypeOK, GotInv, RefusedInv, RetryUsesANewerToken
<1>7. QED
  BY <1>1, <1>2, <1>3, <1>4, <1>5, <1>6 DEF TokenIInv

LEMMA JoinRefreshKeeps == ASSUME TokenIInv, NEW r \in Chats, JoinRefresh(r) PROVE TokenIInv'
<1> USE RefreshAssumption, TokenFacts DEF JoinRefresh, Asks, Stages
<1>1. TokenTypeOK'
  BY DEF TokenIInv, TokenTypeOK
<1>2. HeldInv'
  BY DEF TokenIInv, TokenTypeOK, HeldInv
<1>3. GotInv'
  BY DEF TokenIInv, TokenTypeOK, HeldInv, GotInv
<1>4. RefusedInv'
  BY DEF TokenIInv, TokenTypeOK, RefusedInv
<1>5. SpentInv'
  BY DEF TokenIInv, TokenTypeOK, SpentInv, RefusedInv
<1>6. RetryUsesANewerToken'
  BY DEF TokenIInv, TokenTypeOK, GotInv, RefusedInv, RetryUsesANewerToken
<1>7. QED
  BY <1>1, <1>2, <1>3, <1>4, <1>5, <1>6 DEF TokenIInv

LEMMA ReuseResultKeeps == ASSUME TokenIInv, NEW r \in Chats, ReuseResult(r) PROVE TokenIInv'
<1> USE RefreshAssumption, TokenFacts DEF ReuseResult, Fresh, Asks, Stages
<1>1. TokenTypeOK'
  BY DEF TokenIInv, TokenTypeOK
<1>2. HeldInv'
  BY DEF TokenIInv, TokenTypeOK, HeldInv
<1>3. GotInv'
  BY DEF TokenIInv, TokenTypeOK, HeldInv, GotInv
<1>4. RefusedInv'
  BY DEF TokenIInv, TokenTypeOK, RefusedInv
<1>5. SpentInv'
  BY DEF TokenIInv, TokenTypeOK, SpentInv, RefusedInv
<1>6. RetryUsesANewerToken'
  BY DEF TokenIInv, TokenTypeOK, GotInv, RefusedInv, RetryUsesANewerToken
<1>7. QED
  BY <1>1, <1>2, <1>3, <1>4, <1>5, <1>6 DEF TokenIInv

LEMMA SendRefreshKeeps == ASSUME TokenIInv, NEW r \in Chats, SendRefresh(r) PROVE TokenIInv'
<1> USE RefreshAssumption, TokenFacts DEF SendRefresh, Fresh, Asks, Stages
<1>1. TokenTypeOK'
  BY DEF TokenIInv, TokenTypeOK
<1>2. HeldInv'
  BY DEF TokenIInv, TokenTypeOK, HeldInv
<1>3. GotInv'
  BY DEF TokenIInv, TokenTypeOK, HeldInv, GotInv
<1>4. RefusedInv'
  BY DEF TokenIInv, TokenTypeOK, RefusedInv
<1>5. SpentInv'
  BY DEF TokenIInv, TokenTypeOK, SpentInv, RefusedInv
<1>6. RetryUsesANewerToken'
  BY DEF TokenIInv, TokenTypeOK, GotInv, RefusedInv, RetryUsesANewerToken
<1>7. QED
  BY <1>1, <1>2, <1>3, <1>4, <1>5, <1>6 DEF TokenIInv

LEMMA PersistKeeps == ASSUME TokenIInv, NEW r \in Chats, Persist(r) PROVE TokenIInv'
<1> USE RefreshAssumption, TokenFacts DEF Persist, Saved, WriteFails, Stages
<1>1. TokenTypeOK'
  BY DEF TokenIInv, TokenTypeOK
<1>2. HeldInv'
  BY DEF TokenIInv, TokenTypeOK, HeldInv
<1>3. GotInv'
  BY DEF TokenIInv, TokenTypeOK, HeldInv, GotInv
<1>4. RefusedInv'
  BY DEF TokenIInv, TokenTypeOK, RefusedInv
<1>5. SpentInv'
  BY DEF TokenIInv, TokenTypeOK, SpentInv, RefusedInv
<1>6. RetryUsesANewerToken'
  BY DEF TokenIInv, TokenTypeOK, GotInv, RefusedInv, RetryUsesANewerToken
<1>7. QED
  BY <1>1, <1>2, <1>3, <1>4, <1>5, <1>6 DEF TokenIInv

LEMMA CarryOnKeeps == ASSUME TokenIInv, NEW r \in Chats, CarryOn(r) PROVE TokenIInv'
<1> USE RefreshAssumption, TokenFacts DEF CarryOn, Stages
<1>1. TokenTypeOK'
  BY DEF TokenIInv, TokenTypeOK
<1>2. HeldInv'
  BY DEF TokenIInv, TokenTypeOK, HeldInv
<1>3. GotInv'
  BY DEF TokenIInv, TokenTypeOK, HeldInv, GotInv
<1>4. RefusedInv'
  BY DEF TokenIInv, TokenTypeOK, RefusedInv
<1>5. SpentInv'
  BY DEF TokenIInv, TokenTypeOK, SpentInv, RefusedInv
<1>6. RetryUsesANewerToken'
  BY DEF TokenIInv, TokenTypeOK, GotInv, RefusedInv, RetryUsesANewerToken
<1>7. QED
  BY <1>1, <1>2, <1>3, <1>4, <1>5, <1>6 DEF TokenIInv

LEMMA SleepKeeps == ASSUME TokenIInv, NEW r \in Chats, Sleep(r) PROVE TokenIInv'
<1> USE RefreshAssumption, TokenFacts DEF Sleep, AttemptsLeft, Stages
<1>1. TokenTypeOK'
  BY DEF TokenIInv, TokenTypeOK
<1>2. HeldInv'
  BY DEF TokenIInv, TokenTypeOK, HeldInv
<1>3. GotInv'
  BY DEF TokenIInv, TokenTypeOK, HeldInv, GotInv
<1>4. RefusedInv'
  BY DEF TokenIInv, TokenTypeOK, RefusedInv
<1>5. SpentInv'
  BY DEF TokenIInv, TokenTypeOK, SpentInv, RefusedInv
<1>6. RetryUsesANewerToken'
  BY DEF TokenIInv, TokenTypeOK, GotInv, RefusedInv, RetryUsesANewerToken
<1>7. QED
  BY <1>1, <1>2, <1>3, <1>4, <1>5, <1>6 DEF TokenIInv

LEMMA GiveUpKeeps == ASSUME TokenIInv, NEW r \in Chats, GiveUp(r) PROVE TokenIInv'
<1> USE RefreshAssumption, TokenFacts DEF GiveUp, Finish, Stages
<1>1. TokenTypeOK'
  BY DEF TokenIInv, TokenTypeOK
<1>2. HeldInv'
  BY DEF TokenIInv, TokenTypeOK, HeldInv
<1>3. GotInv'
  BY DEF TokenIInv, TokenTypeOK, HeldInv, GotInv
<1>4. RefusedInv'
  BY DEF TokenIInv, TokenTypeOK, RefusedInv
<1>5. SpentInv'
  BY DEF TokenIInv, TokenTypeOK, SpentInv, RefusedInv
<1>6. RetryUsesANewerToken'
  BY DEF TokenIInv, TokenTypeOK, GotInv, RefusedInv, RetryUsesANewerToken
<1>7. QED
  BY <1>1, <1>2, <1>3, <1>4, <1>5, <1>6 DEF TokenIInv

LEMMA WakeKeeps == ASSUME TokenIInv, NEW r \in Chats, Wake(r) PROVE TokenIInv'
<1> USE RefreshAssumption, TokenFacts DEF Wake, Stages
<1>1. TokenTypeOK'
  BY DEF TokenIInv, TokenTypeOK
<1>2. HeldInv'
  BY DEF TokenIInv, TokenTypeOK, HeldInv
<1>3. GotInv'
  BY DEF TokenIInv, TokenTypeOK, HeldInv, GotInv
<1>4. RefusedInv'
  BY DEF TokenIInv, TokenTypeOK, RefusedInv
<1>5. SpentInv'
  BY DEF TokenIInv, TokenTypeOK, SpentInv, RefusedInv
<1>6. RetryUsesANewerToken'
  BY DEF TokenIInv, TokenTypeOK, GotInv, RefusedInv, RetryUsesANewerToken
<1>7. QED
  BY <1>1, <1>2, <1>3, <1>4, <1>5, <1>6 DEF TokenIInv

LEMMA UpstreamRefusesKeeps == ASSUME TokenIInv, NEW r \in Chats, UpstreamRefuses(r) PROVE TokenIInv'
<1> USE RefreshAssumption, TokenFacts DEF UpstreamRefuses, Stages
<1>1. TokenTypeOK'
  BY DEF TokenIInv, TokenTypeOK
<1>2. HeldInv'
  BY DEF TokenIInv, TokenTypeOK, HeldInv
<1>3. GotInv'
  BY DEF TokenIInv, TokenTypeOK, HeldInv, GotInv
<1>4. RefusedInv'
  BY DEF TokenIInv, TokenTypeOK, RefusedInv
<1>5. SpentInv'
  BY DEF TokenIInv, TokenTypeOK, SpentInv, RefusedInv
<1>6. RetryUsesANewerToken'
  BY DEF TokenIInv, TokenTypeOK, GotInv, RefusedInv, RetryUsesANewerToken
<1>7. QED
  BY <1>1, <1>2, <1>3, <1>4, <1>5, <1>6 DEF TokenIInv

LEMMA UpstreamAnswersKeeps == ASSUME TokenIInv, NEW r \in Chats, UpstreamAnswers(r) PROVE TokenIInv'
<1> USE RefreshAssumption, TokenFacts DEF UpstreamAnswers, Finish, Stages
<1>1. TokenTypeOK'
  BY DEF TokenIInv, TokenTypeOK
<1>2. HeldInv'
  BY DEF TokenIInv, TokenTypeOK, HeldInv
<1>3. GotInv'
  BY DEF TokenIInv, TokenTypeOK, HeldInv, GotInv
<1>4. RefusedInv'
  BY DEF TokenIInv, TokenTypeOK, RefusedInv
<1>5. SpentInv'
  BY DEF TokenIInv, TokenTypeOK, SpentInv, RefusedInv
<1>6. RetryUsesANewerToken'
  BY DEF TokenIInv, TokenTypeOK, GotInv, RefusedInv, RetryUsesANewerToken
<1>7. QED
  BY <1>1, <1>2, <1>3, <1>4, <1>5, <1>6 DEF TokenIInv

LEMMA ProviderAnswersKeeps == ASSUME TokenIInv, ProviderAnswers PROVE TokenIInv'
<1> USE RefreshAssumption, TokenFacts DEF Stages
<1>1. PICK result \in Outcomes :
        /\ lock # NoRefresh
        /\ Settle(result)
        /\ \/ Rotates(result) /\ live' = live + 1 /\ spentAge' = [spentAge EXCEPT ![lock] = 0]
           \/ (Refuses(result) \/ Stumbles(result)) /\ UNCHANGED <<live, spentAge>>
  BY DEF ProviderAnswers
<1>2. lock \in Tokens /\ live \in Tokens
  BY <1>1 DEF TokenIInv, TokenTypeOK
<1>3. /\ live <= live' /\ live' \in Tokens
      /\ result \in Tokens => result = live' /\ live < live'
  <2>1. CASE Rotates(result) /\ live' = live + 1
    BY <1>2, <2>1 DEF Rotates
  <2>2. CASE (Refuses(result) \/ Stumbles(result)) /\ UNCHANGED live
    BY <1>2, <2>2 DEF Refuses, Stumbles
  <2>3. QED
    BY <1>1, <2>1, <2>2
<1>4. TokenTypeOK'
  <2>1. spentAge' \in [Tokens -> 0..DedupTtl] /\ ttl' \in [Tokens -> 0..DedupTtl]
    BY <1>1, <1>2 DEF TokenIInv, TokenTypeOK, Settle
  <2>2. QED
    BY <1>1, <1>3, <2>1 DEF TokenIInv, TokenTypeOK, Settle
<1>5. HeldInv'
  <2>1. /\ row' = row /\ tok' = tok /\ lock' = NoRefresh
        /\ kept' = [kept EXCEPT ![lock] = result]
        /\ got' = [q \in Chats |-> IF stage[q] = "waiting" THEN result ELSE got[q]]
    BY <1>1 DEF Settle
  <2>2. row \in Nat /\ live \in Nat /\ live' \in Nat /\ \A q \in Chats : tok[q] \in Nat
    BY <1>2, <1>3 DEF TokenIInv, TokenTypeOK
  <2>3. row' <= live' /\ lock' <= live' /\ \A q \in Chats : tok'[q] <= live'
    BY <1>3, <2>1, <2>2 DEF TokenIInv, HeldInv, NoRefresh
  <2>4. ASSUME NEW q \in Chats, got'[q] \in Tokens PROVE got'[q] <= live'
    <3>1. got'[q] = result \/ (got'[q] = got[q] /\ got[q] \in Tokens)
      BY <2>1, <2>4
    <3>2. got[q] \in Tokens => got[q] <= live /\ got[q] \in Nat
      BY DEF TokenIInv, HeldInv
    <3>3. QED
      BY <1>3, <2>2, <2>4, <3>1, <3>2
  <2>5. ASSUME NEW t \in Tokens, kept'[t] \in Tokens PROVE t < kept'[t] /\ kept'[t] <= live'
    <3>1. CASE t = lock
      <4>1. kept'[t] = result
        BY <1>2, <2>1, <3>1 DEF TokenIInv, TokenTypeOK
      <4>2. lock <= live /\ lock \in Nat
        BY <1>2 DEF TokenIInv, HeldInv
      <4>3. QED
        BY <1>3, <2>2, <2>5, <3>1, <4>1, <4>2
    <3>2. CASE t # lock
      <4>1. kept'[t] = kept[t] /\ kept[t] \in Nat
        BY <2>1, <2>5, <3>2 DEF TokenIInv, TokenTypeOK
      <4>2. t < kept[t] /\ kept[t] <= live
        BY <2>5, <4>1 DEF TokenIInv, HeldInv
      <4>3. QED
        BY <1>3, <2>2, <4>1, <4>2
    <3>3. QED
      BY <3>1, <3>2
  <2>6. QED
    BY <2>3, <2>4, <2>5 DEF HeldInv
<1>6. GotInv'
  <2>1. SUFFICES ASSUME NEW q \in Chats, stage'[q] = "got", got'[q] \in Tokens PROVE tok'[q] < got'[q]
    BY DEF GotInv
  <2>2. tok'[q] = tok[q] /\ tok[q] \in Nat /\ live \in Nat /\ live' \in Nat
    BY <1>1, <1>2, <1>3 DEF Settle, TokenIInv, TokenTypeOK
  <2>3. CASE stage[q] = "waiting"
    <3>1. got'[q] = result /\ tok[q] <= live
      BY <1>1, <2>3 DEF Settle, TokenIInv, HeldInv
    <3>2. QED
      BY <1>3, <2>1, <2>2, <3>1
  <2>4. CASE stage[q] # "waiting"
    <3>1. got'[q] = got[q] /\ stage[q] = "got"
      BY <1>1, <2>1, <2>4 DEF Settle
    <3>2. QED
      BY <2>1, <2>2, <3>1 DEF TokenIInv, GotInv
  <2>5. QED
    BY <2>3, <2>4
<1>7. RefusedInv'
  BY <1>1 DEF TokenIInv, TokenTypeOK, RefusedInv, Settle
<1>8. SpentInv'
  BY <1>1, <1>2 DEF TokenIInv, TokenTypeOK, SpentInv, Settle
<1>9. RetryUsesANewerToken'
  BY <1>1 DEF TokenIInv, TokenTypeOK, RetryUsesANewerToken, Settle
<1>10. QED
  BY <1>4, <1>5, <1>6, <1>7, <1>8, <1>9 DEF TokenIInv

LEMMA TickKeeps == ASSUME TokenIInv, Tick PROVE TokenIInv'
<1> USE RefreshAssumption, TokenFacts DEF Tick, Stages
<1>1. TokenTypeOK'
  BY DEF TokenIInv, TokenTypeOK
<1>2. HeldInv'
  BY DEF TokenIInv, TokenTypeOK, HeldInv
<1>3. GotInv' /\ RefusedInv' /\ RetryUsesANewerToken'
  BY DEF TokenIInv, GotInv, RefusedInv, RetryUsesANewerToken
<1>4. SpentInv'
  BY DEF TokenIInv, TokenTypeOK, SpentInv
<1>5. QED
  BY <1>1, <1>2, <1>3, <1>4 DEF TokenIInv

LEMMA StutterKeeps == ASSUME TokenIInv, UNCHANGED tokenVars PROVE TokenIInv'
  BY DEF TokenIInv, TokenTypeOK, HeldInv, GotInv, RefusedInv, SpentInv, RetryUsesANewerToken, tokenVars, chatVars

LEMMA NextKeeps == TokenIInv /\ [TokenNext]_tokenVars => TokenIInv'
<1> SUFFICES ASSUME TokenIInv, [TokenNext]_tokenVars PROVE TokenIInv'
  OBVIOUS
<1>1. ASSUME NEW r \in Chats, Ask(r) PROVE TokenIInv'
  BY <1>1, JoinRefreshKeeps, ReuseResultKeeps, SendRefreshKeeps DEF Ask
<1>2. ASSUME NEW r \in Chats, UseResult(r) PROVE TokenIInv'
  BY <1>2, PersistKeeps, CarryOnKeeps, SleepKeeps, GiveUpKeeps DEF UseResult
<1>3. ASSUME NEW r \in Chats, Upstream(r) PROVE TokenIInv'
  BY <1>3, UpstreamRefusesKeeps, UpstreamAnswersKeeps DEF Upstream
<1>4. ASSUME NEW r \in Chats, SelectAccount(r) \/ NotDue(r) \/ Wake(r) PROVE TokenIInv'
  BY <1>4, SelectAccountKeeps, NotDueKeeps, WakeKeeps
<1>5. QED
  BY <1>1, <1>2, <1>3, <1>4, ProviderAnswersKeeps, TickKeeps, StutterKeeps DEF TokenNext

(* Type correctness and the strengthening, of every reachable state. *)
THEOREM SpecTokenIInv == TokenSpec => []TokenIInv
  BY InitTokenIInv, NextKeeps, PTL DEF TokenSpec

(* The variables have their types, for any number of requests, tokens and  *)
(* attempts (chat requests over one OAuth account).                        *)
THEOREM SpecTokenTypeOK == TokenSpec => []TokenTypeOK
<1>1. TokenIInv => TokenTypeOK
  BY DEF TokenIInv
<1>2. QED
  BY <1>1, SpecTokenIInv, PTL

(* The upstream is called again only with a token newer than the one it    *)
(* refused (chatCore's retry after 401 or 403).                            *)
THEOREM SpecRetryUsesANewerToken == TokenSpec => []RetryUsesANewerToken
<1>1. TokenIInv => RetryUsesANewerToken
  BY DEF TokenIInv
<1>2. QED
  BY <1>1, SpecTokenIInv, PTL

(* A spent refresh token is not sent again while its result is kept (the   *)
(* lock of oauthCredentialManager and the cache of dedupRefresh together). *)
THEOREM SpecNoTokenSpentTwice == TokenSpec => NoTokenSpentTwice
<1> DEFINE Once == \A t \in Tokens : (lock # t /\ lock' = t) => spentAge[t] = DedupTtl
<1>1. TokenIInv /\ [TokenNext]_tokenVars => [Once]_tokenVars
  <2> SUFFICES ASSUME TokenIInv, TokenNext, NEW t \in Tokens, lock # t, lock' = t PROVE spentAge[t] = DedupTtl
    OBVIOUS
  <2>1. PICK r \in Chats : SendRefresh(r)
    BY DEF TokenNext, Ask, UseResult, Upstream, SelectAccount, NotDue, JoinRefresh, ReuseResult, Persist, CarryOn,
           Sleep, GiveUp, Wake, UpstreamRefuses, UpstreamAnswers, Finish, ProviderAnswers, Settle, Tick,
           Tokens, NoRefresh
  <2>2. t = tok[r] /\ ~(ttl[t] > 0)
    BY <2>1 DEF SendRefresh, Fresh
  <2>3. QED
    <3>1. ttl[t] \in 0..DedupTtl /\ spentAge[t] \in 0..DedupTtl
      BY DEF TokenIInv, TokenTypeOK
    <3>2. spentAge[t] < DedupTtl => ttl[t] + spentAge[t] >= DedupTtl
      BY DEF TokenIInv, SpentInv
    <3>3. QED
      BY <2>2, <3>1, <3>2, RefreshAssumption
<1>2. QED
  BY <1>1, SpecTokenIInv, PTL DEF TokenSpec, NoTokenSpentTwice

=============================================================================
