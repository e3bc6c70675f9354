------------------------ MODULE RequestDetails_proofs ------------------------
(***************************************************************************)
(* Theorems about RequestDetails, for all requests, sizes and delays: the  *)
(* write buffer and the dirty database are never left without a writer     *)
(* (IInv), and no detail vanishes on its way to the table (DInv).          *)
(*                                                                         *)
(* A detail could vanish when it is spliced off twice, or when its         *)
(* request's placeholder is written after its answer.  So DInv says that   *)
(* only a flush in progress has spliced anything off, and that the details *)
(* of a request are in the order of its saves along the table, the batch   *)
(* that is being written and the buffer.                                   *)
(***************************************************************************)
EXTENDS RequestDetails, WellFoundedInduction, TLAPS

(* The timers, whose values decide whether they are set. *)
TimersOK ==
  /\ flushIn \in Off..FlushInterval
  /\ saveIn \in Off..SaveDelay

IInv == TimersOK /\ BufferHasAWriter /\ DirtyTracksTheFile

(* The order of the saves of one request. *)
NotLater(x, y) == x.id = y.id => x.stage <= y.stage
InOrder(s) == \A i, j \in DOMAIN s : i <= j => NotLater(s[i], s[j])
Precede(s, t) == \A x \in ToSet(s), y \in ToSet(t) : NotLater(x, y)

(* Only what a request has saved is anywhere. *)
Known(s) == \A x \in ToSet(s) : x.stage <= stage[x.id]

OrderInv ==
  /\ ~isFlushing => draining = <<>>
  /\ InOrder(draining) /\ InOrder(buffer)
  /\ Precede(draining, buffer) /\ Precede(mem.details, draining) /\ Precede(mem.details, buffer)
  /\ Known(draining) /\ Known(buffer) /\ Known(mem.details) /\ Known(disk.details)

(* What ended with the process has been accounted for, so that a restart   *)
(* finds the rest in the file. *)
Held(rows, d) == \E x \in ToSet(rows) : x.id = d.id /\ x.stage >= d.stage
LossInv == ~Running => \A d \in Detail : Saved(d) => Held(disk.details, d) \/ d \in excused
HeldInv == Running => \A d \in Detail : Saved(d) => Waiting(d) \/ Held(mem.details, d) \/ d \in excused

TablesOK == mem \in Tables /\ disk \in Tables /\ Len(mem.details) <= MaxRecords /\ Len(disk.details) <= MaxRecords

DInv == TypeOK /\ TablesOK /\ OrderInv /\ LossInv /\ HeldInv

-----------------------------------------------------------------------------
LEMMA InitIInv == Init => IInv
  BY DetailsAssumption DEF Init, IInv, TimersOK, BufferHasAWriter, DirtyTracksTheFile, Off

(* A commit is in the file, or has a save scheduled. *)
LEMMA CommitTracks ==
  ASSUME IInv, NEW tables, Commit(tables), Running, process' = process, UNCHANGED failed
  PROVE  saveIn' \in Off..SaveDelay /\ DirtyTracksTheFile'
  BY DetailsAssumption DEF IInv, TimersOK, Commit, DirtyTracksTheFile, Running, Off

(* A save that is due writes the file, or fails and says so. *)
LEMMA PersistTracks ==
  ASSUME IInv, IF dirty THEN Persist ELSE UNCHANGED <<disk, dirty, failed>>,
         UNCHANGED mem, Running, saveIn' \in {Off, saveIn}
  PROVE  saveIn' \in Off..SaveDelay /\ DirtyTracksTheFile' /\ ("batch" \in failed' <=> "batch" \in failed)
  BY DetailsAssumption DEF IInv, TimersOK, Persist, DirtyTracksTheFile, Running, Off

LEMMA StartFlushHasAWriter ==
  ASSUME NEW waiting, StartFlush(waiting)
  PROVE  buffer' # <<>> => isFlushing'
  BY DEF StartFlush

LEMMA PushHasAWriter ==
  ASSUME IInv, NEW d, Push(d)
  PROVE  flushIn' \in Off..FlushInterval /\ (flushIn' # Off \/ isFlushing' \/ buffer' = <<>>)
<1>1. CASE Len(Append(buffer, d)) >= BatchSize
  BY <1>1, StartFlushHasAWriter, DetailsAssumption DEF Push, Off
<1>2. CASE ~(Len(Append(buffer, d)) >= BatchSize)
  BY <1>2, DetailsAssumption DEF Push, IInv, TimersOK, Off
<1>3. QED
  BY <1>1, <1>2

-----------------------------------------------------------------------------
LEMMA SaveKeeps == ASSUME IInv, NEW r \in Requests, SaveRequestDetail(r) PROVE IInv'
<1>1. PICK d : Push(d)
  BY DEF SaveRequestDetail
<1>2. BufferHasAWriter' /\ flushIn' \in Off..FlushInterval
  BY <1>1, PushHasAWriter DEF BufferHasAWriter
<1>3. saveIn' \in Off..SaveDelay /\ DirtyTracksTheFile'
  BY DEF SaveRequestDetail, store, IInv, TimersOK, DirtyTracksTheFile, Running
<1>4. QED
  BY <1>2, <1>3 DEF IInv, TimersOK

LEMMA FlushTimerKeeps == ASSUME IInv, FlushTimerFires PROVE IInv'
<1>1. BufferHasAWriter' /\ flushIn' \in Off..FlushInterval
  BY StartFlushHasAWriter, DetailsAssumption DEF FlushTimerFires, BufferHasAWriter, Off
<1>2. saveIn' \in Off..SaveDelay /\ DirtyTracksTheFile'
  BY DEF FlushTimerFires, store, IInv, TimersOK, DirtyTracksTheFile, Running
<1>3. QED
  BY <1>1, <1>2 DEF IInv, TimersOK

LEMMA WriteBatchKeeps == ASSUME IInv, WriteBatch PROVE IInv'
<1>1. BufferHasAWriter' /\ flushIn' \in Off..FlushInterval
  BY DEF WriteBatch, NextBatch, BufferHasAWriter, IInv, TimersOK
<1>2. \E tables : Commit(tables)
  BY DEF WriteBatch
<1>3. saveIn' \in Off..SaveDelay /\ DirtyTracksTheFile'
  BY <1>2, CommitTracks DEF WriteBatch
<1>4. QED
  BY <1>1, <1>3 DEF IInv, TimersOK

LEMMA BatchFailsKeeps == ASSUME IInv, BatchFails PROVE IInv'
<1>1. BufferHasAWriter' /\ flushIn' \in Off..FlushInterval
  BY DEF BatchFails, BufferHasAWriter, IInv, TimersOK
<1>2. saveIn' \in Off..SaveDelay /\ DirtyTracksTheFile'
  BY DetailsAssumption DEF BatchFails, RolledBack, IInv, TimersOK, DirtyTracksTheFile, Running, Off
<1>3. QED
  BY <1>1, <1>2 DEF IInv, TimersOK

LEMMA SaveTimerKeeps == ASSUME IInv, SaveTimerFires PROVE IInv'
<1>1. saveIn' \in Off..SaveDelay /\ DirtyTracksTheFile' /\ ("batch" \in failed' <=> "batch" \in failed)
  BY PersistTracks DEF SaveTimerFires
<1>2. BufferHasAWriter' /\ flushIn' \in Off..FlushInterval
  BY <1>1 DEF SaveTimerFires, queue, BufferHasAWriter, IInv, TimersOK, Running
<1>3. QED
  BY <1>1, <1>2 DEF IInv, TimersOK

LEMMA OtherWriteKeeps == ASSUME IInv, OtherWrite PROVE IInv'
<1>1. \E tables : Commit(tables)
  BY DEF OtherWrite
<1>2. saveIn' \in Off..SaveDelay /\ DirtyTracksTheFile'
  BY <1>1, CommitTracks DEF OtherWrite, Running
<1>3. BufferHasAWriter' /\ flushIn' \in Off..FlushInterval
  BY DEF OtherWrite, queue, BufferHasAWriter, IInv, TimersOK, Running
<1>4. QED
  BY <1>2, <1>3 DEF IInv, TimersOK

(* A process that has ended has no writers and needs none. *)
LEMMA DiesKeeps ==
  ASSUME IInv, NEW how \in {"exited", "crashed"}, Dies(how)
  PROVE  IInv'
  BY DEF Dies, IInv, TimersOK, BufferHasAWriter, DirtyTracksTheFile, Running, queue, store

LEMMA SignalSqlJsKeeps == ASSUME IInv, SignalSqlJs PROVE IInv'
<1>1. saveIn' \in Off..SaveDelay /\ DirtyTracksTheFile'
  BY PersistTracks DEF SignalSqlJs, Running
<1>2. BufferHasAWriter' /\ flushIn' \in Off..FlushInterval
  BY StartFlushHasAWriter, DetailsAssumption DEF SignalSqlJs, BufferHasAWriter, Off
<1>3. QED
  BY <1>1, <1>2 DEF IInv, TimersOK

LEMMA RestartKeeps == ASSUME IInv, Restart PROVE IInv'
  BY DetailsAssumption DEF Restart, IInv, TimersOK, BufferHasAWriter, DirtyTracksTheFile, Off

LEMMA TickKeeps == ASSUME IInv, Tick PROVE IInv'
<1>1. /\ flushIn' \in Off..FlushInterval /\ (flushIn # Off => flushIn' # Off)
      /\ saveIn' \in Off..SaveDelay /\ (saveIn # Off => saveIn' # Off)
  BY DetailsAssumption DEF Tick, Down, IInv, TimersOK, Off
<1>2. QED
  BY <1>1 DEF Tick, IInv, TimersOK, BufferHasAWriter, DirtyTracksTheFile, Running

LEMMA OthersKeep ==
  ASSUME IInv, (\E r \in Requests : Connect(r) \/ Close(r)) \/ UNCHANGED vars
  PROVE  IInv'
<1>1. UNCHANGED <<process, queue, store, failed>>
  BY DEF Connect, Close, vars
<1>2. QED
  BY <1>1 DEF queue, store, IInv, TimersOK, BufferHasAWriter, DirtyTracksTheFile, Running

LEMMA NextKeeps == IInv /\ [Next]_vars => IInv'
<1> SUFFICES ASSUME IInv, [Next]_vars PROVE IInv'
  OBVIOUS
<1>1. ASSUME Crash \/ SignalNative \/ Exit PROVE IInv'
  BY <1>1, DiesKeeps DEF Crash, SignalNative, Exit
<1>2. QED
  BY <1>1, SaveKeeps, FlushTimerKeeps, WriteBatchKeeps, BatchFailsKeeps, SaveTimerKeeps, OtherWriteKeeps,
     SignalSqlJsKeeps, RestartKeeps, TickKeeps, OthersKeep DEF Next

-----------------------------------------------------------------------------
(* Sequences and their elements *)

LEMMA NatMin ==
  ASSUME NEW T, T \subseteq Nat, T # {}
  PROVE  \E x \in T : \A y \in T : x <= y
<1> DEFINE less == OpToRel(<, Nat)
<1>1. PICK x \in T : \A y \in T : <<y, x>> \notin less
  BY NatLessThanWellFounded, WFMin
<1>2. \A y \in T : ~(y < x)
  BY <1>1 DEF OpToRel
<1>3. QED
  BY <1>2

LEMMA InToSet ==
  ASSUME NEW T, NEW s \in Seq(T)
  PROVE  /\ Len(s) \in Nat /\ DOMAIN s = 1..Len(s) /\ \A i \in 1..Len(s) : s[i] \in T
         /\ \A x : x \in ToSet(s) <=> \E i \in 1..Len(s) : x = s[i]
         /\ ToSet(s) \subseteq T
BY DEF ToSet

LEMMA AppendedElements ==
  ASSUME NEW T, NEW s \in Seq(T), NEW e \in T
  PROVE  Append(s, e) \in Seq(T) /\ Len(Append(s, e)) = Len(s) + 1 /\ ToSet(Append(s, e)) = ToSet(s) \cup {e}
<1> DEFINE t == Append(s, e)
<1>1. /\ t \in Seq(T) /\ Len(t) = Len(s) + 1 /\ t[Len(s) + 1] = e
      /\ \A i \in 1..Len(s) : t[i] = s[i]
  OBVIOUS
<1> HIDE DEF t
<1>2. /\ Len(s) \in Nat
      /\ \A x : x \in ToSet(s) <=> \E i \in 1..Len(s) : x = s[i]
      /\ \A x : x \in ToSet(t) <=> \E i \in 1..Len(t) : x = t[i]
  BY <1>1, InToSet
<1>3. \A i : i \in 1..Len(t) <=> (i \in 1..Len(s) \/ i = Len(s) + 1)
  BY <1>1, <1>2
<1>4. ToSet(t) = ToSet(s) \cup {e}
  BY <1>1, <1>2, <1>3
<1>5. QED
  BY <1>1, <1>4 DEF t

LEMMA RemovedElements ==
  ASSUME NEW T, NEW s \in Seq(T), NEW k \in 1..Len(s)
  PROVE  /\ RemoveAt(s, k) \in Seq(T)
         /\ ToSet(RemoveAt(s, k)) \subseteq ToSet(s)
         /\ \A x \in ToSet(s) : x = s[k] \/ x \in ToSet(RemoveAt(s, k))
<1> DEFINE front == SubSeq(s, 1, k - 1)
           back == SubSeq(s, k + 1, Len(s))
           t == front \o back
<1>1. Len(s) \in Nat /\ k \in Nat
  OBVIOUS
<1>2. front \in Seq(T) /\ Len(front) = k - 1 /\ \A i \in 1..k - 1 : front[i] = s[i]
  BY <1>1
<1>3. back \in Seq(T) /\ Len(back) = Len(s) - k /\ \A i \in 1..Len(s) - k : back[i] = s[i + k]
  BY <1>1
<1> HIDE DEF front, back
<1>4. /\ t \in Seq(T) /\ Len(t) = Len(s) - 1
      /\ \A i \in 1..k - 1 : t[i] = front[i]
      /\ \A i \in 1..Len(s) - k : t[(k - 1) + i] = back[i]
  BY <1>1, <1>2, <1>3
<1>5. t = RemoveAt(s, k)
  BY DEF RemoveAt, front, back
<1> HIDE DEF t
<1>6. /\ \A x : x \in ToSet(s) <=> \E i \in 1..Len(s) : x = s[i]
      /\ \A x : x \in ToSet(t) <=> \E i \in 1..Len(t) : x = t[i]
  BY <1>4, InToSet
<1>7. \A i \in 1..Len(t) : \/ i \in 1..k - 1 /\ i \in 1..Len(s)
                           \/ /\ i - (k - 1) \in 1..Len(s) - k /\ i = (k - 1) + (i - (k - 1))
                              /\ (i - (k - 1)) + k \in 1..Len(s)
  BY <1>1, <1>4
<1>8. \A i \in 1..Len(s) : \/ i = k
                           \/ i \in 1..k - 1 /\ i \in 1..Len(t)
                           \/ i - k \in 1..Len(s) - k /\ i = (i - k) + k /\ (k - 1) + (i - k) \in 1..Len(t)
  BY <1>1, <1>4
<1>9. \A i \in 1..Len(t) : \E j \in 1..Len(s) : t[i] = s[j]
  BY <1>2, <1>3, <1>4, <1>7
<1>10. \A i \in 1..Len(s) : i = k \/ \E j \in 1..Len(t) : s[i] = t[j]
  BY <1>2, <1>3, <1>4, <1>8
<1>11. ToSet(t) \subseteq ToSet(s)
  BY <1>6, <1>9
<1>12. \A x \in ToSet(s) : x = s[k] \/ x \in ToSet(t)
  BY <1>6, <1>10
<1>13. QED
  BY <1>4, <1>5, <1>11, <1>12

LEMMA TailElements ==
  ASSUME NEW T, NEW s \in Seq(T), NEW k \in 0..Len(s)
  PROVE  /\ SubSeq(s, k + 1, Len(s)) \in Seq(T) /\ Len(SubSeq(s, k + 1, Len(s))) = Len(s) - k
         /\ ToSet(SubSeq(s, k + 1, Len(s))) \subseteq ToSet(s)
         /\ \A i \in 1..Len(s) : i <= k \/ s[i] \in ToSet(SubSeq(s, k + 1, Len(s)))
<1> DEFINE t == SubSeq(s, k + 1, Len(s))
<1>1. Len(s) \in Nat /\ k \in Nat
  OBVIOUS
<1>2. t \in Seq(T) /\ Len(t) = Len(s) - k /\ \A i \in 1..Len(s) - k : t[i] = s[i + k]
  BY <1>1
<1> HIDE DEF t
<1>3. /\ \A x : x \in ToSet(s) <=> \E i \in 1..Len(s) : x = s[i]
      /\ \A x : x \in ToSet(t) <=> \E i \in 1..Len(t) : x = t[i]
  BY <1>2, InToSet
<1>4. \A i \in 1..Len(s) - k : i + k \in 1..Len(s)
  BY <1>1
<1>5. ToSet(t) \subseteq ToSet(s)
  BY <1>2, <1>3, <1>4
<1>6. \A i \in 1..Len(s) : i <= k \/ (i - k \in 1..Len(s) - k /\ i = (i - k) + k)
  BY <1>1
<1>7. \A i \in 1..Len(s) : i <= k \/ s[i] \in ToSet(t)
  BY <1>2, <1>3, <1>6
<1>8. QED
  BY <1>2, <1>5, <1>7 DEF t

-----------------------------------------------------------------------------
(* What a batch leaves in the table *)

LEMMA DetailFields ==
  ASSUME NEW d \in Detail
  PROVE  d.id \in Requests /\ d.stage \in Int
BY DEF Detail

LEMMA UpsertFacts ==
  ASSUME NEW rows \in Seq(Detail), NEW d \in Detail, \A x \in ToSet(rows) : NotLater(x, d)
  PROVE  /\ Upsert(rows, d) \in Seq(Detail)
         /\ ToSet(Upsert(rows, d)) \subseteq ToSet(rows) \cup {d}
         /\ \A e \in Detail : Held(rows, e) \/ e = d => Held(Upsert(rows, d), e)
<1> DEFINE old == {i \in DOMAIN rows : rows[i].id = d.id}
           kept == IF old = {} THEN rows ELSE RemoveAt(rows, CHOOSE i \in old : TRUE)
<1>1. Upsert(rows, d) = Append(kept, d)
  BY DEF Upsert
<1>2. /\ kept \in Seq(Detail) /\ ToSet(kept) \subseteq ToSet(rows)
      /\ \A x \in ToSet(rows) : x \in ToSet(kept) \/ x.id = d.id
  <2>1. CASE old = {}
    BY <2>1
  <2>2. CASE old # {}
    <3>1. PICK k \in old : kept = RemoveAt(rows, k)
      BY <2>2
    <3>2. k \in 1..Len(rows) /\ rows[k].id = d.id
      BY InToSet
    <3> HIDE DEF kept, old
    <3>3. QED
      BY <3>1, <3>2, RemovedElements
  <2>3. QED
    BY <2>1, <2>2
<1> HIDE DEF kept
<1>3. Append(kept, d) \in Seq(Detail) /\ ToSet(Append(kept, d)) = ToSet(kept) \cup {d}
  BY <1>2, AppendedElements
<1>4. ASSUME NEW e \in Detail, Held(rows, e) PROVE Held(Append(kept, d), e)
  <2>1. PICK x \in ToSet(rows) : x.id = e.id /\ x.stage >= e.stage
    BY <1>4 DEF Held
  <2>2. CASE x \in ToSet(kept)
    BY <1>3, <2>1, <2>2 DEF Held
  <2>3. CASE x.id = d.id
    <3>1. x \in Detail /\ x.stage <= d.stage
      BY <2>3, InToSet DEF NotLater
    <3>2. d.stage >= e.stage /\ d.id = e.id
      BY <2>1, <2>3, <3>1, DetailFields
    <3>3. QED
      BY <1>3, <3>2 DEF Held
  <2>4. QED
    BY <1>2, <2>2, <2>3
<1>5. Held(Append(kept, d), d)
  BY <1>3, DetailFields DEF Held
<1>6. QED
  BY <1>1, <1>2, <1>3, <1>4, <1>5

(* Each statement of a batch keeps what the earlier ones have written.     *)
LEMMA WrittenFacts ==
  ASSUME NEW rows \in Seq(Detail), NEW batch \in Seq(Detail), Precede(rows, batch), InOrder(batch)
  PROVE  /\ Written(rows, batch) \in Seq(Detail)
         /\ ToSet(Written(rows, batch)) \subseteq ToSet(rows) \cup ToSet(batch)
         /\ \A e \in Detail : Held(rows, e) \/ e \in ToSet(batch) => Held(Written(rows, batch), e)
<1> DEFINE Grown(f, i) == IF i = 0 THEN rows ELSE Upsert(f[i - 1], batch[i])
           Defined(n) == \E f : f = [i \in 0..n |-> Grown(f, i)]
           Upto(i) == {batch[j] : j \in 1..i}
           Claim(t, i) == /\ t \in Seq(Detail) /\ ToSet(t) \subseteq ToSet(rows) \cup Upto(i)
                          /\ \A e \in Detail : Held(rows, e) \/ e \in Upto(i) => Held(t, e)
<1>1. /\ Len(batch) \in Nat /\ DOMAIN batch = 1..Len(batch) /\ \A i \in 1..Len(batch) : batch[i] \in Detail
      /\ \A x : x \in ToSet(batch) <=> \E i \in 1..Len(batch) : x = batch[i]
  BY InToSet
<1>2. \A n \in Nat : Defined(n)
  <2> SUFFICES ASSUME \E n \in Nat : ~Defined(n) PROVE FALSE
    OBVIOUS
  <2> DEFINE holes == {n \in Nat : ~Defined(n)}
  <2>1. PICK n \in holes : \A k \in holes : n <= k
    <3>1. holes \subseteq Nat /\ holes # {}
      OBVIOUS
    <3> HIDE DEF holes
    <3>2. QED
      BY <3>1, NatMin
  <2>2. n # 0
    <3> DEFINE f == [i \in 0..0 |-> rows]
    <3>1. f = [i \in 0..0 |-> Grown(f, i)]
      OBVIOUS
    <3>2. Defined(0)
      BY <3>1
    <3>3. QED
      BY <3>2
  <2>3. n \in Nat /\ n - 1 \in Nat /\ Defined(n - 1)
    <3> HIDE DEF Defined
    <3>1. n \in Nat /\ n - 1 \in Nat /\ ~(n <= n - 1)
      BY <2>1, <2>2
    <3>2. QED
      BY <2>1, <3>1
  <2>4. PICK f : f = [i \in 0..n - 1 |-> Grown(f, i)]
    BY <2>3
  <2> DEFINE g == [i \in 0..n |-> IF i = n THEN Grown(f, n) ELSE f[i]]
  <2>5. ASSUME NEW i \in 0..n PROVE g[i] = Grown(g, i)
    <3>1. CASE i = 0
      BY <2>2, <2>3, <2>4, <3>1
    <3>2. CASE i # 0
      <4>1. i - 1 \in 0..n - 1 /\ i - 1 # n /\ i - 1 \in 0..n
        BY <2>3, <3>2
      <4>2. g[i - 1] = f[i - 1]
        BY <4>1
      <4>3. CASE i = n
        BY <3>2, <4>2, <4>3
      <4>4. CASE i # n
        <5>1. i \in 0..n - 1
          BY <2>3, <4>4
        <5>2. g[i] = f[i] /\ f[i] = Grown(f, i)
          BY <2>4, <4>4, <5>1
        <5>3. QED
          BY <3>2, <4>2, <5>2
      <4>5. QED
        BY <4>3, <4>4
    <3>3. QED
      BY <3>1, <3>2
  <2>6. g = [i \in 0..n |-> Grown(g, i)]
    <3>1. g = [i \in 0..n |-> g[i]]
      OBVIOUS
    <3> HIDE DEF g
    <3>2. QED
      BY <2>5, <3>1
  <2>7. Defined(n)
    <3> HIDE DEF g
    <3>1. QED
      BY <2>6
  <2>8. QED
    BY <2>7
<1>3. PICK f : f = [i \in 0..Len(batch) |-> Grown(f, i)] /\ Written(rows, batch) = f[Len(batch)]
  BY <1>1, <1>2 DEF Written
<1>4. Claim(f[0], 0)
  <2>1. f[0] = rows /\ Upto(0) = {}
    BY <1>1, <1>3
  <2>2. QED
    BY <2>1
<1>5. ASSUME NEW i \in 1..Len(batch), Claim(f[i - 1], i - 1) PROVE Claim(f[i], i)
  <2>1. i \in 0..Len(batch) /\ i # 0 /\ i \in Nat
    BY <1>1
  <2>2. f[i] = Upsert(f[i - 1], batch[i])
    BY <1>3, <2>1
  <2>3. Upto(i) = Upto(i - 1) \cup {batch[i]}
    <3>1. 1..i = (1..i - 1) \cup {i}
      BY <2>1
    <3>2. QED
      BY <3>1
  <2>4. \A x \in ToSet(f[i - 1]) : NotLater(x, batch[i])
    <3> TAKE x \in ToSet(f[i - 1])
    <3>1. CASE x \in ToSet(rows)
      BY <1>1, <3>1 DEF Precede
    <3>2. CASE x \in Upto(i - 1)
      <4>1. PICK j \in 1..i - 1 : x = batch[j]
        BY <3>2
      <4>2. j \in DOMAIN batch /\ i \in DOMAIN batch /\ j <= i
        BY <1>1, <2>1
      <4>3. QED
        BY <4>1, <4>2 DEF InOrder
    <3>3. QED
      BY <1>5, <3>1, <3>2
  <2>5. batch[i] \in Detail /\ f[i - 1] \in Seq(Detail)
    BY <1>1, <1>5
  <2>6. /\ Upsert(f[i - 1], batch[i]) \in Seq(Detail)
        /\ ToSet(Upsert(f[i - 1], batch[i])) \subseteq ToSet(f[i - 1]) \cup {batch[i]}
        /\ \A e \in Detail : Held(f[i - 1], e) \/ e = batch[i] => Held(Upsert(f[i - 1], batch[i]), e)
    BY <2>4, <2>5, UpsertFacts
  <2> HIDE DEF Upto
  <2>7. QED
    BY <1>5, <2>2, <2>3, <2>6
<1>6. Claim(f[Len(batch)], Len(batch))
  <2> DEFINE wrong == {i \in 0..Len(batch) : ~Claim(f[i], i)}
  <2>1. ASSUME wrong # {} PROVE FALSE
    <3>1. wrong \subseteq Nat
      OBVIOUS
    <3>2. PICK i \in wrong : \A k \in wrong : i <= k
      <4> HIDE DEF wrong
      <4>1. QED
        BY <2>1, <3>1, NatMin
    <3> HIDE DEF Claim
    <3>3. i # 0 /\ i \in 1..Len(batch) /\ i - 1 \in 0..Len(batch) /\ ~(i <= i - 1)
      BY <1>1, <1>4, <3>2
    <3>4. Claim(f[i - 1], i - 1)
      BY <3>2, <3>3
    <3>5. Claim(f[i], i)
      BY <1>5, <3>3, <3>4
    <3>6. QED
      BY <3>2, <3>5
  <2> HIDE DEF Claim
  <2>2. QED
    BY <1>1, <2>1
<1>7. Upto(Len(batch)) = ToSet(batch)
  BY <1>1
<1>8. QED
  <2> DEFINE t == f[Len(batch)]
  <2>1. Claim(t, Len(batch)) /\ t = Written(rows, batch)
    BY <1>3, <1>6
  <2> HIDE DEF t, Upto
  <2>2. QED
    BY <1>7, <2>1

(* What trimming takes is excused. *)
LEMMA RetainedFacts ==
  ASSUME NEW rows \in Seq(Detail)
  PROVE  /\ Retained(rows) \in Seq(Detail) /\ Len(Retained(rows)) <= MaxRecords
         /\ ToSet(Retained(rows)) \subseteq ToSet(rows)
         /\ \A e \in Detail : Held(rows, e) => Held(Retained(rows), e) \/ e \in Trimmed(rows)
<1> DEFINE n == Len(rows)
<1>1. /\ n \in Nat /\ \A x : x \in ToSet(rows) <=> \E i \in 1..n : x = rows[i]
  BY InToSet
<1>2. MaxRecords \in Nat /\ MaxRecords >= 1
  BY DetailsAssumption
<1>3. CASE n > MaxRecords
  <2>1. n - MaxRecords \in 0..n
    BY <1>1, <1>2, <1>3
  <2>2. Retained(rows) = SubSeq(rows, (n - MaxRecords) + 1, n)
    BY <1>3 DEF Retained
  <2>3. /\ Retained(rows) \in Seq(Detail) /\ Len(Retained(rows)) = n - (n - MaxRecords)
        /\ ToSet(Retained(rows)) \subseteq ToSet(rows)
        /\ \A i \in 1..n : i <= n - MaxRecords \/ rows[i] \in ToSet(Retained(rows))
    BY <2>1, <2>2, TailElements
  <2> HIDE DEF n
  <2>4. n - (n - MaxRecords) = MaxRecords
    BY <1>1, <1>2
  <2>5. ASSUME NEW e \in Detail, Held(rows, e) PROVE Held(Retained(rows), e) \/ e \in Trimmed(rows)
    <3>1. PICK i \in 1..n : rows[i].id = e.id /\ rows[i].stage >= e.stage
      BY <1>1, <2>5 DEF Held
    <3>2. CASE rows[i] \in ToSet(Retained(rows))
      BY <3>1, <3>2 DEF Held
    <3>3. CASE i <= n - MaxRecords
      <4>1. i \in 1..n - Len(Retained(rows))
        BY <1>1, <1>2, <2>3, <2>4, <3>3
      <4>2. rows[i] \in Detail
        BY InToSet DEF n
      <4>3. e.stage <= rows[i].stage
        BY <3>1, <4>2, DetailFields
      <4>4. QED
        BY <3>1, <4>1, <4>3 DEF Trimmed, n
    <3>4. QED
      BY <2>3, <3>2, <3>3
  <2>6. QED
    BY <1>2, <2>3, <2>4, <2>5
<1>4. CASE ~(n > MaxRecords)
  <2>1. Retained(rows) = rows
    BY <1>4 DEF Retained
  <2>2. QED
    BY <1>1, <1>2, <1>4, <2>1
<1>5. QED
  BY <1>3, <1>4

-----------------------------------------------------------------------------
(* The types *)

LEMMA CommitTypes ==
  ASSUME TypeOK, NEW tables \in Tables, Commit(tables)
  PROVE  mem' = tables /\ disk' \in {disk, tables} /\ dirty' \in BOOLEAN /\ saveIn' \in Off..SaveDelay
<1>1. SaveDelay \in Off..SaveDelay
  BY DetailsAssumption DEF Off
<1>2. dirty \in BOOLEAN /\ saveIn \in Off..SaveDelay
  BY DEF TypeOK
<1>3. CASE driver = "native"
  BY <1>2, <1>3 DEF Commit
<1>4. CASE driver # "native"
  BY <1>1, <1>4 DEF Commit
<1>5. QED
  BY <1>3, <1>4

LEMMA PersistTypes ==
  ASSUME TypeOK, IF dirty THEN Persist ELSE UNCHANGED <<disk, dirty, failed>>
  PROVE  disk' \in {disk, mem} /\ dirty' \in BOOLEAN /\ failed' \subseteq {"batch", "file"}
BY DEF Persist, TypeOK

(* A flush takes all that waits, or leaves it to the one in progress. *)
LEMMA StartFlushFacts ==
  ASSUME DInv, NEW waiting \in Seq(Detail), InOrder(waiting), Precede(draining, waiting),
         StartFlush(waiting)
  PROVE  /\ buffer' \in Seq(Detail) /\ draining' \in Seq(Detail) /\ isFlushing' \in BOOLEAN
         /\ ~isFlushing' => draining' = <<>>
         /\ InOrder(draining') /\ InOrder(buffer') /\ Precede(draining', buffer')
         /\ ToSet(buffer') \cup ToSet(draining') = ToSet(waiting) \cup ToSet(draining)
<1>1. TypeOK /\ InOrder(draining) /\ (~isFlushing => draining = <<>>)
  BY DEF DInv, OrderInv
<1>2. ToSet(<<>>) = {} /\ <<>> \in Seq(Detail) /\ InOrder(<<>>)
  BY DEF ToSet, InOrder
<1>3. CASE buffer' = waiting /\ UNCHANGED <<draining, isFlushing>>
  BY <1>1, <1>3 DEF TypeOK
<1>4. CASE ~isFlushing /\ buffer' = <<>> /\ draining' = waiting /\ isFlushing' = TRUE
  BY <1>1, <1>2, <1>4 DEF Precede
<1>5. QED
  BY <1>3, <1>4 DEF StartFlush

-----------------------------------------------------------------------------
(* DInv is inductive *)

LEMMA InitDInv == Init => DInv
<1> SUFFICES ASSUME Init PROVE DInv
  OBVIOUS
<1>1. ToSet(<<>>) = {} /\ <<>> \in Seq(Detail) /\ Len(<<>>) = 0 /\ DOMAIN <<>> = {}
  BY DEF ToSet
<1>2. TablesOK
  BY <1>1, DetailsAssumption DEF Init, TablesOK, Tables, NoRows
<1>3. TypeOK
  <2>1. Off \in Off..FlushInterval /\ Off \in Off..SaveDelay
    BY DetailsAssumption DEF Off
  <2>2. conn \in [Requests -> {"none", "open", "closed"}] /\ stage \in [Requests -> 0..2]
    BY DEF Init
  <2>3. flushIn \in Off..FlushInterval /\ saveIn \in Off..SaveDelay
    BY <2>1 DEF Init
  <2>4. QED
    BY <1>1, <1>2, <2>2, <2>3 DEF Init, TypeOK, TablesOK
<1>4. OrderInv
  <2>1. mem.details = <<>> /\ disk.details = <<>>
    BY DEF Init, NoRows
  <2>2. QED
    BY <1>1, <2>1 DEF Init, OrderInv, InOrder, Precede, Known
<1>5. \A d \in Detail : ~Saved(d)
  BY DEF Init, Saved, Detail
<1>6. QED
  BY <1>2, <1>3, <1>4, <1>5 DEF DInv, LossInv, HeldInv

LEMMA TablesFields ==
  ASSUME NEW tables \in Tables
  PROVE  tables.details \in Seq(Detail) /\ tables.other \in 0..MaxOther
BY DEF Tables

(* Steps that leave the tables and what waits for them as they are. *)
LEMMA QuietKeepsD ==
  ASSUME DInv, UNCHANGED <<process, stage, buffer, draining, isFlushing, mem, excused>>,
         disk' = disk \/ (Running /\ disk' = mem), TypeOK'
  PROVE  DInv'
<1>1. TablesOK'
  BY DEF DInv, TablesOK
<1>2. OrderInv'
  BY DEF DInv, OrderInv, Known
<1>3. HeldInv'
  BY DEF DInv, HeldInv, Running, Saved, Waiting
<1>4. CASE Running
  BY <1>1, <1>2, <1>3, <1>4 DEF DInv, LossInv, Running
<1>5. CASE ~Running /\ disk' = disk
  BY <1>1, <1>2, <1>3, <1>5 DEF DInv, LossInv, Running, Saved
<1>6. QED
  BY <1>4, <1>5

LEMMA SaveKeepsD == ASSUME DInv, NEW r \in Requests, SaveRequestDetail(r) PROVE DInv'
<1> DEFINE d == [id |-> r, stage |-> stage[r] + 1]
           waiting == Append(buffer, d)
<1>1. /\ TypeOK /\ TablesOK /\ OrderInv /\ HeldInv
      /\ stage[r] \in 0..2 /\ stage[r] < 2 /\ Running
  BY DEF DInv, SaveRequestDetail, TypeOK
<1>2. d \in Detail /\ d.id = r /\ d.stage = stage[r] + 1 /\ d.stage \in 1..2
  BY <1>1 DEF Detail
<1>3. /\ stage' = [stage EXCEPT ![r] = @ + 1] /\ Push(d) /\ failed' = failed \ {"batch"}
      /\ driver' = driver /\ process' = process /\ conn' = conn /\ excused' = excused
      /\ mem' = mem /\ disk' = disk /\ dirty' = dirty /\ saveIn' = saveIn
  BY DEF SaveRequestDetail, store
<1> HIDE DEF d
<1>4. buffer \in Seq(Detail) /\ draining \in Seq(Detail) /\ mem.details \in Seq(Detail) /\ disk.details \in Seq(Detail)
  BY <1>1, TablesFields DEF TypeOK, TablesOK
<1>5. waiting \in Seq(Detail) /\ Len(waiting) = Len(buffer) + 1 /\ ToSet(waiting) = ToSet(buffer) \cup {d}
  BY <1>2, <1>4, AppendedElements
<1>6. ASSUME NEW s \in Seq(Detail), Known(s), NEW x \in ToSet(s) PROVE NotLater(x, d)
  <2>1. x \in Detail /\ x.stage <= stage[x.id]
    BY <1>6, InToSet DEF Known
  <2>2. x.stage \in Int
    BY <2>1, DetailFields
  <2>3. QED
    BY <1>1, <1>2, <2>1, <2>2 DEF NotLater
<1>7. InOrder(waiting)
  <2> SUFFICES ASSUME NEW i \in DOMAIN waiting, NEW j \in DOMAIN waiting, i <= j
               PROVE  NotLater(waiting[i], waiting[j])
    BY DEF InOrder
  <2>1. /\ DOMAIN waiting = 1..Len(waiting) /\ DOMAIN buffer = 1..Len(buffer) /\ Len(buffer) \in Nat
        /\ waiting[Len(buffer) + 1] = d /\ \A k \in 1..Len(buffer) : waiting[k] = buffer[k]
        /\ \A k \in 1..Len(buffer) : buffer[k] \in ToSet(buffer)
    <3>1. DOMAIN waiting = 1..Len(waiting)
      BY <1>5, InToSet
    <3>2. waiting[Len(buffer) + 1] = d /\ \A k \in 1..Len(buffer) : waiting[k] = buffer[k]
      BY <1>2, <1>4
    <3>3. /\ DOMAIN buffer = 1..Len(buffer) /\ Len(buffer) \in Nat
          /\ \A k \in 1..Len(buffer) : buffer[k] \in ToSet(buffer)
      BY <1>4, InToSet
    <3>4. QED
      BY <3>1, <3>2, <3>3
  <2> HIDE DEF waiting
  <2>2. CASE j \in 1..Len(buffer)
    <3>1. i \in 1..Len(buffer)
      BY <2>1, <2>2
    <3>2. QED
      BY <1>1, <2>1, <2>2, <3>1 DEF OrderInv, InOrder
  <2>3. CASE j = Len(buffer) + 1
    <3>1. CASE i = j
      BY <1>2, <2>1, <2>3, <3>1 DEF NotLater
    <3>2. CASE i # j
      <4>1. i \in 1..Len(buffer)
        BY <1>5, <2>1, <2>3, <3>2
      <4>2. QED
        BY <1>1, <1>4, <1>6, <2>1, <2>3, <4>1 DEF OrderInv
    <3>3. QED
      BY <3>1, <3>2
  <2>4. QED
    BY <1>5, <2>1, <2>2, <2>3
<1>8. Precede(draining, waiting) /\ Precede(mem.details, waiting)
  BY <1>1, <1>4, <1>5, <1>6 DEF OrderInv, Precede
<1> HIDE DEF waiting
<1>9. /\ buffer' \in Seq(Detail) /\ draining' \in Seq(Detail) /\ isFlushing' \in BOOLEAN
      /\ ~isFlushing' => draining' = <<>>
      /\ InOrder(draining') /\ InOrder(buffer') /\ Precede(draining', buffer')
      /\ ToSet(buffer') \cup ToSet(draining') = ToSet(waiting) \cup ToSet(draining)
      /\ flushIn' \in Off..FlushInterval
  <2>1. CASE StartFlush(waiting) /\ flushIn' = Off
    <3>1. flushIn' \in Off..FlushInterval
      BY <2>1, DetailsAssumption DEF Off
    <3>2. QED
      BY <1>5, <1>7, <1>8, <2>1, <3>1, StartFlushFacts
  <2>2. CASE /\ buffer' = waiting /\ UNCHANGED <<draining, isFlushing>>
             /\ flushIn' = IF flushIn = Off THEN FlushInterval ELSE flushIn
    <3>1. flushIn' \in Off..FlushInterval
      BY <1>1, <2>2, DetailsAssumption DEF TypeOK, Off
    <3>2. QED
      BY <1>1, <1>4, <1>5, <1>7, <1>8, <2>2, <3>1 DEF TypeOK, OrderInv
  <2>3. QED
    BY <1>3, <2>1, <2>2 DEF Push, waiting
<1>10. stage' \in [Requests -> 0..2] /\ \A q \in Requests : stage[q] <= stage'[q] /\ (q # r => stage'[q] = stage[q])
  BY <1>1, <1>3, SMTT(30) DEF TypeOK
<1>11. TypeOK'
  BY <1>1, <1>3, <1>9, <1>10 DEF TypeOK
<1>12. ASSUME NEW s \in Seq(Detail), Known(s), NEW x \in ToSet(s) PROVE x.stage <= stage'[x.id]
  <2>1. x \in Detail /\ x.stage <= stage[x.id]
    BY <1>12, InToSet DEF Known
  <2>2. x.stage \in Int /\ x.id \in Requests
    BY <2>1, DetailFields
  <2>3. stage[x.id] \in Int /\ stage'[x.id] \in Int /\ stage[x.id] <= stage'[x.id]
    BY <1>1, <1>10, <2>2 DEF TypeOK
  <2>4. QED
    BY <2>1, <2>2, <2>3
<1>13. d.stage = stage'[d.id]
  BY <1>1, <1>2, <1>3 DEF TypeOK
<1>14. \A x \in ToSet(buffer') \cup ToSet(draining') : x.stage <= stage'[x.id]
  <2>1. \A x \in ToSet(buffer) \cup ToSet(draining) : x.stage <= stage'[x.id]
    BY <1>1, <1>4, <1>12 DEF OrderInv
  <2>2. d.stage <= stage'[d.id]
    BY <1>2, <1>13
  <2>3. QED
    BY <1>5, <1>9, <2>1, <2>2
<1>15. OrderInv'
  <2>1. Known(buffer)' /\ Known(draining)'
    BY <1>14 DEF Known
  <2>2. Known(mem.details)' /\ Known(disk.details)'
    BY <1>1, <1>3, <1>4, <1>12 DEF Known, OrderInv
  <2>3. Precede(mem.details, draining') /\ Precede(mem.details, buffer')
    <3>1. \A x \in ToSet(mem.details), y \in ToSet(waiting) \cup ToSet(draining) : NotLater(x, y)
      BY <1>1, <1>8 DEF OrderInv, Precede
    <3>2. QED
      BY <1>9, <3>1 DEF Precede
  <2>4. QED
    BY <1>3, <1>9, <2>1, <2>2, <2>3 DEF OrderInv
<1>16. HeldInv'
  <2> SUFFICES ASSUME NEW e \in Detail, Saved(e)'
               PROVE  Waiting(e)' \/ Held(mem.details, e) \/ e \in excused
    BY <1>3 DEF HeldInv
  <2>1. CASE Saved(e)
    <3>1. Waiting(e) \/ Held(mem.details, e) \/ e \in excused
      BY <1>1, <2>1 DEF HeldInv
    <3>2. Waiting(e) => Waiting(e)'
      BY <1>5, <1>9 DEF Waiting
    <3>3. QED
      BY <3>1, <3>2
  <2>2. CASE ~Saved(e)
    <3>1. e.id \in Requests /\ e.stage \in Int
      BY DetailFields
    <3>2. ~(e.stage <= stage[e.id]) /\ e.stage <= stage'[e.id]
      BY <2>2 DEF Saved
    <3>3. e.id = r
      BY <1>10, <3>1, <3>2
    <3>4. e.stage = stage[r] + 1
      <4>1. stage'[r] = stage[r] + 1
        BY <1>1, <1>3 DEF TypeOK
      <4>2. QED
        BY <1>1, <3>1, <3>2, <3>3, <4>1
    <3>5. e = d
      BY <1>2, <3>3, <3>4 DEF Detail
    <3>6. QED
      BY <1>5, <1>9, <3>5 DEF Waiting
  <2>3. QED
    BY <2>1, <2>2
<1>17. QED
  BY <1>1, <1>3, <1>11, <1>15, <1>16 DEF DInv, TablesOK, LossInv, Running

(* A flush that starts moves what waits from the buffer to the batch. *)
LEMMA FlushKeepsD ==
  ASSUME DInv, StartFlush(buffer), UNCHANGED <<stage, mem, excused>>, Running, Running',
         disk' \in {disk, mem}
  PROVE  /\ buffer' \in Seq(Detail) /\ draining' \in Seq(Detail) /\ isFlushing' \in BOOLEAN
         /\ TablesOK' /\ OrderInv' /\ LossInv' /\ HeldInv'
<1>1. TypeOK /\ TablesOK /\ OrderInv /\ HeldInv
  BY DEF DInv
<1>2. /\ buffer' \in Seq(Detail) /\ draining' \in Seq(Detail) /\ isFlushing' \in BOOLEAN
      /\ ~isFlushing' => draining' = <<>>
      /\ InOrder(draining') /\ InOrder(buffer') /\ Precede(draining', buffer')
      /\ ToSet(buffer') \cup ToSet(draining') = ToSet(buffer) \cup ToSet(draining)
  BY <1>1, StartFlushFacts DEF TypeOK, OrderInv
<1>3. Precede(mem.details, draining') /\ Precede(mem.details, buffer')
  <2>1. \A x \in ToSet(mem.details), y \in ToSet(buffer) \cup ToSet(draining) : NotLater(x, y)
    BY <1>1 DEF OrderInv, Precede
  <2>2. QED
    BY <1>2, <2>1 DEF Precede
<1>4. Known(buffer)' /\ Known(draining)' /\ Known(mem.details)' /\ Known(disk.details)'
  BY <1>1, <1>2 DEF OrderInv, Known
<1>5. OrderInv'
  BY <1>2, <1>3, <1>4 DEF OrderInv
<1>6. TablesOK'
  BY <1>1 DEF TablesOK
<1>7. HeldInv'
  BY <1>1, <1>2 DEF HeldInv, Saved, Waiting
<1>8. QED
  BY <1>2, <1>5, <1>6, <1>7 DEF LossInv

LEMMA FlushTimerKeepsD == ASSUME DInv, FlushTimerFires PROVE DInv'
<1>1. TypeOK
  BY DEF DInv
<1>2. /\ Running /\ flushIn' = Off /\ StartFlush(buffer)
      /\ driver' = driver /\ process' = process /\ conn' = conn /\ stage' = stage /\ mem' = mem /\ disk' = disk
      /\ dirty' = dirty /\ saveIn' = saveIn /\ excused' = excused /\ failed' = failed
  BY DEF FlushTimerFires, store
<1>3. /\ buffer' \in Seq(Detail) /\ draining' \in Seq(Detail) /\ isFlushing' \in BOOLEAN
      /\ TablesOK' /\ OrderInv' /\ LossInv' /\ HeldInv'
  <2>1. Running'
    BY <1>2 DEF Running
  <2>2. QED
    BY <1>2, <2>1, FlushKeepsD
<1>4. flushIn' \in Off..FlushInterval
  BY <1>2, DetailsAssumption DEF Off
<1>5. TypeOK'
  BY <1>1, <1>2, <1>3, <1>4 DEF TypeOK
<1>6. QED
  BY <1>3, <1>5 DEF DInv

LEMMA SignalSqlJsKeepsD == ASSUME DInv, SignalSqlJs PROVE DInv'
<1>1. TypeOK
  BY DEF DInv
<1>2. /\ process = "up" /\ process' = "stopping" /\ flushIn' = Off /\ StartFlush(buffer)
      /\ IF dirty THEN Persist ELSE UNCHANGED <<disk, dirty, failed>>
      /\ driver' = driver /\ conn' = conn /\ stage' = stage /\ mem' = mem
      /\ saveIn' = saveIn /\ excused' = excused
  BY DEF SignalSqlJs
<1>3. disk' \in {disk, mem} /\ dirty' \in BOOLEAN /\ failed' \subseteq {"batch", "file"}
  BY <1>1, <1>2, PersistTypes
<1>4. /\ buffer' \in Seq(Detail) /\ draining' \in Seq(Detail) /\ isFlushing' \in BOOLEAN
      /\ TablesOK' /\ OrderInv' /\ LossInv' /\ HeldInv'
  <2>1. Running /\ Running'
    BY <1>2 DEF Running
  <2>2. QED
    BY <1>2, <1>3, <2>1, FlushKeepsD
<1>5. flushIn' \in Off..FlushInterval
  BY <1>2, DetailsAssumption DEF Off
<1>6. TypeOK'
  BY <1>1, <1>2, <1>3, <1>4, <1>5 DEF TypeOK, TablesOK
<1>7. QED
  BY <1>4, <1>6 DEF DInv

(* The batch is in the table, or has been trimmed from it. *)
LEMMA WriteBatchKeepsD == ASSUME DInv, WriteBatch PROVE DInv'
<1> DEFINE rows == Written(mem.details, draining)
           tables == [mem EXCEPT !.details = Retained(rows)]
<1>1. TypeOK /\ TablesOK /\ OrderInv /\ HeldInv
  BY DEF DInv
<1>2. /\ Running /\ Commit(tables) /\ excused' = excused \cup Trimmed(rows)
      /\ draining' = buffer /\ buffer' = <<>> /\ isFlushing' = (buffer # <<>>) /\ flushIn' = flushIn
      /\ driver' = driver /\ process' = process /\ conn' = conn /\ stage' = stage /\ failed' = failed
  BY DEF WriteBatch, NextBatch
<1>3. buffer \in Seq(Detail) /\ draining \in Seq(Detail) /\ mem.details \in Seq(Detail) /\ mem.other \in 0..MaxOther
  BY <1>1, TablesFields DEF TypeOK, TablesOK
<1>4. /\ rows \in Seq(Detail) /\ ToSet(rows) \subseteq ToSet(mem.details) \cup ToSet(draining)
      /\ \A e \in Detail : Held(mem.details, e) \/ e \in ToSet(draining) => Held(rows, e)
  BY <1>1, <1>3, WrittenFacts DEF OrderInv
<1> HIDE DEF rows
<1>5. /\ Retained(rows) \in Seq(Detail) /\ Len(Retained(rows)) <= MaxRecords
      /\ ToSet(Retained(rows)) \subseteq ToSet(rows)
      /\ \A e \in Detail : Held(rows, e) => Held(Retained(rows), e) \/ e \in Trimmed(rows)
  BY <1>4, RetainedFacts
<1>6. tables \in Tables /\ tables.details = Retained(rows)
  BY <1>1, <1>5 DEF TablesOK, Tables
<1> HIDE DEF tables
<1>7. mem' = tables /\ disk' \in {disk, tables} /\ dirty' \in BOOLEAN /\ saveIn' \in Off..SaveDelay
  BY <1>1, <1>2, <1>6, CommitTypes
<1>8. TablesOK'
  BY <1>1, <1>5, <1>6, <1>7 DEF TablesOK
<1>9. <<>> \in Seq(Detail) /\ ToSet(<<>>) = {} /\ InOrder(<<>>)
  BY DEF ToSet, InOrder
<1>10. Trimmed(rows) \subseteq Detail
  BY DEF Trimmed
<1>11. TypeOK'
  BY <1>1, <1>2, <1>3, <1>7, <1>8, <1>9, <1>10 DEF TypeOK, TablesOK
<1>12. OrderInv'
  <2>1. \A x \in ToSet(tables.details) : x \in ToSet(mem.details) \cup ToSet(draining)
    BY <1>4, <1>5, <1>6
  <2>2. Precede(tables.details, buffer)
    BY <1>1, <2>1 DEF OrderInv, Precede
  <2>3. \A x \in ToSet(tables.details) : x.stage <= stage[x.id]
    BY <1>1, <2>1 DEF OrderInv, Known
  <2>4. Known(mem.details)' /\ Known(disk.details)' /\ Known(draining)' /\ Known(buffer)'
    BY <1>1, <1>2, <1>7, <1>9, <2>3 DEF OrderInv, Known
  <2>5. \A t : Precede(t, <<>>)
    BY <1>9 DEF Precede
  <2>6. ~isFlushing' => draining' = <<>>
    BY <1>2
  <2>7. QED
    BY <1>1, <1>2, <1>7, <1>9, <2>2, <2>4, <2>5, <2>6 DEF OrderInv
<1>13. HeldInv'
  <2> SUFFICES ASSUME NEW e \in Detail, Saved(e)
               PROVE  Waiting(e)' \/ Held(tables.details, e) \/ e \in excused'
    BY <1>2, <1>7 DEF HeldInv, Saved
  <2>1. Waiting(e) \/ Held(mem.details, e) \/ e \in excused
    BY <1>1, <1>2 DEF HeldInv
  <2>2. CASE e \in ToSet(buffer)
    BY <1>2, <2>2 DEF Waiting
  <2>3. CASE e \in ToSet(draining) \/ Held(mem.details, e)
    BY <1>2, <1>4, <1>5, <1>6, <2>3
  <2>4. CASE e \in excused
    BY <1>2, <2>4
  <2>5. QED
    BY <2>1, <2>2, <2>3, <2>4 DEF Waiting
<1>14. LossInv'
  BY <1>2 DEF LossInv, Running
<1>15. QED
  BY <1>8, <1>11, <1>12, <1>13, <1>14 DEF DInv

LEMMA BatchFailsKeepsD == ASSUME DInv, BatchFails PROVE DInv'
<1>1. TypeOK /\ TablesOK /\ OrderInv /\ HeldInv
  BY DEF DInv
<1>2. /\ Running /\ draining' = <<>> /\ isFlushing' = FALSE /\ excused' = excused \cup ToSet(draining)
      /\ failed' = failed \cup {"batch"} /\ mem' = mem /\ disk' = disk
      /\ buffer' = buffer /\ flushIn' = flushIn
      /\ driver' = driver /\ process' = process /\ conn' = conn /\ stage' = stage
  BY DEF BatchFails, RolledBack
<1>3. dirty' \in BOOLEAN /\ saveIn' \in Off..SaveDelay
  <2>1. SaveDelay \in Off..SaveDelay /\ dirty \in BOOLEAN /\ saveIn \in Off..SaveDelay
    BY <1>1, DetailsAssumption DEF TypeOK, Off
  <2>2. (dirty' = TRUE /\ saveIn' = SaveDelay) \/ (dirty' = dirty /\ saveIn' = saveIn)
    BY DEF BatchFails, RolledBack
  <2>3. QED
    BY <2>1, <2>2
<1>4. <<>> \in Seq(Detail) /\ ToSet(<<>>) = {} /\ InOrder(<<>>) /\ \A t : Precede(t, <<>>) /\ Precede(<<>>, t)
  BY DEF ToSet, InOrder, Precede
<1>5. ToSet(draining) \subseteq Detail
  BY <1>1, InToSet DEF TypeOK
<1>6. TypeOK'
  BY <1>1, <1>2, <1>3, <1>4, <1>5 DEF TypeOK
<1>7. OrderInv'
  BY <1>1, <1>2, <1>4 DEF OrderInv, Known
<1>8. HeldInv'
  BY <1>1, <1>2 DEF HeldInv, Saved, Waiting, Running
<1>9. QED
  BY <1>1, <1>2, <1>6, <1>7, <1>8 DEF DInv, TablesOK, LossInv, Running

LEMMA OtherWriteKeepsD == ASSUME DInv, OtherWrite PROVE DInv'
<1> DEFINE tables == [mem EXCEPT !.other = @ + 1]
<1>1. TypeOK /\ TablesOK /\ OrderInv /\ HeldInv
  BY DEF DInv
<1>2. /\ Running /\ mem.other < MaxOther /\ Commit(tables)
      /\ driver' = driver /\ process' = process /\ conn' = conn /\ stage' = stage
      /\ buffer' = buffer /\ draining' = draining /\ isFlushing' = isFlushing /\ flushIn' = flushIn
      /\ excused' = excused /\ failed' = failed
  BY DEF OtherWrite, queue, Running
<1>3. tables \in Tables /\ tables.details = mem.details
  BY <1>1, <1>2, DetailsAssumption DEF TablesOK, Tables
<1> HIDE DEF tables
<1>4. mem' = tables /\ disk' \in {disk, tables} /\ dirty' \in BOOLEAN /\ saveIn' \in Off..SaveDelay
  BY <1>1, <1>2, <1>3, CommitTypes
<1>5. TablesOK'
  BY <1>1, <1>3, <1>4 DEF TablesOK
<1>6. TypeOK'
  BY <1>1, <1>2, <1>4, <1>5 DEF TypeOK, TablesOK
<1>7. OrderInv'
  BY <1>1, <1>2, <1>3, <1>4 DEF OrderInv, Known
<1>8. HeldInv'
  BY <1>1, <1>2, <1>3, <1>4 DEF HeldInv, Saved, Waiting, Running
<1>9. QED
  BY <1>2, <1>5, <1>6, <1>7, <1>8 DEF DInv, LossInv, Running

LEMMA HeldIs ==
  ASSUME NEW s, NEW d
  PROVE  Held(s, d) <=> \E i \in DOMAIN s : s[i].id = d.id /\ s[i].stage >= d.stage
BY DEF Held, ToSet

LEMMA DiesKeepsD ==
  ASSUME DInv, NEW how \in {"exited", "crashed"}, Dies(how)
  PROVE  DInv'
<1>1. /\ process' = how /\ excused' = excused \cup {d \in Detail : d.stage <= stage[d.id] /\ ~InFile(d)}
      /\ driver' = driver /\ conn' = conn /\ stage' = stage /\ failed' = failed
      /\ buffer' = buffer /\ draining' = draining /\ isFlushing' = isFlushing /\ flushIn' = flushIn
      /\ mem' = mem /\ disk' = disk /\ dirty' = dirty /\ saveIn' = saveIn
  BY DEF Dies, queue, store
<1>2. TypeOK' /\ TablesOK' /\ OrderInv'
  BY <1>1 DEF DInv, TypeOK, TablesOK, OrderInv, Known
<1>3. LossInv'
  <2> SUFFICES ASSUME NEW d \in Detail, Saved(d) PROVE Held(disk.details, d) \/ d \in excused'
    BY <1>1 DEF LossInv, Saved
  <2>1. InFile(d) => Held(disk.details, d)
    BY HeldIs DEF InFile
  <2>2. ~InFile(d) => d \in excused'
    BY <1>1 DEF Saved
  <2>3. QED
    BY <2>1, <2>2
<1>4. QED
  BY <1>1, <1>2, <1>3 DEF DInv, HeldInv, Running

LEMMA RestartKeepsD == ASSUME DInv, Restart PROVE DInv'
<1>1. TypeOK /\ TablesOK /\ OrderInv /\ LossInv
  BY DEF DInv
<1>2. /\ ~Running /\ process' = "up" /\ buffer' = <<>> /\ draining' = <<>> /\ isFlushing' = FALSE
      /\ flushIn' = Off /\ mem' = disk /\ dirty' = FALSE /\ saveIn' = Off /\ failed' = {}
      /\ conn' = [r \in Requests |-> IF conn[r] = "open" THEN "closed" ELSE conn[r]]
      /\ driver' = driver /\ stage' = stage /\ disk' = disk /\ excused' = excused
  BY DEF Restart
<1>3. <<>> \in Seq(Detail) /\ ToSet(<<>>) = {} /\ InOrder(<<>>) /\ \A t : Precede(t, <<>>) /\ Precede(<<>>, t)
  BY DEF ToSet, InOrder, Precede
<1>4. TablesOK'
  BY <1>1, <1>2 DEF TablesOK
<1>5. TypeOK'
  <2>1. flushIn' \in Off..FlushInterval /\ saveIn' \in Off..SaveDelay
    BY <1>2, DetailsAssumption DEF Off
  <2>2. conn' \in [Requests -> {"none", "open", "closed"}]
    BY <1>1, <1>2 DEF TypeOK
  <2>3. QED
    BY <1>1, <1>2, <1>3, <1>4, <2>1, <2>2 DEF TypeOK, TablesOK
<1>6. OrderInv'
  BY <1>1, <1>2, <1>3 DEF OrderInv, Known
<1>7. HeldInv'
  BY <1>1, <1>2 DEF HeldInv, LossInv, Saved
<1>8. QED
  BY <1>2, <1>4, <1>5, <1>6, <1>7 DEF DInv, LossInv, Running

LEMMA NextKeepsD == DInv /\ [Next]_vars => DInv'
<1> SUFFICES ASSUME DInv, [Next]_vars PROVE DInv'
  OBVIOUS
<1>1. CASE \/ \E r \in Requests : Connect(r) \/ Close(r)
           \/ SaveTimerFires \/ Tick \/ UNCHANGED vars
  <2>1. TypeOK
    BY DEF DInv
  <2>2. UNCHANGED <<process, stage, buffer, draining, isFlushing, mem, excused>>
    BY <1>1 DEF Connect, Close, SaveTimerFires, Tick, queue, store, vars
  <2>3. disk' = disk \/ (Running /\ disk' = mem)
    BY <1>1, <2>1, PersistTypes DEF Connect, Close, SaveTimerFires, Tick, store, vars
  <2>4. TypeOK'
    <3>1. CASE \E r \in Requests : Connect(r) \/ Close(r)
      BY <2>1, <3>1 DEF Connect, Close, queue, store, TypeOK
    <3>2. CASE SaveTimerFires
      <4>1. disk' \in {disk, mem} /\ dirty' \in BOOLEAN /\ failed' \subseteq {"batch", "file"}
        BY <2>1, <3>2, PersistTypes DEF SaveTimerFires
      <4>2. saveIn' \in Off..SaveDelay
        BY <3>2, DetailsAssumption DEF SaveTimerFires, Off
      <4>3. QED
        BY <2>1, <3>2, <4>1, <4>2 DEF SaveTimerFires, queue, TypeOK
    <3>3. CASE Tick
      <4>1. flushIn' \in Off..FlushInterval /\ saveIn' \in Off..SaveDelay
        BY <2>1, <3>3, DetailsAssumption DEF Tick, Down, TypeOK, Off
      <4>2. QED
        BY <2>1, <3>3, <4>1 DEF Tick, TypeOK
    <3>4. CASE UNCHANGED vars
      BY <2>1, <3>4 DEF vars, queue, store, TypeOK
    <3>5. QED
      BY <1>1, <3>1, <3>2, <3>3, <3>4
  <2>5. QED
    BY <2>2, <2>3, <2>4, QuietKeepsD
<1>2. CASE Crash \/ SignalNative \/ Exit
  BY <1>2, DiesKeepsD DEF Crash, SignalNative, Exit
<1>3. QED
  BY <1>1, <1>2, SaveKeepsD, FlushTimerKeepsD, WriteBatchKeepsD, BatchFailsKeepsD, OtherWriteKeepsD,
     SignalSqlJsKeepsD, RestartKeepsD DEF Next

-----------------------------------------------------------------------------
(* The inductive invariant of the buffer, the batch and the table holds.   *)
THEOREM DetailsInvariant == Spec => []DInv
BY InitDInv, NextKeepsD, PTL DEF Spec

(* Type correctness, for any requests and sizes: the table never holds     *)
(* more than MaxRecords details (flushToDatabase trims it).                *)
THEOREM SpecDetailsTypeOK == Spec => []TypeOK
<1>1. DInv => TypeOK
  BY DEF DInv
<1>2. QED
  BY <1>1, DetailsInvariant, PTL

(* flushToDatabase and saveRequestDetail: a detail that was saved waits,   *)
(* is in the table, itself or superseded by its request's answer, or was   *)
(* trimmed, rolled back with its batch or lost with the process, however   *)
(* pushes, timers, batches, crashes and restarts interleave.               *)
THEOREM SpecNothingVanishes == Spec => []NothingVanishes
<1>1. DInv => NothingVanishes
  BY HeldIs DEF DInv, HeldInv, NothingVanishes, StoredIn
<1>2. QED
  BY <1>1, DetailsInvariant, PTL

(* saveRequestDetail and flushToDatabase leave buffered details to a timer *)
(* or to a flush in progress, unless the batch that was pushed last failed. *)
THEOREM SpecBufferHasAWriter == Spec => []BufferHasAWriter
<1>1. IInv => BufferHasAWriter
  BY DEF IInv
<1>2. QED
  BY <1>1, InitIInv, NextKeeps, PTL DEF Spec

(* The sql.js adapter knows when the file is behind, and has a save        *)
(* scheduled then unless the last write of the file failed.                *)
THEOREM SpecDirtyTracksTheFile == Spec => []DirtyTracksTheFile
<1>1. IInv => DirtyTracksTheFile
  BY DEF IInv
<1>2. QED
  BY <1>1, InitIInv, NextKeeps, PTL DEF Spec

=============================================================================
