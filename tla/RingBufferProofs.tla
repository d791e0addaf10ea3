-------------------------- MODULE RingBufferProofs --------------------------
(***************************************************************************)
(* RingBuffer is correct for every capacity, every set of goroutines and   *)
(* every choice of batches.                                                *)
(*                                                                         *)
(* SnapshotIsWindow is not inductive: a step of CopyElement says nothing   *)
(* about the element it copies unless one knows what the array holds, and  *)
(* that the elements copied earlier are still the ones of the window.  The *)
(* inductive invariant adds how the counters relate to the log (Counters), *)
(* what the array holds between head and tail (ArrayIsWindow), what the    *)
(* locks exclude (LocksExclude) and what a reader has so far               *)
(* (CopiesArePrefixes).  The refinement of RecentFlows needs one fact      *)
(* more: the batch of a writer that still waits is whole (WaitingIsWhole). *)
(***************************************************************************)
EXTENDS RingBuffer, SequenceTheorems, TLAPS

(* The counters are determined by the number of records written: size      *)
(* stops at the capacity, and head moves only from then on.                *)
Counters ==
  /\ tail = Len(log)
  /\ size = AtMost(tail)
  /\ head = IF tail < Capacity THEN 0 ELSE tail % Capacity

(* Read from head, the array holds the last size records of the log.       *)
ArrayIsWindow ==
  \A i \in 0 .. size - 1 : data[ReadIndex(head, i)] = log[tail - size + i + 1]

(* sync.RWMutex at work: one writer or any number of readers.              *)
LocksExclude ==
  /\ \A w \in Writers : w \in writer <=> wpc[w] \in {"pending", "writing"}
  /\ \A r \in Readers : r \in readers <=> rpc[r] = "copying"
  /\ \A v, w \in writer : v = w
  /\ \A w \in Writers : wpc[w] = "writing" => readers = {}

(* What a reader copied so far is the beginning of the current window.     *)
CopiesArePrefixes ==
  \A r \in readers :
    /\ Len(copy[r]) <= size
    /\ \A i \in 1 .. Len(copy[r]) : copy[r][i] = log[tail - size + i]

IInv ==
  /\ TypeOK
  /\ Counters
  /\ ArrayIsWindow
  /\ LocksExclude
  /\ CopiesArePrefixes
  /\ SnapshotIsWindow

-----------------------------------------------------------------------------
(* Arithmetic modulo the capacity *)

LEMMA ModUnique ==
  ASSUME NEW q \in Nat, NEW r \in Indices
  PROVE  (Capacity * q + r) % Capacity = r
  BY CapacityAssumption DEF Indices

LEMMA ModSmall ==
  ASSUME NEW a \in Indices
  PROVE  a % Capacity = a
  BY CapacityAssumption DEF Indices

LEMMA ModWraps ==
  ASSUME NEW a \in Capacity .. 2 * Capacity - 1
  PROVE  a % Capacity = a - Capacity
  BY CapacityAssumption

LEMMA ModRange ==
  ASSUME NEW a \in Nat
  PROVE  a % Capacity \in Indices
  BY CapacityAssumption DEF Indices

LEMMA ModSucc ==
  ASSUME NEW t \in Nat
  PROVE  (t + 1) % Capacity = IF t % Capacity = Capacity - 1 THEN 0 ELSE (t % Capacity) + 1
<1> DEFINE q == t \div Capacity
           r == t % Capacity
<1>1. t = Capacity * q + r /\ q \in Nat
  BY CapacityAssumption
<1>2. r \in Indices
  BY ModRange
<1>3. CASE r = Capacity - 1
  <2>1. t + 1 = Capacity * (q + 1) + 0
    BY <1>1, <1>3, CapacityAssumption
  <2>2. (Capacity * (q + 1) + 0) % Capacity = 0
    BY ModUnique, <1>1, CapacityAssumption DEF Indices
  <2> QED BY <2>1, <2>2, <1>3
<1>4. CASE r # Capacity - 1
  <2>1. t + 1 = Capacity * q + (r + 1)
    BY <1>1, <1>2, CapacityAssumption DEF Indices
  <2>2. (Capacity * q + (r + 1)) % Capacity = r + 1
    <3> HIDE DEF q, r
    <3> QED BY ModUnique, <1>1, <1>2, <1>4, CapacityAssumption DEF Indices
  <2> QED BY <2>1, <2>2, <1>4
<1> QED BY <1>3, <1>4

(* ReadIndex counts up from head and wraps around once. *)
LEMMA ReadIndexValue ==
  ASSUME NEW h \in Indices, NEW i \in Indices
  PROVE  ReadIndex(h, i) = IF h + i < Capacity THEN h + i ELSE h + i - Capacity
<1>1. CASE h + i < Capacity
  BY <1>1, ModSmall, CapacityAssumption DEF ReadIndex, Indices
<1>2. CASE h + i >= Capacity
  BY <1>2, ModWraps, CapacityAssumption DEF ReadIndex, Indices
<1> QED BY <1>1, <1>2, CapacityAssumption DEF Indices

(* A window of the log does not change when records are appended. *)
LEMMA WindowStable ==
  ASSUME NEW s \in Seq(Records), NEW x \in Records, NEW m \in 0 .. Len(s),
         NEW n \in 0 .. m
  PROVE  SubSeq(Append(s, x), m - n + 1, m) = SubSeq(s, m - n + 1, m)
<1> DEFINE a == m - n + 1
           t == Append(s, x)
<1>1. a \in Int /\ m \in Int /\ a >= 1
  OBVIOUS
<1>2. t \in Seq(Records) /\ \A i \in 1 .. Len(s) : t[i] = s[i]
  BY AppendProperties
<1>3. \A i \in a .. m : s[i] \in Records /\ t[i] \in Records /\ t[i] = s[i]
  BY <1>1, <1>2, ElementOfSeq
<1>4. /\ SubSeq(s, a, m) \in Seq(Records)
      /\ Len(SubSeq(s, a, m)) = IF a <= m THEN m - a + 1 ELSE 0
      /\ \A i \in 1 .. m - a + 1 : SubSeq(s, a, m)[i] = s[a + i - 1]
  BY <1>1, <1>3, SubSeqProperties
<1>5. /\ SubSeq(t, a, m) \in Seq(Records)
      /\ Len(SubSeq(t, a, m)) = IF a <= m THEN m - a + 1 ELSE 0
      /\ \A i \in 1 .. m - a + 1 : SubSeq(t, a, m)[i] = t[a + i - 1]
  BY <1>1, <1>3, SubSeqProperties
<1>6. \A i \in 1 .. Len(SubSeq(s, a, m)) : SubSeq(s, a, m)[i] = SubSeq(t, a, m)[i]
  <2> SUFFICES ASSUME NEW i \in 1 .. Len(SubSeq(s, a, m))
               PROVE  SubSeq(s, a, m)[i] = SubSeq(t, a, m)[i]
    OBVIOUS
  <2>1. i \in 1 .. m - a + 1 /\ a + i - 1 \in a .. m
    BY <1>1, <1>4
  <2> QED BY <2>1, <1>3, <1>4, <1>5
<1> HIDE DEF a, t
<1>7. SubSeq(s, a, m) = SubSeq(t, a, m)
  BY <1>4, <1>5, <1>6, SeqEqual
<1> QED BY <1>7 DEF a, t

-----------------------------------------------------------------------------
(* The invariant *)

LEMMA InitIInv == Init => IInv
<1> SUFFICES ASSUME Init PROVE IInv
  OBVIOUS
<1> USE CapacityAssumption DEF Init
<1>1. << >> \in Seq(Records) /\ Len(<< >>) = 0
  BY EmptySeq
<1>2. TypeOK
  BY <1>1 DEF TypeOK, Indices
<1>3. Counters
  BY DEF Counters, AtMost
<1>4. ArrayIsWindow
  BY DEF ArrayIsWindow
<1>5. LocksExclude
  BY DEF LocksExclude
<1>6. CopiesArePrefixes
  BY DEF CopiesArePrefixes
<1>7. SnapshotIsWindow
  <2>1. Window(0, AtMost(0)) = << >>
    BY SubSeqEmpty DEF Window, AtMost
  <2> QED BY <2>1, <1>1 DEF SnapshotIsWindow
<1> QED BY <1>2, <1>3, <1>4, <1>5, <1>6, <1>7 DEF IInv

(* Steps that leave the array, the log and the snapshots alone. *)
LEMMA LogUnchanged ==
  ASSUME IInv, UNCHANGED <<ring, log>>
  PROVE  Counters' /\ ArrayIsWindow'
<1>1. Counters'
  BY DEF IInv, Counters, AtMost, ring
<1>2. ArrayIsWindow'
  BY DEF IInv, ArrayIsWindow, ReadIndex, ring
<1> QED BY <1>1, <1>2

LEMMA ViewUnchanged ==
  ASSUME IInv, UNCHANGED <<view, log>>
  PROVE  SnapshotIsWindow'
  BY DEF IInv, SnapshotIsWindow, Window, AtMost

LEMMA CopiesUnchanged ==
  ASSUME IInv, UNCHANGED <<ring, log, copy, readers>>
  PROVE  CopiesArePrefixes'
  BY DEF IInv, CopiesArePrefixes, ring

LEMMA PushPreserves ==
  ASSUME IInv, NEW w \in Writers, NEW b \in Batches, Push(w, b)
  PROVE  IInv'
<1>1. TypeOK'
  BY BatchAssumption DEF IInv, TypeOK, Push, ring
<1>2. LocksExclude'
  BY DEF IInv, LocksExclude, TypeOK, Push
<1> QED
  BY <1>1, <1>2, LogUnchanged, ViewUnchanged, CopiesUnchanged DEF IInv, Push

LEMMA AnnouncePreserves ==
  ASSUME IInv, NEW w \in Writers, Announce(w)
  PROVE  IInv'
<1>1. TypeOK'
  BY DEF IInv, TypeOK, Announce, ring
<1>2. LocksExclude'
  BY DEF IInv, LocksExclude, TypeOK, Announce
<1> QED
  BY <1>1, <1>2, LogUnchanged, ViewUnchanged, CopiesUnchanged DEF IInv, Announce

LEMMA LockPreserves ==
  ASSUME IInv, NEW w \in Writers, Lock(w)
  PROVE  IInv'
<1>1. TypeOK'
  BY DEF IInv, TypeOK, Lock, MayLock, ring
<1>2. LocksExclude'
  BY DEF IInv, LocksExclude, TypeOK, Lock, MayLock
<1> QED
  BY <1>1, <1>2, LogUnchanged, ViewUnchanged, CopiesUnchanged DEF IInv, Lock

LEMMA UnlockPreserves ==
  ASSUME IInv, NEW w \in Writers, Unlock(w)
  PROVE  IInv'
<1>1. TypeOK'
  BY DEF IInv, TypeOK, Unlock, ring
<1>2. LocksExclude'
  BY DEF IInv, LocksExclude, TypeOK, Unlock
<1> QED
  BY <1>1, <1>2, LogUnchanged, ViewUnchanged, CopiesUnchanged DEF IInv, Unlock

LEMMA SnapshotPreserves ==
  ASSUME IInv, NEW r \in Readers, Snapshot(r)
  PROVE  IInv'
<1>1. TypeOK'
  BY DEF IInv, TypeOK, Snapshot, ring
<1>2. LocksExclude'
  BY DEF IInv, LocksExclude, TypeOK, Snapshot
<1> QED
  BY <1>1, <1>2, LogUnchanged, ViewUnchanged, CopiesUnchanged DEF IInv, Snapshot

(* A new copy is empty, and so a prefix of anything. *)
LEMMA RLockPreserves ==
  ASSUME IInv, NEW r \in Readers, RLock(r)
  PROVE  IInv'
<1>1. TypeOK'
  BY EmptySeq DEF IInv, TypeOK, RLock, ring
<1>2. LocksExclude'
  BY DEF IInv, LocksExclude, TypeOK, RLock, MayRLock
<1>3. CopiesArePrefixes'
  <2> SUFFICES ASSUME NEW s \in readers'
               PROVE  /\ Len(copy'[s]) <= size
                      /\ \A i \in 1 .. Len(copy'[s]) : copy'[s][i] = log[tail - size + i]
    BY DEF CopiesArePrefixes, RLock, ring
  <2>1. CASE s = r
    <3>1. copy'[s] = << >> /\ Len(<< >>) = 0
      BY <2>1, EmptySeq DEF IInv, TypeOK, RLock
    <3> QED BY <3>1 DEF IInv, TypeOK
  <2>2. CASE s # r
    BY <2>2 DEF IInv, TypeOK, CopiesArePrefixes, RLock
  <2> QED BY <2>1, <2>2
<1> QED
  BY <1>1, <1>2, <1>3, LogUnchanged, ViewUnchanged DEF IInv, RLock

(* The element a reader copies is the next one of the window, so it was    *)
(* written, and the copy stays a prefix.                                   *)
LEMMA CopyElementPreserves ==
  ASSUME IInv, NEW r \in Readers, CopyElement(r)
  PROVE  IInv'
<1> DEFINE n == Len(copy[r])
           e == data[ReadIndex(head, n)]
<1>1. copy[r] \in Seq(Records) /\ n \in Nat /\ n < size
  BY LenProperties DEF IInv, TypeOK, CopyElement
<1>2. e = log[tail - size + n + 1]
  BY <1>1 DEF IInv, ArrayIsWindow, TypeOK
<1>3. e \in Records
  <2>1. tail - size + n + 1 \in 1 .. Len(log)
    BY <1>1 DEF IInv, TypeOK, Counters, AtMost
  <2> QED BY <1>2, <2>1, ElementOfSeq DEF IInv, TypeOK
<1>4. /\ copy' = [copy EXCEPT ![r] = Append(copy[r], e)]
      /\ r \in readers
      /\ UNCHANGED <<ring, writer, readers, wpc, batch, rpc, view, log>>
  BY DEF CopyElement, IInv, LocksExclude
<1>5. /\ Append(copy[r], e) \in Seq(Records)
      /\ Len(Append(copy[r], e)) = n + 1
      /\ \A i \in 1 .. n : Append(copy[r], e)[i] = copy[r][i]
      /\ Append(copy[r], e)[n + 1] = e
  BY <1>1, <1>3, AppendProperties
<1> HIDE DEF e
<1>6. TypeOK'
  BY <1>4, <1>5 DEF IInv, TypeOK, ring
<1>7. LocksExclude'
  BY <1>4 DEF IInv, LocksExclude
<1>8. CopiesArePrefixes'
  <2> SUFFICES ASSUME NEW s \in readers
               PROVE  /\ Len(copy'[s]) <= size
                      /\ \A i \in 1 .. Len(copy'[s]) : copy'[s][i] = log[tail - size + i]
    BY <1>4 DEF CopiesArePrefixes, ring
  <2>1. CASE s = r
    <3>1. copy'[s] = Append(copy[r], e)
      BY <2>1, <1>4 DEF IInv, TypeOK
    <3>2. \A i \in 1 .. n : copy[r][i] = log[tail - size + i]
      BY <1>4 DEF IInv, CopiesArePrefixes
    <3>3. n + 1 <= size
      BY <1>1 DEF IInv, TypeOK
    <3>4. tail - size + (n + 1) = tail - size + n + 1
      BY <1>1 DEF IInv, TypeOK
    <3>5. ASSUME NEW i \in 1 .. n + 1
          PROVE  Append(copy[r], e)[i] = log[tail - size + i]
      <4>1. CASE i = n + 1
        BY <4>1, <1>2, <1>5, <3>4
      <4>2. CASE i # n + 1
        BY <4>2, <1>1, <1>5, <3>2
      <4> QED BY <4>1, <4>2
    <3> QED BY <3>1, <3>3, <3>5, <1>5
  <2>2. CASE s # r
    BY <2>2, <1>4 DEF IInv, TypeOK, CopiesArePrefixes
  <2> QED BY <2>1, <2>2
<1> QED
  BY <1>4, <1>6, <1>7, <1>8, LogUnchanged, ViewUnchanged DEF IInv

(* A reader that may unlock has copied the whole window. *)
LEMMA FullCopy ==
  ASSUME IInv, NEW r \in Readers, RUnlock(r)
  PROVE  copy[r] = Window(tail, AtMost(tail))
<1> DEFINE a == tail - size + 1
           s == SubSeq(log, a, tail)
<1>1. /\ tail \in Nat /\ size \in Nat /\ size <= tail /\ tail = Len(log)
      /\ copy[r] \in Seq(Records) /\ Len(copy[r]) = size
      /\ \A i \in 1 .. size : copy[r][i] = log[tail - size + i]
  <2>1. tail \in Nat /\ size \in Nat /\ size <= tail /\ tail = Len(log)
    BY CapacityAssumption DEF IInv, TypeOK, Counters, AtMost
  <2>2. r \in readers /\ Len(copy[r]) >= size
    BY DEF IInv, LocksExclude, RUnlock
  <2>3. /\ Len(copy[r]) <= size
        /\ \A i \in 1 .. Len(copy[r]) : copy[r][i] = log[tail - size + i]
    BY <2>2 DEF IInv, CopiesArePrefixes
  <2>4. copy[r] \in Seq(Records) /\ Len(copy[r]) \in Nat
    BY LenProperties DEF IInv, TypeOK
  <2>5. Len(copy[r]) = size
    BY <2>1, <2>2, <2>3, <2>4
  <2> QED BY <2>1, <2>3, <2>4, <2>5
<1>2. a \in Int /\ tail \in Int /\ \A i \in a .. tail : log[i] \in Records
  BY <1>1, ElementOfSeq DEF IInv, TypeOK
<1>3. /\ s \in Seq(Records)
      /\ Len(s) = IF a <= tail THEN tail - a + 1 ELSE 0
      /\ \A i \in 1 .. tail - a + 1 : s[i] = log[a + i - 1]
  BY <1>2, SubSeqProperties
<1>4. Len(s) = size /\ \A i \in 1 .. size : s[i] = log[tail - size + i]
  <2>1. Len(s) = size /\ tail - a + 1 = size
    BY <1>1, <1>3
  <2>2. \A i \in 1 .. size : a + i - 1 = tail - size + i
    BY <1>1
  <2> QED BY <2>1, <2>2, <1>3
<1> HIDE DEF s
<1>5. copy[r] = s
  <2>1. /\ copy[r] \in Seq(Records) /\ s \in Seq(Records)
        /\ Len(copy[r]) = Len(s)
        /\ \A i \in 1 .. Len(copy[r]) : copy[r][i] = s[i]
    BY <1>1, <1>3, <1>4
  <2> QED BY <2>1, SeqEqual
<1> QED BY <1>5 DEF s, IInv, Counters, Window

(* So the snapshot a reader returns is the current window. *)
LEMMA RUnlockPreserves ==
  ASSUME IInv, NEW r \in Readers, RUnlock(r)
  PROVE  IInv'
<1>1. TypeOK'
  BY DEF IInv, TypeOK, RUnlock, ReaderReleased, ring
<1>2. LocksExclude'
  BY DEF IInv, LocksExclude, TypeOK, RUnlock, ReaderReleased
<1>3. CopiesArePrefixes'
  BY DEF IInv, CopiesArePrefixes, RUnlock, ReaderReleased, ring
<1>4. copy[r] = Window(tail, AtMost(tail))
  BY FullCopy
<1>5. SnapshotIsWindow'
  <2> SUFFICES ASSUME NEW s \in Readers
               PROVE  \E m \in 0 .. Len(log) : view'[s] = Window(m, AtMost(m))
    BY DEF SnapshotIsWindow, Window, AtMost, RUnlock
  <2>1. CASE s = r
    <3>1. view'[s] = Window(tail, AtMost(tail))
      BY <2>1, <1>4 DEF IInv, TypeOK, RUnlock
    <3>2. tail \in 0 .. Len(log)
      BY DEF IInv, TypeOK, Counters
    <3> QED BY <3>1, <3>2
  <2>2. CASE s # r
    BY <2>2 DEF IInv, TypeOK, SnapshotIsWindow, RUnlock
  <2> QED BY <2>1, <2>2
<1> QED
  BY <1>1, <1>2, <1>3, <1>5, LogUnchanged DEF IInv, RUnlock

LEMMA ArrayStep ==
  ASSUME \A i \in 0 .. size' - 1 : data'[ReadIndex(head', i)] = log'[tail' - size' + i + 1]
  PROVE  ArrayIsWindow'
  BY DEF ArrayIsWindow, ReadIndex

(* The interesting step: a record is written while the lock excludes every *)
(* reader.  Before the array is full the window grows at its end; after,   *)
(* the write hits the oldest element just as head moves past it.           *)
LEMMA WriteRecordPreserves ==
  ASSUME IInv, NEW w \in Writers, WriteRecord(w)
  PROVE  IInv'
<1> DEFINE x == Head(batch[w])
<1>1. /\ x \in Records
      /\ Tail(batch[w]) \in Seq(Records)
  BY HeadTailProperties DEF IInv, TypeOK, WriteRecord
<1>2. /\ data' = [data EXCEPT ![tail % Capacity] = x]
      /\ head' = NextHead(head, size)
      /\ size' = NextSize(size)
      /\ tail' = tail + 1
      /\ log' = Append(log, x)
      /\ batch' = [batch EXCEPT ![w] = Tail(batch[w])]
      /\ UNCHANGED <<writer, readers, wpc, rpc, copy, view>>
  BY DEF WriteRecord, WriteIndex
<1> HIDE DEF x
<1>3. /\ log' \in Seq(Records)
      /\ Len(log') = tail + 1
      /\ log'[tail + 1] = x
      /\ \A i \in 1 .. tail : log'[i] = log[i]
  BY <1>1, <1>2, AppendProperties DEF IInv, TypeOK, Counters
<1>4. tail \in Nat /\ size \in 0 .. Capacity /\ head \in Indices /\ Capacity \in Nat \ {0}
  BY CapacityAssumption DEF IInv, TypeOK
<1>5. tail % Capacity \in Indices
  BY <1>4, ModRange
<1>6. data \in [Indices -> Records \cup {ZeroRecord}]
  BY DEF IInv, TypeOK
<1>7. ASSUME tail < Capacity
      PROVE  Counters' /\ ArrayIsWindow' /\ head' \in Indices /\ size' \in 0 .. Capacity
  <2>1. /\ size = tail /\ head = 0
        /\ tail % Capacity = tail
    BY <1>4, <1>7, ModSmall DEF IInv, Counters, AtMost, Indices
  <2>2. head' = 0 /\ size' = tail + 1
    BY <1>2, <1>4, <1>7, <2>1 DEF NextHead, NextSize
  <2>3. tail + 1 = Capacity => (tail + 1) % Capacity = 0
    BY <1>4, ModWraps
  <2>4. Counters'
    BY <1>2, <1>3, <1>4, <1>7, <2>2, <2>3 DEF Counters, AtMost
  <2>5. ArrayIsWindow'
    <3> SUFFICES ASSUME NEW i \in 0 .. tail
                 PROVE  data'[ReadIndex(0, i)] = log'[i + 1]
      <4>1. /\ size' - 1 = tail
            /\ \A i \in 0 .. tail : tail' - size' + i + 1 = i + 1
        BY <1>2, <1>4, <2>2
      <4> QED BY <4>1, <2>2, ArrayStep
    <3>1. i \in Indices /\ ReadIndex(0, i) = i
      BY <1>4, <1>7, ModSmall DEF ReadIndex, Indices
    <3>2. CASE i = tail
      BY <3>1, <3>2, <1>2, <1>3, <1>6, <2>1
    <3>3. CASE i < tail
      <4>1. data'[i] = data[i]
        BY <3>1, <3>3, <1>2, <1>4, <1>6, <2>1
      <4>2. data[ReadIndex(0, i)] = log[i + 1]
        BY <3>3, <1>4, <2>1 DEF IInv, ArrayIsWindow
      <4>3. log'[i + 1] = log[i + 1]
        BY <3>3, <1>3, <1>4
      <4> QED BY <3>1, <4>1, <4>2, <4>3
    <3> QED BY <3>2, <3>3, <1>4
  <2>6. head' \in Indices /\ size' \in 0 .. Capacity
    BY <1>4, <1>7, <2>2 DEF Indices
  <2> QED BY <2>4, <2>5, <2>6
<1>8. ASSUME tail >= Capacity
      PROVE  Counters' /\ ArrayIsWindow' /\ head' \in Indices /\ size' \in 0 .. Capacity
  <2>1. /\ size = Capacity
        /\ head = tail % Capacity
    BY <1>4, <1>8 DEF IInv, Counters, AtMost
  <2>2. /\ size' = Capacity
        /\ head' = (head + 1) % Capacity
    BY <1>2, <2>1 DEF NextHead, NextSize
  <2>3. head' = IF head = Capacity - 1 THEN 0 ELSE head + 1
    BY <1>4, <2>2, ModSmall, ModWraps DEF Indices
  <2>4. head' = (tail + 1) % Capacity
    BY <1>4, <2>1, <2>3, ModSucc
  <2>5. head' \in Indices
    BY <1>4, <2>3 DEF Indices
  <2>6. Counters'
    BY <1>2, <1>3, <1>4, <1>8, <2>2, <2>4 DEF Counters, AtMost
  <2>7. ArrayIsWindow'
    <3> SUFFICES ASSUME NEW i \in Indices
                 PROVE  data'[ReadIndex(head', i)] = log'[tail + 1 - Capacity + i + 1]
      <4>1. /\ 0 .. size' - 1 = Indices
            /\ tail' - size' = tail + 1 - Capacity
        BY <1>2, <1>4, <2>2 DEF Indices
      <4> QED BY <4>1, ArrayStep
    <3>1. CASE i = Capacity - 1
      <4>1. ReadIndex(head', i) = head
        BY <3>1, <1>4, <2>3, <2>5, ReadIndexValue DEF Indices
      <4>2. tail + 1 - Capacity + i + 1 = tail + 1
        BY <3>1, <1>4
      <4> QED BY <4>1, <4>2, <1>2, <1>3, <1>4, <1>6, <2>1
    <3>2. CASE i # Capacity - 1
      <4>1. i + 1 \in Indices /\ i \in 0 .. Capacity - 2
        BY <3>2, <1>4 DEF Indices
      <4>2. ReadIndex(head', i) = ReadIndex(head, i + 1)
        <5>1. ReadIndex(head', i) = IF head' + i < Capacity THEN head' + i ELSE head' + i - Capacity
          BY <2>5, ReadIndexValue
        <5>2. ReadIndex(head, i + 1) = IF head + (i + 1) < Capacity THEN head + (i + 1)
                                       ELSE head + (i + 1) - Capacity
          BY <4>1, <1>4, ReadIndexValue
        <5> QED BY <5>1, <5>2, <4>1, <1>4, <2>3 DEF Indices
      <4>3. ReadIndex(head, i + 1) \in Indices /\ ReadIndex(head, i + 1) # head
        BY <4>1, <1>4, ReadIndexValue DEF Indices
      <4>4. data'[ReadIndex(head, i + 1)] = data[ReadIndex(head, i + 1)]
        BY <4>3, <1>2, <1>6, <2>1
      <4>5. data[ReadIndex(head, i + 1)] = log[tail - Capacity + (i + 1) + 1]
        BY <4>1, <2>1, <1>4 DEF IInv, ArrayIsWindow, Indices
      <4>6. /\ tail - Capacity + (i + 1) + 1 = tail + 1 - Capacity + i + 1
            /\ tail + 1 - Capacity + i + 1 \in 1 .. tail
        BY <4>1, <1>4, <1>8
      <4> QED BY <4>2, <4>4, <4>5, <4>6, <1>3
    <3> QED BY <3>1, <3>2
  <2>8. size' \in 0 .. Capacity
    BY <2>2, <1>4
  <2> QED BY <2>5, <2>6, <2>7, <2>8
<1>9. Counters' /\ ArrayIsWindow' /\ head' \in Indices /\ size' \in 0 .. Capacity
  BY <1>4, <1>7, <1>8
<1>10. TypeOK'
  BY <1>1, <1>2, <1>3, <1>4, <1>5, <1>9 DEF IInv, TypeOK
<1>11. LocksExclude'
  BY <1>2 DEF IInv, LocksExclude
<1>12. CopiesArePrefixes'
  <2>1. readers = {}
    BY DEF IInv, LocksExclude, WriteRecord
  <2> QED BY <2>1, <1>2 DEF CopiesArePrefixes
<1>13. SnapshotIsWindow'
  <2> SUFFICES ASSUME NEW r \in Readers
               PROVE  \E m \in 0 .. Len(log') : view[r] = Window(m, AtMost(m))'
    BY <1>2 DEF SnapshotIsWindow, Window, AtMost
  <2>1. PICK m \in 0 .. Len(log) : view[r] = Window(m, AtMost(m))
    BY DEF IInv, SnapshotIsWindow
  <2>2. m \in 0 .. Len(log') /\ AtMost(m) \in 0 .. m
    BY <2>1, <1>3, <1>4 DEF AtMost, IInv, Counters
  <2>3. SubSeq(log', m - AtMost(m) + 1, m) = SubSeq(log, m - AtMost(m) + 1, m)
    BY <2>1, <2>2, <1>1, <1>2, WindowStable DEF IInv, TypeOK
  <2>4. view[r] = SubSeq(log', m - AtMost(m) + 1, m)
    BY <2>1, <2>3 DEF Window
  <2> QED BY <2>2, <2>4 DEF Window, AtMost
<1> QED
  BY <1>9, <1>10, <1>11, <1>12, <1>13 DEF IInv

-----------------------------------------------------------------------------
(* The theorems *)

LEMMA NextIInv == IInv /\ [Next]_vars => IInv'
<1> SUFFICES ASSUME IInv, [Next]_vars PROVE IInv'
  OBVIOUS
<1>1. ASSUME NEW w \in Writers, NEW b \in Batches, Push(w, b) PROVE IInv'
  BY <1>1, PushPreserves
<1>2. ASSUME NEW w \in Writers, Lock(w) PROVE IInv'
  BY <1>2, LockPreserves
<1>3. ASSUME NEW w \in Writers, WriteRecord(w) PROVE IInv'
  BY <1>3, WriteRecordPreserves
<1>4. ASSUME NEW w \in Writers, Unlock(w) PROVE IInv'
  BY <1>4, UnlockPreserves
<1>5. ASSUME NEW r \in Readers, Snapshot(r) PROVE IInv'
  BY <1>5, SnapshotPreserves
<1>6. ASSUME NEW r \in Readers, RLock(r) PROVE IInv'
  BY <1>6, RLockPreserves
<1>7. ASSUME NEW r \in Readers, CopyElement(r) PROVE IInv'
  BY <1>7, CopyElementPreserves
<1>8. ASSUME NEW r \in Readers, RUnlock(r) PROVE IInv'
  BY <1>8, RUnlockPreserves
<1>9. ASSUME NEW w \in Writers, Announce(w) PROVE IInv'
  BY <1>9, AnnouncePreserves
<1>10. CASE UNCHANGED vars
  <2>1. TypeOK' /\ LocksExclude' /\ CopiesArePrefixes'
    BY <1>10 DEF vars, IInv, TypeOK, LocksExclude, CopiesArePrefixes
  <2> QED BY <1>10, <2>1, LogUnchanged, ViewUnchanged DEF vars, ring, IInv
<1> QED
  BY <1>1, <1>2, <1>3, <1>4, <1>5, <1>6, <1>7, <1>8, <1>9, <1>10 DEF Next

(* Every variable of the buffer keeps its type: in particular no reader    *)
(* ever copies an element nobody wrote.                                    *)
THEOREM TypeCorrect == Spec => []TypeOK
<1>1. IInv => TypeOK
  BY DEF IInv
<1> QED BY InitIInv, NextIInv, <1>1, PTL DEF Spec

(* Every snapshot is the last min(Capacity, m) records of the first m      *)
(* pushed, for some m: RingBuffer.Snapshot never returns a hole, a stale   *)
(* element or a mixture of two moments.                                    *)
THEOREM SnapshotCorrect == Spec => []SnapshotIsWindow
<1>1. IInv => SnapshotIsWindow
  BY DEF IInv
<1> QED BY InitIInv, NextIInv, <1>1, PTL DEF Spec

-----------------------------------------------------------------------------
(* The refinement of RecentFlows.  The abstract buffer is, at any moment,  *)
(* the end of Pushed: a record moves from the batch of the lock holder to  *)
(* the log in one step, which leaves Pushed as it is, and forgetting the   *)
(* oldest records early (LastOfConcat) changes nothing.                    *)

(* What the abstract buffer holds, read off the history: every record      *)
(* written, and then what the lock holder has still to write.              *)
Pushed == log \o Unwritten

BufferIsLastPushed == LastOf(Contents \o Unwritten) = LastOf(Pushed)

(* A batch on its way to the lock is still whole. *)
WaitingIsWhole ==
  \A w \in Writers : wpc[w] \in {"locking", "pending"} => batch[w] \in Batches

RInv == IInv /\ WaitingIsWhole

LEMMA LastOfProperties ==
  ASSUME NEW s \in Seq(Records)
  PROVE  /\ LastOf(s) \in Seq(Records)
         /\ Len(LastOf(s)) = AtMost(Len(s))
         /\ \A i \in 1 .. AtMost(Len(s)) : LastOf(s)[i] = s[Len(s) - AtMost(Len(s)) + i]
<1> DEFINE m == Len(s) - AtMost(Len(s)) + 1
<1>1. Len(s) \in Nat /\ AtMost(Len(s)) \in 0 .. Len(s)
  BY LenProperties, CapacityAssumption DEF AtMost
<1>2. m \in Int /\ Len(s) \in Int /\ \A i \in m .. Len(s) : s[i] \in Records
  BY <1>1, ElementOfSeq
<1>3. /\ SubSeq(s, m, Len(s)) \in Seq(Records)
      /\ Len(SubSeq(s, m, Len(s))) = IF m <= Len(s) THEN Len(s) - m + 1 ELSE 0
      /\ \A i \in 1 .. Len(s) - m + 1 : SubSeq(s, m, Len(s))[i] = s[m + i - 1]
  BY <1>2, SubSeqProperties
<1>4. LastOf(s) = SubSeq(s, m, Len(s))
  BY DEF LastOf
<1>5. Len(s) - m + 1 = AtMost(Len(s)) /\ (m <= Len(s) <=> AtMost(Len(s)) > 0)
  BY <1>1
<1>6. \A i \in 1 .. AtMost(Len(s)) : m + i - 1 = Len(s) - AtMost(Len(s)) + i
  BY <1>1
<1>7. Len(LastOf(s)) = AtMost(Len(s))
  BY <1>1, <1>3, <1>4, <1>5
<1>8. \A i \in 1 .. AtMost(Len(s)) : LastOf(s)[i] = s[Len(s) - AtMost(Len(s)) + i]
  <2> HIDE DEF m
  <2> QED BY <1>3, <1>4, <1>5, <1>6
<1> QED BY <1>3, <1>4, <1>7, <1>8

(* Forgetting early what does not fit makes no difference in the end. *)
LEMMA LastOfConcat ==
  ASSUME NEW s \in Seq(Records), NEW t \in Seq(Records)
  PROVE  LastOf(LastOf(s) \o t) = LastOf(s \o t)
<1> DEFINE l == LastOf(s)
           u == l \o t
           v == s \o t
           n == AtMost(Len(v))
           a == LastOf(u)
           b == LastOf(v)
<1>1. Len(s) \in Nat /\ Len(t) \in Nat /\ Capacity \in Nat \ {0}
  BY LenProperties, CapacityAssumption
<1>2. /\ l \in Seq(Records) /\ Len(l) = AtMost(Len(s))
      /\ \A i \in 1 .. AtMost(Len(s)) : l[i] = s[Len(s) - AtMost(Len(s)) + i]
  BY LastOfProperties
<1>3. /\ v \in Seq(Records) /\ Len(v) = Len(s) + Len(t)
      /\ \A i \in 1 .. Len(s) + Len(t) : v[i] = IF i <= Len(s) THEN s[i] ELSE t[i - Len(s)]
  BY ConcatProperties
<1> HIDE DEF l
<1>4. /\ u \in Seq(Records) /\ Len(u) = Len(l) + Len(t)
      /\ \A i \in 1 .. Len(l) + Len(t) : u[i] = IF i <= Len(l) THEN l[i] ELSE t[i - Len(l)]
  BY <1>2, ConcatProperties
<1>5. AtMost(Len(u)) = n /\ n \in 0 .. Len(u) /\ n <= Len(v) /\ Len(l) \in 0 .. Len(s)
  BY <1>1, <1>2, <1>3, <1>4 DEF AtMost
<1> HIDE DEF u, v, n
<1>6. /\ a \in Seq(Records) /\ Len(a) = n
      /\ \A i \in 1 .. n : a[i] = u[Len(u) - n + i]
  <2>1. /\ LastOf(u) \in Seq(Records) /\ Len(LastOf(u)) = AtMost(Len(u))
        /\ \A i \in 1 .. AtMost(Len(u)) : LastOf(u)[i] = u[Len(u) - AtMost(Len(u)) + i]
    BY <1>4, LastOfProperties
  <2> QED BY <2>1, <1>5
<1>7. /\ b \in Seq(Records) /\ Len(b) = n
      /\ \A i \in 1 .. n : b[i] = v[Len(v) - n + i]
  BY <1>3, LastOfProperties DEF n
<1> HIDE DEF a, b
<1>8. ASSUME NEW i \in 1 .. n
      PROVE  a[i] = b[i]
  <2> DEFINE j == Len(u) - n + i
             k == Len(v) - n + i
  <2>1. /\ j \in 1 .. Len(l) + Len(t) /\ k \in 1 .. Len(s) + Len(t)
        /\ k - Len(s) = j - Len(l) /\ (j <= Len(l) <=> k <= Len(s))
    BY <1>1, <1>3, <1>4, <1>5
  <2>2. a[i] = (IF j <= Len(l) THEN l[j] ELSE t[j - Len(l)])
    BY <2>1, <1>4, <1>6
  <2>3. b[i] = (IF k <= Len(s) THEN s[k] ELSE t[k - Len(s)])
    BY <2>1, <1>3, <1>7
  <2>4. ASSUME j <= Len(l)
        PROVE  l[j] = s[k]
    <3> HIDE DEF j, k
    <3>1. j \in 1 .. Len(l) /\ Len(s) - Len(l) + j = k
      BY <2>1, <2>4, <1>1, <1>5
    <3>2. \A m \in 1 .. Len(l) : l[m] = s[Len(s) - Len(l) + m]
      BY <1>2
    <3> QED BY <3>1, <3>2
  <2> HIDE DEF j, k
  <2> QED BY <2>1, <2>2, <2>3, <2>4
<1>9. a = b
  BY <1>6, <1>7, <1>8, SeqEqual
<1> QED BY <1>9 DEF a, b, u, v, l

(* The mapping is the abstract buffer's own way to forget. *)
LEMMA NewestIsLastOf ==
  ASSUME NEW s \in Seq(Records)
  PROVE  Recent!Newest(s) = LastOf(s)
<1>1. Len(s) \in Nat /\ Capacity \in Nat \ {0}
  BY LenProperties, CapacityAssumption
<1>2. CASE Len(s) <= Capacity
  <2>1. AtMost(Len(s)) = Len(s)
    BY <1>1, <1>2 DEF AtMost
  <2>2. LastOf(s) = SubSeq(s, 1, Len(s))
    BY <1>1, <2>1 DEF LastOf
  <2> QED BY <1>2, <2>2, SubSeqFull DEF Recent!Newest
<1>3. CASE Len(s) > Capacity
  <2>1. AtMost(Len(s)) = Capacity /\ ~(Len(s) <= Capacity)
    BY <1>1, <1>3 DEF AtMost
  <2> QED BY <2>1 DEF LastOf, Recent!Newest
<1> QED BY <1>1, <1>2, <1>3

(* Read from head, the array is what is left of the log. *)
LEMMA ContentsIsLastOfLog ==
  ASSUME IInv
  PROVE  Contents = LastOf(log)
<1>1. /\ log \in Seq(Records) /\ Len(log) = tail /\ size = AtMost(tail)
      /\ tail \in Nat /\ size \in 0 .. tail
  BY CapacityAssumption DEF IInv, TypeOK, Counters, AtMost
<1>2. ASSUME NEW i \in 1 .. size
      PROVE  Contents[i] = log[tail - size + i] /\ Contents[i] \in Records
  <2>1. i - 1 \in 0 .. size - 1 /\ tail - size + (i - 1) + 1 = tail - size + i
        /\ tail - size + i \in 1 .. Len(log)
    BY <1>1
  <2>2. Contents[i] = log[tail - size + i]
    BY <2>1 DEF Contents, IInv, ArrayIsWindow
  <2> QED BY <2>1, <2>2, <1>1, ElementOfSeq
<1>3. Contents \in Seq(Records) /\ Len(Contents) = size
  <2>1. Contents \in [1 .. size -> Records] /\ size \in Nat
    BY <1>1, <1>2 DEF Contents
  <2> QED BY <2>1, SeqDef
<1>4. /\ LastOf(log) \in Seq(Records) /\ Len(LastOf(log)) = size
      /\ \A i \in 1 .. size : LastOf(log)[i] = log[tail - size + i]
  BY <1>1, LastOfProperties
<1> QED BY <1>2, <1>3, <1>4, SeqEqual

LEMMA UnwrittenType ==
  ASSUME IInv
  PROVE  Unwritten \in Seq(Records)
<1>1. CASE Writing = {}
  BY <1>1, EmptySeq DEF Unwritten
<1>2. CASE Writing # {}
  BY <1>2 DEF Unwritten, Writing, IInv, TypeOK
<1> QED BY <1>1, <1>2

(* So the value of the mapping can be read off the history. *)
LEMMA MappedBuffer == IInv => BufferIsLastPushed
<1> SUFFICES ASSUME IInv PROVE LastOf(Contents \o Unwritten) = LastOf(Pushed)
  BY DEF BufferIsLastPushed
<1>1. log \in Seq(Records) /\ Unwritten \in Seq(Records)
  BY UnwrittenType DEF IInv, TypeOK
<1> QED BY <1>1, ContentsIsLastOfLog, LastOfConcat DEF Pushed

LEMMA MappedBufferNext == IInv' => BufferIsLastPushed'
  BY MappedBuffer, PTL

(* Who writes, and what is left for them to write. *)
LEMMA UnwrittenOf ==
  ASSUME IInv, NEW w \in Writers, wpc[w] = "writing"
  PROVE  Unwritten = batch[w]
<1>1. \A v \in Writing : v = w
  BY DEF IInv, LocksExclude, Writing
<1>2. w \in Writing
  BY DEF Writing
<1> QED BY <1>1, <1>2 DEF Unwritten

LEMMA NothingUnwritten ==
  ASSUME \A w \in Writers : wpc[w] # "writing"
  PROVE  Unwritten = << >>
  BY DEF Unwritten, Writing

(* A step that changes neither the log nor who writes what is a stutter of *)
(* the buffer.                                                             *)
LEMMA SameUnwritten ==
  ASSUME IInv, IInv', UNCHANGED log,
         \A w \in Writers : wpc[w] = "writing" <=> wpc'[w] = "writing",
         \A w \in Writers : wpc[w] = "writing" => batch'[w] = batch[w]
  PROVE  UNCHANGED LastOf(Contents \o Unwritten)
<1>1. Writing' = Writing
  BY DEF Writing
<1>2. Unwritten' = Unwritten
  BY <1>1 DEF Unwritten, Writing
<1>3. Pushed' = Pushed
  BY <1>2 DEF Pushed
<1>4. LastOf(Pushed)' = LastOf(Pushed)
  BY <1>3 DEF LastOf, AtMost
<1> QED BY <1>4, MappedBuffer, MappedBufferNext DEF BufferIsLastPushed

(* A batch takes effect when its Push gets the lock ... *)
LEMMA LockAdds ==
  ASSUME RInv, IInv', NEW w \in Writers, Lock(w)
  PROVE  Recent!Add(batch[w]) /\ batch[w] \in Batches
<1>1. batch[w] \in Batches /\ batch[w] \in Seq(Records) /\ log \in Seq(Records)
  BY BatchAssumption DEF RInv, WaitingIsWhole, Lock, IInv, TypeOK
<1>2. \A v \in Writers : wpc[v] # "writing"
  BY DEF RInv, IInv, LocksExclude, Lock
<1>3. Unwritten = << >>
  BY <1>2, NothingUnwritten
<1>4. Unwritten' = batch[w]
  <2>1. Writing' = {w}
    BY <1>2 DEF Writing, Lock, RInv, IInv, TypeOK
  <2> QED BY <2>1 DEF Unwritten, Lock
<1>5. Pushed = log /\ Pushed' = log \o batch[w]
  BY <1>1, <1>3, <1>4, ConcatEmptySeq DEF Pushed, Lock
<1>6. LastOf(Contents \o Unwritten) = LastOf(log)
  BY <1>5, MappedBuffer DEF RInv, BufferIsLastPushed
<1>7. LastOf(Contents \o Unwritten)' = LastOf(log \o batch[w])
  BY <1>5, MappedBufferNext DEF LastOf, AtMost, BufferIsLastPushed
<1>8. LastOf(log) \o batch[w] \in Seq(Records)
  BY <1>1, LastOfProperties, ConcatProperties
<1>9. Recent!Newest(LastOf(Contents \o Unwritten) \o batch[w]) = LastOf(log \o batch[w])
  BY <1>1, <1>6, <1>8, NewestIsLastOf, LastOfConcat
<1> QED BY <1>1, <1>7, <1>9 DEF Recent!Add, Lock

(* ... and then moves, record by record, from the batch to the log. *)
LEMMA WriteRecordStutters ==
  ASSUME IInv, IInv', NEW w \in Writers, WriteRecord(w)
  PROVE  UNCHANGED LastOf(Contents \o Unwritten)
<1>1. /\ batch[w] \in Seq(Records) /\ batch[w] # << >> /\ log \in Seq(Records)
      /\ wpc[w] = "writing" /\ wpc'[w] = "writing"
      /\ log' = Append(log, Head(batch[w])) /\ batch'[w] = Tail(batch[w])
  BY DEF IInv, TypeOK, WriteRecord
<1>2. Unwritten = batch[w]
  BY <1>1, UnwrittenOf
<1>3. Unwritten' = batch'[w]
  <2>1. Writing' = Writing
    BY DEF Writing, WriteRecord
  <2>2. \A v \in Writing : v = w
    BY <1>1 DEF IInv, LocksExclude, Writing
  <2>3. w \in Writing
    BY <1>1 DEF Writing
  <2> QED BY <2>1, <2>2, <2>3 DEF Unwritten
<1>4. Pushed' = Pushed
  <2> DEFINE x == Head(batch[w])
             u == Tail(batch[w])
  <2>1. x \in Records /\ u \in Seq(Records) /\ << x >> \in Seq(Records)
    BY <1>1, HeadTailProperties
  <2>2. batch[w] = << x >> \o u
    <3>1. batch[w] = SubSeq(batch[w], 1, Len(batch[w])) /\ Len(batch[w]) \in Nat \ {0}
      BY <1>1, SubSeqFull, EmptySeq
    <3>2. SubSeq(batch[w], 1, Len(batch[w])) = << batch[w][1] >> \o SubSeq(batch[w], 2, Len(batch[w]))
      BY <1>1, <3>1, SubSeqRecursiveFirst
    <3> QED BY <1>1, <3>1, <3>2, TailIsSubSeq
  <2>3. Append(log, x) = log \o << x >>
    BY <1>1, <2>1, AppendIsConcat
  <2>4. (log \o << x >>) \o u = log \o (<< x >> \o u)
    <3> HIDE DEF x, u
    <3> QED BY <1>1, <2>1, ConcatAssociative
  <2> QED BY <1>1, <1>2, <1>3, <2>2, <2>3, <2>4 DEF Pushed
<1>5. LastOf(Pushed)' = LastOf(Pushed)
  BY <1>4 DEF LastOf, AtMost
<1> QED BY <1>5, MappedBuffer, MappedBufferNext DEF BufferIsLastPushed

(* When it unlocks, nothing of it is left. *)
LEMMA UnlockStutters ==
  ASSUME IInv, IInv', NEW w \in Writers, Unlock(w)
  PROVE  UNCHANGED LastOf(Contents \o Unwritten)
<1>1. Unwritten = << >>
  BY UnwrittenOf DEF Unlock
<1>2. \A v \in Writers : wpc'[v] # "writing"
  BY DEF IInv, TypeOK, LocksExclude, Unlock
<1>3. Unwritten' = << >>
  BY <1>2 DEF Unwritten, Writing
<1>4. Pushed' = Pushed
  BY <1>1, <1>3 DEF Pushed, Unlock
<1>5. LastOf(Pushed)' = LastOf(Pushed)
  BY <1>4 DEF LastOf, AtMost
<1> QED BY <1>5, MappedBuffer, MappedBufferNext DEF BufferIsLastPushed

(* A snapshot takes effect when its reader unlocks: no writer is under     *)
(* way, so what was copied is the whole buffer.                            *)
LEMMA RUnlockLooks ==
  ASSUME IInv, IInv', NEW r \in Readers, RUnlock(r)
  PROVE  Recent!Look(r)
<1>1. \A w \in Writers : wpc[w] # "writing"
  BY DEF IInv, LocksExclude, RUnlock
<1>2. Pushed = log
  BY <1>1, NothingUnwritten, ConcatEmptySeq DEF Pushed, IInv, TypeOK
<1>3. LastOf(Contents \o Unwritten) = LastOf(log)
  BY <1>2, MappedBuffer DEF BufferIsLastPushed
<1>4. copy[r] = LastOf(log)
  BY FullCopy DEF LastOf, Window, IInv, Counters
<1>5. UNCHANGED LastOf(Contents \o Unwritten)
  BY SameUnwritten DEF RUnlock
<1> QED BY <1>3, <1>4, <1>5 DEF Recent!Look, RUnlock

LEMMA InitRefines == Init => RInv /\ Recent!Init
<1> SUFFICES ASSUME Init PROVE RInv /\ Recent!Init
  OBVIOUS
<1>1. RInv
  BY InitIInv DEF RInv, WaitingIsWhole, Init
<1>2. Pushed = << >>
  <2>1. Unwritten = << >>
    BY NothingUnwritten DEF Init
  <2> QED BY <2>1, ConcatEmptySeq, EmptySeq DEF Pushed, Init
<1>3. LastOf(<< >>) = << >>
  <2>1. Len(<< >>) = 0
    BY EmptySeq
  <2> QED BY <2>1, CapacityAssumption, SubSeqEmpty DEF LastOf, AtMost
<1>4. LastOf(Contents \o Unwritten) = << >>
  BY <1>1, <1>2, <1>3, MappedBuffer DEF RInv, BufferIsLastPushed
<1> QED BY <1>1, <1>4 DEF Recent!Init, Init

LEMMA NextWaitingIsWhole == RInv /\ [Next]_vars => WaitingIsWhole'
<1> SUFFICES ASSUME RInv, [Next]_vars PROVE WaitingIsWhole'
  OBVIOUS
<1> USE DEF RInv, IInv, TypeOK, WaitingIsWhole
<1>1. ASSUME NEW w \in Writers, NEW b \in Batches, Push(w, b) PROVE WaitingIsWhole'
  BY <1>1 DEF Push
<1>2. ASSUME NEW w \in Writers, Announce(w) \/ Lock(w) \/ WriteRecord(w) \/ Unlock(w)
      PROVE  WaitingIsWhole'
  BY <1>2 DEF Announce, Lock, WriteRecord, Unlock
<1>3. ASSUME NEW r \in Readers, Snapshot(r) \/ RLock(r) \/ CopyElement(r) \/ RUnlock(r)
      PROVE  WaitingIsWhole'
  BY <1>3 DEF Snapshot, RLock, CopyElement, RUnlock
<1>4. CASE UNCHANGED vars
  BY <1>4 DEF vars
<1> QED BY <1>1, <1>2, <1>3, <1>4 DEF Next

LEMMA NextRefines == RInv /\ IInv' /\ [Next]_vars => [Recent!Next]_(Recent!vars)
<1> SUFFICES ASSUME RInv, IInv', [Next]_vars
             PROVE  [Recent!Next]_(Recent!vars)
  OBVIOUS
<1> USE DEF RInv
<1>1. ASSUME NEW w \in Writers, NEW b \in Batches, Push(w, b)
      PROVE  UNCHANGED Recent!vars
  <2>1. UNCHANGED LastOf(Contents \o Unwritten)
    BY <1>1, SameUnwritten DEF Push, IInv, TypeOK
  <2> QED BY <1>1, <2>1 DEF Push, Recent!vars
<1>2. ASSUME NEW w \in Writers, Announce(w)
      PROVE  UNCHANGED Recent!vars
  <2>1. UNCHANGED LastOf(Contents \o Unwritten)
    BY <1>2, SameUnwritten DEF Announce, IInv, TypeOK
  <2> QED BY <1>2, <2>1 DEF Announce, Recent!vars
<1>3. ASSUME NEW w \in Writers, Lock(w)
      PROVE  Recent!Next
  BY <1>3, LockAdds DEF Recent!Next
<1>4. ASSUME NEW w \in Writers, WriteRecord(w)
      PROVE  UNCHANGED Recent!vars
  BY <1>4, WriteRecordStutters DEF WriteRecord, Recent!vars
<1>5. ASSUME NEW w \in Writers, Unlock(w)
      PROVE  UNCHANGED Recent!vars
  BY <1>5, UnlockStutters DEF Unlock, Recent!vars
<1>6. ASSUME NEW r \in Readers, Snapshot(r) \/ RLock(r) \/ CopyElement(r)
      PROVE  UNCHANGED Recent!vars
  <2>1. UNCHANGED <<log, wpc, batch, view>>
    BY <1>6 DEF Snapshot, RLock, CopyElement
  <2>2. UNCHANGED LastOf(Contents \o Unwritten)
    BY <2>1, SameUnwritten
  <2> QED BY <2>1, <2>2 DEF Recent!vars
<1>7. ASSUME NEW r \in Readers, RUnlock(r)
      PROVE  Recent!Next
  BY <1>7, RUnlockLooks DEF Recent!Next
<1>8. CASE UNCHANGED vars
  <2>1. UNCHANGED LastOf(Contents \o Unwritten)
    BY <1>8, SameUnwritten DEF vars
  <2> QED BY <1>8, <2>1 DEF vars, Recent!vars
<1> QED BY <1>1, <1>2, <1>3, <1>4, <1>5, <1>6, <1>7, <1>8 DEF Next

(* Behind its locks the array is an atomic store of the last Capacity      *)
(* records, whatever the handlers do.                                      *)
THEOREM Refinement == Spec => ImplementsRecentFlows
<1>1. RInv /\ [Next]_vars => RInv'
  BY NextIInv, NextWaitingIsWhole DEF RInv
<1>2. RInv' => IInv'
  BY DEF RInv
<1>3. RInv /\ RInv' /\ [Next]_vars => [Recent!Next]_(Recent!vars)
  BY <1>2, NextRefines
<1> QED
  BY InitRefines, <1>1, <1>3, PTL DEF Spec, ImplementsRecentFlows, Recent!Spec
=============================================================================
