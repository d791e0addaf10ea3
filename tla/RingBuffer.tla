----------------------------- MODULE RingBuffer -----------------------------
(***************************************************************************)
(* The control plane's buffer of recent flows (recent/ringbuffer.go): a    *)
(* fixed array filled through a write counter and read from a head index,  *)
(* guarded by a sync.RWMutex.  Ingest handlers Push batches record by      *)
(* record under the write lock; view handlers copy a Snapshot under the    *)
(* read lock.  Several handlers of each kind run at once.                  *)
(*                                                                         *)
(* A Go slice holds elements 0..capacity-1, and so does data.  log is a    *)
(* history variable: every record ever written, in write order.            *)
(***************************************************************************)
EXTENDS Integers, Sequences

CONSTANTS
  Capacity,   \* the size given to recent.New
  Writers,    \* goroutines that call Push
  Readers,    \* goroutines that call Snapshot
  Records,    \* the enriched records that may be pushed
  ZeroRecord, \* what make() puts in an element nobody wrote
  Batches,    \* the batches Push is called with
  MaxPushed   \* bound: records pushed in a behaviour

ASSUME CapacityAssumption == Capacity \in Nat \ {0}
ASSUME BatchAssumption == Batches \subseteq Seq(Records)
ASSUME BoundAssumption == MaxPushed \in Nat

VARIABLES
  data, head, tail, size,  \* the fields of RingBuffer; capacity never changes
  writer,  \* the goroutine whose Lock no other may overtake, while it waits
           \* for readers to leave and while it writes
  readers, \* the goroutines that hold the read lock
  wpc,     \* "idle", "locking" (in Push, behind other writers), "pending"
           \* (behind readers only) or "writing"
  batch,   \* per writer, the records of its batch not yet written
  rpc,     \* "idle", "locking" or "copying"
  copy,    \* per reader, the elements copied so far
  view,    \* per reader, the last snapshot it returned
  log

ring == <<data, head, tail, size>>
vars == <<data, head, tail, size, writer, readers, wpc, batch, rpc, copy, view, log>>

Indices == 0 .. Capacity - 1

-----------------------------------------------------------------------------
(* The pieces of Push and Snapshot on which the rest depends.  The         *)
(* variants are mistakes each of them could be written with; no behaviour  *)
(* of Spec uses them.                                                      *)

WriteIndex(t) == t % Capacity

NextHeadUnwrapped(h, n) == IF n = Capacity THEN h + 1 ELSE h
NextHead(h, n) == IF n = Capacity THEN (h + 1) % Capacity ELSE h

NextSize(n) == IF n = Capacity THEN n ELSE n + 1

ReadIndex(h, i) == (h + i) % Capacity

MayLockBesideReaders == TRUE
MayLock == readers = {}

(* sync.RWMutex: a Lock that waits for readers holds back later RLocks. *)
MayRLockAlways == TRUE
MayRLockBeforePending == \A w \in writer : wpc[w] = "pending"
MayRLock == writer = {}

ReaderReleased(r) == readers \ {r}

-----------------------------------------------------------------------------

Init ==
  /\ data = [i \in Indices |-> ZeroRecord]
  /\ head = 0 /\ tail = 0 /\ size = 0
  /\ writer = {} /\ readers = {}
  /\ wpc = [w \in Writers |-> "idle"]
  /\ batch = [w \in Writers |-> << >>]
  /\ rpc = [r \in Readers |-> "idle"]
  /\ copy = [r \in Readers |-> << >>]
  /\ view = [r \in Readers |-> << >>]
  /\ log = << >>

-----------------------------------------------------------------------------
(* Push *)

Push(w, b) ==
  /\ wpc[w] = "idle"
  /\ Len(log) + Len(b) <= MaxPushed
  /\ wpc' = [wpc EXCEPT ![w] = "locking"]
  /\ batch' = [batch EXCEPT ![w] = b]
  /\ UNCHANGED <<ring, writer, readers, rpc, copy, view, log>>

(* Lock first excludes other writers and announces itself to readers ... *)
Announce(w) ==
  /\ wpc[w] = "locking"
  /\ writer = {}
  /\ writer' = {w}
  /\ wpc' = [wpc EXCEPT ![w] = "pending"]
  /\ UNCHANGED <<ring, readers, batch, rpc, copy, view, log>>

(* ... and then waits until those that read have left. *)
Lock(w) ==
  /\ wpc[w] = "pending"
  /\ MayLock
  /\ wpc' = [wpc EXCEPT ![w] = "writing"]
  /\ UNCHANGED <<ring, writer, readers, batch, rpc, copy, view, log>>

(* One round of the loop over the batch. *)
WriteRecord(w) ==
  /\ wpc[w] = "writing"
  /\ batch[w] # << >>
  /\ data' = [data EXCEPT ![WriteIndex(tail)] = Head(batch[w])]
  /\ head' = NextHead(head, size)
  /\ size' = NextSize(size)
  /\ tail' = tail + 1
  /\ log' = Append(log, Head(batch[w]))
  /\ batch' = [batch EXCEPT ![w] = Tail(@)]
  /\ UNCHANGED <<writer, readers, wpc, rpc, copy, view>>

Unlock(w) ==
  /\ wpc[w] = "writing"
  /\ batch[w] = << >>
  /\ writer' = writer \ {w}
  /\ wpc' = [wpc EXCEPT ![w] = "idle"]
  /\ UNCHANGED <<ring, readers, batch, rpc, copy, view, log>>

-----------------------------------------------------------------------------
(* Snapshot *)

Snapshot(r) ==
  /\ rpc[r] = "idle"
  /\ rpc' = [rpc EXCEPT ![r] = "locking"]
  /\ UNCHANGED <<ring, writer, readers, wpc, batch, copy, view, log>>

RLock(r) ==
  /\ rpc[r] = "locking"
  /\ MayRLock
  /\ readers' = readers \cup {r}
  /\ rpc' = [rpc EXCEPT ![r] = "copying"]
  /\ copy' = [copy EXCEPT ![r] = << >>]
  /\ UNCHANGED <<ring, writer, wpc, batch, view, log>>

CopyElement(r) ==
  /\ rpc[r] = "copying"
  /\ Len(copy[r]) < size
  /\ copy' = [copy EXCEPT ![r] = Append(@, data[ReadIndex(head, Len(@))])]
  /\ UNCHANGED <<ring, writer, readers, wpc, batch, rpc, view, log>>

RUnlock(r) ==
  /\ rpc[r] = "copying"
  /\ Len(copy[r]) >= size
  /\ readers' = ReaderReleased(r)
  /\ view' = [view EXCEPT ![r] = copy[r]]
  /\ rpc' = [rpc EXCEPT ![r] = "idle"]
  /\ UNCHANGED <<ring, writer, wpc, batch, copy, log>>

-----------------------------------------------------------------------------

Next ==
  \/ \E w \in Writers : \E b \in Batches : Push(w, b)
  \/ \E w \in Writers : Announce(w) \/ Lock(w) \/ WriteRecord(w) \/ Unlock(w)
  \/ \E r \in Readers : Snapshot(r) \/ RLock(r) \/ CopyElement(r) \/ RUnlock(r)

Spec == Init /\ [][Next]_vars

(***************************************************************************)
(* Go runs every goroutine that can run, and sync.RWMutex starves nobody:  *)
(* its writers queue for a mutex that is handed on in the end, and Unlock  *)
(* admits the readers that waited.  Announce and RLock are therefore       *)
(* strongly fair.  That a writer gets past the readers follows: they are   *)
(* held back.  Nothing obliges a handler to call Push or Snapshot.         *)
(***************************************************************************)
Fairness ==
  /\ \A w \in Writers : SF_vars(Announce(w)) /\ WF_vars(Lock(w))
  /\ \A w \in Writers : WF_vars(WriteRecord(w)) /\ WF_vars(Unlock(w))
  /\ \A r \in Readers : SF_vars(RLock(r)) /\ WF_vars(CopyElement(r)) /\ WF_vars(RUnlock(r))

FairSpec == Spec /\ Fairness

-----------------------------------------------------------------------------
(* Properties *)

(* Every variable has its type; a record taken from an element that was    *)
(* never written would be a ZeroRecord in copy or view, which this rules   *)
(* out.                                                                    *)
TypeOK ==
  /\ data \in [Indices -> Records \cup {ZeroRecord}]
  /\ head \in Indices
  /\ tail \in Nat
  /\ size \in 0 .. Capacity
  /\ writer \in SUBSET Writers
  /\ readers \in SUBSET Readers
  /\ wpc \in [Writers -> {"idle", "locking", "pending", "writing"}]
  /\ batch \in [Writers -> Seq(Records)]
  /\ rpc \in [Readers -> {"idle", "locking", "copying"}]
  /\ copy \in [Readers -> Seq(Records)]
  /\ view \in [Readers -> Seq(Records)]
  /\ log \in Seq(Records)

(* The n records of log that end at position m. *)
Window(m, n) == SubSeq(log, m - n + 1, m)

AtMost(n) == IF n < Capacity THEN n ELSE Capacity

(* A snapshot is what the buffer promises its readers: for some prefix of  *)
(* the pushed records, the last Capacity of them in push order - no hole,  *)
(* no element older than the window, no mixture of two moments.            *)
SnapshotIsWindow ==
  \A r \in Readers :
    \E m \in 0 .. Len(log) : view[r] = Window(m, AtMost(m))

(* Every Push that waits for the lock gets to write its whole batch and    *)
(* every Snapshot returns, whatever the other handlers do.                 *)
CallsReturn ==
  /\ \A w \in Writers : wpc[w] = "locking" ~> wpc[w] = "idle"
  /\ \A r \in Readers : rpc[r] = "locking" ~> rpc[r] = "idle"

-----------------------------------------------------------------------------
(* Refinement: the elements between head and tail, followed by what the    *)
(* lock holder has still to write, are the abstract buffer.  A batch takes *)
(* effect when its Push gets the lock.                                     *)

Contents == [i \in 1 .. size |-> data[ReadIndex(head, i - 1)]]

Writing == {w \in Writers : wpc[w] = "writing"}

Unwritten == IF Writing = {} THEN << >> ELSE batch[CHOOSE w \in Writing : TRUE]

LastOf(s) == SubSeq(s, Len(s) - AtMost(Len(s)) + 1, Len(s))

Recent == INSTANCE RecentFlows WITH recent <- LastOf(Contents \o Unwritten)

(* Behind its locks the array is an atomic store of the last Capacity      *)
(* records: a batch appears in snapshots entirely or not at all, in order. *)
ImplementsRecentFlows == Recent!Spec
=============================================================================
