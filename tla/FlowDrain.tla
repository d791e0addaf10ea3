----------------------------- MODULE FlowDrain ------------------------------
(***************************************************************************)
(* The collector's side of flow_map: every interval the aggregator drains  *)
(* the capture source (capture/ebpf.go).  Drain reads the map through      *)
(* GetAllFlows (ebpf/ebpf.go) entry by entry, while the program of         *)
(* TcMonitor keeps counting, and turns the cumulative counters into the    *)
(* traffic since the last drain by subtracting the previous reading.       *)
(*                                                                         *)
(* Go maps return the zero value for a key they lack and an entry of       *)
(* flow_map never has zero packets, so a reading is a total function that  *)
(* is Zero where the Go map has no entry.                                  *)
(***************************************************************************)
EXTENDS TcMonitor

CONSTANTS
  LocalIPs,        \* the addresses of the host (main.go, enumLocalIPs)
  CValueSize,      \* bytes of struct flow_stats in tc-monitor.c
  GoValueSize,     \* bytes of bpfFlowStats in ebpf.go
  SyscallsMayFail  \* whether a map lookup may fail for another reason

ASSUME SizeAssumption == {CValueSize, GoValueSize} \subseteq Nat
ASSUME FailureAssumption == SyscallsMayFail \in BOOLEAN

VARIABLES
  drain,    \* "idle", "iterating" or "failed" (the last Drain returned an error)
  visited,  \* keys the iteration has passed
  due,      \* keys it must still pass: in the map when it began, not yet seen
  visits,   \* entries read by the iteration
  snapshot, \* the reading being built by GetAllFlows
  previous, \* the reading of the last successful Drain
  exported  \* history: the sum of what Drain returned for every key

drainVars == <<drain, visited, due, visits, snapshot, previous, exported>>
vars == <<tcVars, drainVars>>

Zero == [packets |-> 0, bytes |-> 0]

(* cilium/ebpf refuses to unmarshal a value whose Go type does not consume *)
(* all its bytes.                                                          *)
Decodable == CValueSize = GoValueSize

(* The iterator gives up after max_entries + 1 entries; it gets there only *)
(* when deletions make it start again (FlowExpiry).                        *)
MaxVisits == Cardinality(Slots) + 1

(* A flow is exported if exactly one of its ends is this host. *)
Exportable(k) == (k.src \in LocalIPs) # (k.dst \in LocalIPs)

Below(cur, prev) == cur.packets < prev.packets \/ cur.bytes < prev.bytes

(* A counter below its previous reading is taken for a new one.  The       *)
(* operators before Delta, and the one before Baseline, are mistakes they  *)
(* could be written with; no behaviour uses them.                          *)
DeltaReversed(cur, prev) ==
  IF Below(cur, prev) THEN cur
  ELSE [packets |-> prev.packets - cur.packets, bytes |-> prev.bytes - cur.bytes]
DeltaCumulative(cur, prev) == cur
DeltaOfKnown(cur, prev) ==
  IF Below(cur, prev) THEN cur
  ELSE IF prev.packets = 0 THEN prev
  ELSE [packets |-> cur.packets - prev.packets, bytes |-> cur.bytes - prev.bytes]
Delta(cur, prev) ==
  IF Below(cur, prev) THEN cur
  ELSE [packets |-> cur.packets - prev.packets, bytes |-> cur.bytes - prev.bytes]

BaselineKept == previous
Baseline == snapshot

Plus(a, b) == [packets |-> a.packets + b.packets, bytes |-> a.bytes + b.bytes]

DrainInit ==
  /\ Init
  /\ drain = "idle"
  /\ visited = {} /\ due = {} /\ visits = 0
  /\ snapshot = [k \in Keys |-> Zero]
  /\ previous = [k \in Keys |-> Zero]
  /\ exported = [k \in Keys |-> Zero]

-----------------------------------------------------------------------------

BeginDrain ==
  /\ drain # "iterating"
  /\ drain' = "iterating"
  /\ due' = Tracked
  /\ UNCHANGED <<tcVars, visited, visits, snapshot, previous, exported>>

(* The iterator reaches an entry and copies its counters.  Entries created *)
(* during the iteration may be reached or not.                             *)
Visit(k) ==
  /\ drain = "iterating"
  /\ Decodable
  /\ k \in Tracked \ visited
  /\ visits < MaxVisits
  /\ visits' = visits + 1
  /\ visited' = visited \cup {k}
  /\ due' = due \ {k}
  /\ snapshot' = [snapshot EXCEPT ![k] =
       [packets |-> elem[flow_map[k]].packets, bytes |-> elem[flow_map[k]].bytes]]
  /\ UNCHANGED <<tcVars, drain, previous, exported>>

EndIteration ==
  /\ visited' = {} /\ due' = {} /\ visits' = 0
  /\ snapshot' = [k \in Keys |-> Zero]

(* Drain returns the error before it touches its own state. *)
FailDrain ==
  /\ drain = "iterating"
  /\ drain' = "failed"
  /\ EndIteration
  /\ UNCHANGED <<tcVars, previous, exported>>

(* A system call of the iteration fails, or what it read does not decode. *)
EntryFails ==
  /\ ~Decodable \/ SyscallsMayFail
  /\ Tracked # {}
  /\ FailDrain

(* The loop over the snapshot, which touches nothing shared, and the new   *)
(* baseline: only what this reading contains.                              *)
FinishDrain ==
  /\ drain = "iterating"
  /\ due = {}
  /\ visits < MaxVisits
  /\ exported' = [k \in Keys |-> IF Exportable(k)
                    THEN Plus(exported[k], Delta(snapshot[k], previous[k]))
                    ELSE exported[k]]
  /\ previous' = Baseline
  /\ drain' = "idle"
  /\ EndIteration
  /\ UNCHANGED tcVars

Drain ==
  \/ BeginDrain
  \/ \E k \in Keys : Visit(k)
  \/ EntryFails
  \/ FinishDrain

Next ==
  \/ TcNext /\ UNCHANGED drainVars
  \/ Drain

Spec == DrainInit /\ [][Next]_vars

-----------------------------------------------------------------------------
(* Properties *)

(* The variables of the drain have their types. *)
DrainTypeOK ==
  /\ TypeOK
  /\ drain \in {"idle", "iterating", "failed"}
  /\ visited \subseteq Keys /\ due \subseteq Keys
  /\ visits \in 0 .. MaxVisits
  /\ {snapshot, previous, exported} \subseteq [Keys -> [packets : Nat, bytes : Nat]]

(* No frame and no byte is handed on twice.  Holds as long as frames are   *)
(* not counted in parallel, also when flows are deleted and come back.     *)
NoDoubleCount ==
  \A k \in Keys : /\ exported[k].packets <= tally[k].packets
                  /\ exported[k].bytes <= tally[k].bytes

(* capture/ebpf.go:56: "New flow (prev = 0) or counter reset".  The map is *)
(* never cleared here, so a reading below the previous one, which the code *)
(* takes for a reset, never occurs.                                        *)
LowerReadingMeansReset ==
  drain = "iterating" => \A k \in visited : ~Below(snapshot[k], previous[k])

(* ebpf.go:33: "bpfFlowStats matches C struct flow_stats".  No drain fails *)
(* when the system calls it makes succeed.                                 *)
EntriesDecode == drain # "failed"
=============================================================================
