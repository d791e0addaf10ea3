----------------------------- MODULE FlowExpiry -----------------------------
(***************************************************************************)
(* The functions of ebpf/ebpf.go that remove flows from flow_map,          *)
(* CleanExpiredFlows and DeleteFlow, running beside the drain and the      *)
(* kernel program.  The deployed collector calls neither, so they are kept *)
(* out of FlowDrain: this module is about what they would do to it.  Its   *)
(* behaviours without a deletion are those of the deployed collector.      *)
(***************************************************************************)
EXTENDS FlowDrain

CONSTANT Timeout \* the timeout CleanExpiredFlows is called with

ASSUME TimeoutAssumption == Timeout \in Nat

VARIABLES
  clean,    \* "idle", "scanning" or "deleting"
  nowNs,    \* the time CleanExpiredFlows read when it was called
  scanned,  \* keys its iteration has passed
  toDelete,
  deleted   \* history: keys that were ever removed

cleanVars == <<clean, nowNs, scanned, toDelete, deleted>>
allVars == <<vars, cleanVars>>

ExpiryInit ==
  /\ DrainInit
  /\ clean = "idle" /\ nowNs = 0 /\ scanned = {} /\ toDelete = {}
  /\ deleted = {}

(* The comparison comes before the unsigned subtraction. *)
IsExpired(last_seen) == nowNs > last_seen /\ nowNs - last_seen > Timeout

BeginClean ==
  /\ clean = "idle"
  /\ clean' = "scanning"
  /\ nowNs' = clock
  /\ UNCHANGED <<vars, scanned, toDelete, deleted>>

Scan(k) ==
  /\ clean = "scanning"
  /\ Decodable
  /\ k \in Tracked \ scanned
  /\ scanned' = scanned \cup {k}
  /\ toDelete' = IF IsExpired(elem[flow_map[k]].last_seen) THEN toDelete \cup {k} ELSE toDelete
  /\ UNCHANGED <<vars, clean, nowNs, deleted>>

(* Any error of the iteration ends the call; nothing is deleted. *)
FailScan ==
  /\ clean = "scanning"
  /\ (~Decodable \/ SyscallsMayFail) /\ Tracked # {}
  /\ clean' = "idle"
  /\ nowNs' = 0 /\ scanned' = {} /\ toDelete' = {}
  /\ UNCHANGED <<vars, deleted>>

EndScan ==
  /\ clean = "scanning"
  /\ Tracked \subseteq scanned
  /\ clean' = IF toDelete = {} THEN "idle" ELSE "deleting"
  /\ nowNs' = 0
  /\ scanned' = {}
  /\ UNCHANGED <<vars, toDelete, deleted>>

(* Deleting the entry an iterator stands on sends it back to the start. *)
Remove(k) ==
  /\ flow_map' = [flow_map EXCEPT ![k] = NoSlot]
  /\ deleted' = deleted \cup {k}
  /\ due' = due \ {k}
  /\ visited' \in {visited \ {k}} \cup (IF k \in visited THEN {{}} ELSE {})
  /\ UNCHANGED <<elem, handshake_map, events, clock, arrived, locals, tally,
                 drain, visits, snapshot, previous, exported>>

(* Deleting a key that is gone already is logged and skipped. *)
DeleteExpired(k) ==
  /\ clean = "deleting"
  /\ k \in toDelete
  /\ IF k \in Tracked THEN Remove(k) ELSE UNCHANGED <<vars, deleted>>
  /\ toDelete' = toDelete \ {k}
  /\ clean' = IF toDelete' = {} THEN "idle" ELSE clean
  /\ UNCHANGED <<nowNs, scanned>>

DeleteFlow(k) ==
  /\ k \in Tracked
  /\ Remove(k)
  /\ UNCHANGED <<clean, nowNs, scanned, toDelete>>

(* A drain whose iterator was sent back too often fails. *)
IterationAborts ==
  /\ visits = MaxVisits
  /\ FailDrain
  /\ UNCHANGED cleanVars

ExpiryNext ==
  \/ Next /\ UNCHANGED cleanVars
  \/ IterationAborts
  \/ BeginClean \/ FailScan \/ EndScan
  \/ \E k \in Keys : Scan(k) \/ DeleteExpired(k) \/ DeleteFlow(k)

(***************************************************************************)
(* A CPU finishes the frame it handles, the ticker of the aggregator keeps *)
(* calling Drain, and Drain runs to its end.  System calls may fail often, *)
(* but not for ever: without that, nothing need ever be handed on.  No     *)
(* frame has to arrive and nobody has to clean.                            *)
(***************************************************************************)
Fairness ==
  /\ \A c \in Cpus : WF_allVars(Run(c) /\ UNCHANGED <<drainVars, cleanVars>>)
  /\ WF_allVars(BeginDrain /\ UNCHANGED cleanVars)
  /\ \A k \in Keys : WF_allVars(Visit(k) /\ UNCHANGED cleanVars)
  /\ WF_allVars(IterationAborts)
  /\ WF_allVars(FinishDrain /\ UNCHANGED cleanVars)
  /\ <>[][~EntryFails]_allVars

ExpirySpec == ExpiryInit /\ [][ExpiryNext]_allVars

FairSpec == ExpirySpec /\ Fairness

-----------------------------------------------------------------------------
(* Properties *)

(* While frames are not counted in parallel, what was handed on for a flow *)
(* that was never deleted is its last reading, neither more nor less: the  *)
(* deltas telescope across drains that interleave with the program, that   *)
(* fail, and whose iterator is sent back by the deletion of another flow.  *)
DeltasTelescope ==
  \A k \in Keys \ deleted : exported[k] = IF Exportable(k) THEN previous[k] ELSE Zero

(* Once no more frames come, everything that was counted for a flow of     *)
(* this host that was never deleted has been handed on.                    *)
CatchesUp ==
  <>[](\A k \in Tracked \ deleted :
         Exportable(k) => exported[k] = [packets |-> tally[k].packets,
                                         bytes |-> tally[k].bytes])
=============================================================================
