-------------------------- MODULE FlowDrainProofs ---------------------------
(***************************************************************************)
(* First, the drain of a flow map that nothing is deleted from, as in the  *)
(* deployed collector, on a host that steers the frames of every flow to   *)
(* one CPU.  What a drain reads is then exact (TcMonitorProofs), and no    *)
(* reading is below the one before; hence what Drain returned adds up to   *)
(* the last reading of every flow, whatever flows are created and          *)
(* whichever drains fail in between.                                       *)
(*                                                                         *)
(* Then, the same beside CleanExpiredFlows and DeleteFlow, on one CPU: on  *)
(* several, one may still hold the element of a removed flow while another *)
(* gives it away, wherever frames are steered.  A flow that comes back is  *)
(* counted from zero again, so neither of the two facts above is left: of  *)
(* what was handed on one can only say where it was                        *)
(* counted, before the element the flow has now or in it (FitsIn).         *)
(***************************************************************************)
EXTENDS FlowExpiry, TcMonitorProofs, FiniteSetTheorems

(* The frames of every flow go to one CPU; there is one CPU.               *)
FlowsSteered == \A k \in Keys : Alone(k)
OneCpu == \A c, d \in Cpus : c = d

Reading == [packets : Nat, bytes : Nat]

DrainTypes ==
  /\ drain \in {"idle", "iterating", "failed"}
  /\ visits \in 0 .. MaxVisits
  /\ snapshot \in [Keys -> Reading] /\ previous \in [Keys -> Reading]
  /\ exported \in [Keys -> Reading]

(* What an iteration has passed and must still pass is in the map.         *)
IterationRight ==
  /\ visited \subseteq Tracked /\ due \subseteq Tracked
  /\ drain # "iterating" => visited = {} /\ due = {} /\ visits = 0
  /\ \A k \in Keys \ visited : snapshot[k] = Zero

(* A flow that was read before will be read again.                         *)
ReadAgain ==
  \A k \in Keys : previous[k] # Zero =>
    k \in Tracked /\ (drain = "iterating" => k \in visited \cup due)

AtMost(r, t) == r.packets <= t.packets /\ r.bytes <= t.bytes

(* Readings lie one above the other, and below what was counted.           *)
ReadingsGrow ==
  \A k \in Keys :
    /\ AtMost(previous[k], tally[k])
    /\ k \in visited => AtMost(previous[k], snapshot[k]) /\ AtMost(snapshot[k], tally[k])

(* The deltas telescope.                                                   *)
Telescoped == \A k \in Keys : exported[k] = IF Exportable(k) THEN previous[k] ELSE Zero

ReadingInv == ReadAgain /\ ReadingsGrow /\ Telescoped

DrainInv == DrainTypes /\ IterationRight /\ ReadingInv

LEMMA MaxVisitsType == MaxVisits \in Nat \ {0}
<1>1. Cardinality(Slots) \in Nat
  BY FiniteAssumption, FS_CardinalityType
<1> QED BY <1>1 DEF MaxVisits

LEMMA ZeroType == Zero \in Reading /\ Zero.packets = 0 /\ Zero.bytes = 0
  BY DEF Zero, Reading

(* What is handed on for a reading that is not below the one before makes  *)
(* up the difference.                                                      *)
LEMMA DeltaMakesUp ==
  ASSUME NEW r \in Reading, NEW q \in Reading, AtMost(q, r)
  PROVE  ~Below(r, q) /\ Plus(q, Delta(r, q)) = r
<1>1. ~Below(r, q)
  BY DEF AtMost, Below, Reading
<1>2. Delta(r, q) = [packets |-> r.packets - q.packets, bytes |-> r.bytes - q.bytes]
  BY <1>1 DEF Delta
<1>3. /\ q.packets \in Nat /\ r.packets \in Nat /\ q.packets + (r.packets - q.packets) = r.packets
      /\ q.bytes \in Nat /\ r.bytes \in Nat /\ q.bytes + (r.bytes - q.bytes) = r.bytes
  BY DEF Reading
<1>4. Plus(q, Delta(r, q)) = [packets |-> r.packets, bytes |-> r.bytes]
  BY <1>2, <1>3 DEF Plus
<1>5. r = [packets |-> r.packets, bytes |-> r.bytes]
  BY DEF Reading
<1> QED BY <1>1, <1>4, <1>5

LEMMA AtMostChain ==
  ASSUME NEW q \in Reading, NEW t, NEW u,
         t.packets \in Nat, t.bytes \in Nat, u.packets \in Nat, u.bytes \in Nat,
         AtMost(q, t), t.packets <= u.packets, t.bytes <= u.bytes
  PROVE  AtMost(q, u)
  BY DEF AtMost, Reading

(* Also of readings that fell, which happens where CPUs count in parallel. *)
LEMMA DeltaType ==
  ASSUME NEW r \in Reading, NEW q \in Reading, NEW x \in Reading
  PROVE  Plus(x, Delta(r, q)) \in Reading
<1>1. Delta(r, q) \in Reading
  BY DEF Delta, Below, Reading
<1> QED BY <1>1 DEF Plus, Reading

(* The types hold on any number of CPUs.                                   *)
LEMMA DrainTypesHold ==
  ASSUME TypeOK, DrainTypes, IterationRight, [Next]_vars
  PROVE  DrainTypes' /\ IterationRight'
<1>1. CASE [TcNext]_tcVars /\ UNCHANGED drainVars
  BY <1>1, FlowMapGrows DEF drainVars, DrainTypes, IterationRight
<1>2. CASE Drain
  <2>1. Tracked' = Tracked
    BY <1>2 DEF Drain, BeginDrain, Visit, EntryFails, FailDrain, FinishDrain, tcVars, maps, Tracked
  <2>2. CASE BeginDrain
    BY <2>1, <2>2 DEF BeginDrain, DrainTypes, IterationRight
  <2>3. ASSUME NEW k \in Keys, Visit(k) PROVE DrainTypes' /\ IterationRight'
    <3> DEFINE r == [packets |-> elem[flow_map[k]].packets, bytes |-> elem[flow_map[k]].bytes]
    <3>1. r \in Reading
      <4>1. flow_map[k] \in Slots
        BY <2>3 DEF Visit, Tracked, TypeOK
      <4> QED BY <4>1 DEF TypeOK, Stats, Reading
    <3>2. /\ drain = "iterating" /\ drain' = drain /\ k \in Tracked
          /\ visits' = visits + 1 /\ visits < MaxVisits
          /\ visited' = visited \cup {k} /\ due' = due \ {k}
          /\ snapshot' = [snapshot EXCEPT ![k] = r]
          /\ UNCHANGED <<previous, exported>>
      BY <2>3 DEF Visit
    <3> HIDE DEF r
    <3> QED BY <2>1, <3>1, <3>2, MaxVisitsType DEF DrainTypes, IterationRight
  <2>4. ASSUME EndIteration, drain' \in {"idle", "failed"},
               previous' \in {previous, snapshot}, exported' \in [Keys -> Reading]
        PROVE  DrainTypes' /\ IterationRight'
    BY <2>4, ZeroType, MaxVisitsType DEF EndIteration, DrainTypes, IterationRight
  <2>5. CASE EntryFails
    BY <2>4, <2>5 DEF EntryFails, FailDrain, DrainTypes
  <2>6. CASE FinishDrain
    <3>1. exported' = [k \in Keys |-> IF Exportable(k)
                        THEN Plus(exported[k], Delta(snapshot[k], previous[k]))
                        ELSE exported[k]]
      BY <2>6 DEF FinishDrain
    <3>2. exported' \in [Keys -> Reading]
      BY <3>1, DeltaType DEF DrainTypes
    <3> QED BY <2>4, <2>6, <3>2 DEF FinishDrain, Baseline
  <2> QED BY <1>2, <2>2, <2>3, <2>5, <2>6 DEF Drain
<1> QED BY <1>1, <1>2 DEF Next, vars

LEMMA DrainStarts == DrainInit => DrainInv
<1> SUFFICES ASSUME DrainInit PROVE DrainInv
  OBVIOUS
<1>1. DrainTypes
  BY ZeroType, MaxVisitsType DEF DrainInit, DrainTypes
<1>2. IterationRight /\ ReadAgain /\ Telescoped
  BY DEF DrainInit, IterationRight, ReadAgain, Telescoped
<1>3. ReadingsGrow
  BY ZeroType DEF DrainInit, Init, ReadingsGrow, AtMost
<1> QED BY <1>1, <1>2, <1>3 DEF DrainInv, ReadingInv

(* While the kernel program runs, flows are only added and counts only     *)
(* grow.                                                                   *)
LEMMA ProgramKeepsDrain ==
  ASSUME TypeOK, DrainInv, [TcNext]_tcVars, UNCHANGED drainVars
  PROVE  ReadingInv'
<1> USE DEF drainVars
<1>1. Tracked \subseteq Tracked'
  BY FlowMapGrows
<1>2. ReadAgain' /\ Telescoped'
  BY <1>1 DEF DrainInv, ReadingInv, ReadAgain, Telescoped
<1>3. ASSUME NEW k \in Keys, NEW r \in Reading, AtMost(r, tally[k]) PROVE AtMost(r, tally'[k])
  BY <1>3, TallyGrows, AtMostChain
<1>4. ReadingsGrow'
  BY <1>3 DEF DrainInv, ReadingInv, DrainTypes, ReadingsGrow
<1> QED BY <1>2, <1>4 DEF ReadingInv

LEMMA BeginKeeps ==
  ASSUME DrainInv, BeginDrain
  PROVE  ReadingInv'
<1>1. Tracked' = Tracked
  BY DEF BeginDrain, tcVars, maps, Tracked
<1>2. ReadAgain'
  BY <1>1 DEF BeginDrain, DrainInv, ReadingInv, ReadAgain
<1>3. ReadingsGrow' /\ Telescoped'
  BY DEF BeginDrain, DrainInv, ReadingInv, ReadingsGrow, Telescoped, tcVars
<1> QED BY <1>2, <1>3 DEF ReadingInv

LEMMA VisitKeeps ==
  ASSUME FlowsSteered, TypeOK, CountsExact, DrainInv, NEW k \in Keys, Visit(k)
  PROVE  ReadingInv'
<1> DEFINE r == [packets |-> elem[flow_map[k]].packets, bytes |-> elem[flow_map[k]].bytes]
<1>1. r \in Reading /\ AtMost(r, tally[k]) /\ AtMost(tally[k], r)
  <2>1. /\ r.packets = tally[k].packets /\ r.bytes = tally[k].bytes
        /\ tally[k].packets \in Nat /\ tally[k].bytes \in Nat
    BY DEF FlowsSteered, Visit, CountsExact, TypeOK
  <2> QED BY <2>1 DEF Reading, AtMost
<1>2. /\ drain = "iterating" /\ drain' = drain /\ k \in Tracked
      /\ visits' = visits + 1 /\ visits < MaxVisits
      /\ visited' = visited \cup {k} /\ due' = due \ {k}
      /\ snapshot' = [snapshot EXCEPT ![k] = r]
      /\ UNCHANGED <<previous, exported, tally>> /\ Tracked' = Tracked
  BY DEF Visit, tcVars, maps, Tracked
<1> HIDE DEF r
<1>3. ReadAgain'
  BY <1>2 DEF DrainInv, ReadingInv, ReadAgain
<1>4. AtMost(previous[k], r)
  <2>1. previous[k] \in Reading /\ AtMost(previous[k], tally[k])
    BY DEF DrainInv, ReadingInv, DrainTypes, ReadingsGrow
  <2>2. tally[k].packets \in Nat /\ tally[k].bytes \in Nat
    BY DEF TypeOK
  <2> QED BY <1>1, <2>1, <2>2 DEF AtMost, Reading
<1>5. ReadingsGrow'
  BY <1>1, <1>2, <1>4 DEF DrainInv, ReadingInv, DrainTypes, ReadingsGrow
<1>6. Telescoped'
  BY <1>2 DEF DrainInv, ReadingInv, Telescoped
<1> QED BY <1>3, <1>5, <1>6 DEF ReadingInv

LEMMA FailKeeps ==
  ASSUME DrainInv, FailDrain
  PROVE  ReadingInv'
<1>1. /\ drain' = "failed" /\ visited' = {} /\ due' = {} /\ visits' = 0
      /\ snapshot' = [j \in Keys |-> Zero]
      /\ UNCHANGED <<previous, exported, tally>> /\ Tracked' = Tracked
  BY DEF FailDrain, EndIteration, tcVars, maps, Tracked
<1>2. ReadAgain'
  BY <1>1 DEF DrainInv, ReadingInv, ReadAgain
<1>3. ReadingsGrow' /\ Telescoped'
  BY <1>1 DEF DrainInv, ReadingInv, ReadingsGrow, Telescoped
<1> QED BY <1>2, <1>3 DEF ReadingInv

LEMMA FinishKeeps ==
  ASSUME TypeOK, DrainInv, FinishDrain
  PROVE  ReadingInv'
<1>1. /\ drain = "iterating" /\ due = {} /\ drain' = "idle"
      /\ visited' = {} /\ due' = {} /\ visits' = 0
      /\ snapshot' = [j \in Keys |-> Zero]
      /\ previous' = snapshot /\ UNCHANGED tally /\ Tracked' = Tracked
      /\ exported' = [j \in Keys |-> IF Exportable(j)
                        THEN Plus(exported[j], Delta(snapshot[j], previous[j]))
                        ELSE exported[j]]
  BY DEF FinishDrain, EndIteration, Baseline, tcVars, maps, Tracked
<1>2. ASSUME NEW k \in Keys
      PROVE  AtMost(previous[k], snapshot[k]) /\ AtMost(snapshot[k], tally[k])
  <2>1. CASE k \in visited
    BY <2>1 DEF DrainInv, ReadingInv, ReadingsGrow
  <2>2. CASE k \notin visited
    <3>1. snapshot[k] = Zero /\ previous[k] = Zero
      BY <1>1, <2>2 DEF DrainInv, ReadingInv, IterationRight, ReadAgain
    <3>2. tally[k].packets \in Nat /\ tally[k].bytes \in Nat
      BY DEF TypeOK
    <3> QED BY <3>1, <3>2, ZeroType DEF AtMost
  <2> QED BY <2>1, <2>2
<1>3. ASSUME NEW k \in Keys
      PROVE  exported'[k] = IF Exportable(k) THEN snapshot[k] ELSE Zero
  <2>1. snapshot[k] \in Reading /\ previous[k] \in Reading
    BY DEF DrainInv, ReadingInv, DrainTypes
  <2>2. Plus(previous[k], Delta(snapshot[k], previous[k])) = snapshot[k]
    BY <1>2, <2>1, DeltaMakesUp
  <2>3. exported'[k] = IF Exportable(k)
                         THEN Plus(exported[k], Delta(snapshot[k], previous[k]))
                         ELSE exported[k]
    BY <1>1
  <2>4. exported[k] = IF Exportable(k) THEN previous[k] ELSE Zero
    BY DEF DrainInv, ReadingInv, Telescoped
  <2> QED BY <2>2, <2>3, <2>4
<1>4. ReadAgain'
  BY <1>1 DEF DrainInv, IterationRight, ReadAgain
<1>5. ReadingsGrow' /\ Telescoped'
  BY <1>1, <1>2, <1>3 DEF ReadingsGrow, Telescoped
<1> QED BY <1>4, <1>5 DEF ReadingInv

LEMMA DrainStepHolds ==
  ASSUME FlowsSteered, TypeOK, CountsExact, DrainInv, [Next]_vars
  PROVE  DrainInv'
<1>1. DrainTypes' /\ IterationRight'
  BY DrainTypesHold DEF DrainInv
<1>2. CASE [TcNext]_tcVars /\ UNCHANGED drainVars
  BY <1>1, <1>2, ProgramKeepsDrain DEF DrainInv
<1>3. CASE Drain
  <2>1. ReadingInv'
    BY <1>3, BeginKeeps, VisitKeeps, FailKeeps, FinishKeeps DEF Drain, EntryFails
  <2> QED BY <1>1, <2>1 DEF DrainInv
<1> QED BY <1>2, <1>3 DEF Next, vars

(* The drain only reads: beside it the kernel program behaves as alone.    *)
THEOREM ProgramUndisturbed == Spec => TcSpec
<1>1. DrainInit => Init
  BY DEF DrainInit
<1>2. [Next]_vars => [TcNext]_tcVars
  BY DEF Next, vars, Drain, BeginDrain, Visit, EntryFails, FailDrain, FinishDrain
<1> QED BY <1>1, <1>2, PTL DEF Spec, TcSpec

LEMMA DrainInvariant ==
  ASSUME FlowsSteered
  PROVE  Spec => [](TypeOK /\ CountsExact /\ DrainInv)
<1>1. Spec => []TypeOK /\ []CountsExact
  BY ProgramUndisturbed, TypeCorrect, CountsExactly, PTL
<1>2. TypeOK /\ CountsExact /\ DrainInv /\ [Next]_vars => DrainInv'
  BY DrainStepHolds
<1>3. DrainInit /\ [][Next]_vars /\ []TypeOK /\ []CountsExact => []DrainInv
  BY <1>2, DrainStarts, PTL
<1> QED BY <1>1, <1>3, PTL DEF Spec

(* The types of the drain's variables, for any flows and addresses and any *)
(* number of CPUs.                                                         *)
THEOREM DrainTypeCorrect == Spec => []DrainTypeOK
<1>1. TypeOK /\ DrainTypes /\ IterationRight => DrainTypeOK
  BY DEF DrainTypes, IterationRight, DrainTypeOK, Reading, Tracked
<1>2. DrainInit => DrainTypes /\ IterationRight
  BY DrainStarts DEF DrainInv, ReadingInv
<1>3. Spec => []TypeOK
  BY ProgramUndisturbed, TypeCorrect, PTL
<1>4. DrainInit /\ [][Next]_vars /\ []TypeOK => [](DrainTypes /\ IterationRight)
  BY <1>2, DrainTypesHold, PTL
<1> QED BY <1>1, <1>3, <1>4, PTL DEF Spec

(* No frame and no byte is handed on twice.                                *)
THEOREM DrainsCountOnce ==
  ASSUME FlowsSteered
  PROVE  Spec => []NoDoubleCount
<1>1. TypeOK /\ DrainInv => NoDoubleCount
  <2> SUFFICES ASSUME TypeOK, DrainInv, NEW k \in Keys
               PROVE  exported[k].packets <= tally[k].packets /\ exported[k].bytes <= tally[k].bytes
    BY DEF NoDoubleCount
  <2>1. tally[k].packets \in Nat /\ tally[k].bytes \in Nat
    BY DEF TypeOK
  <2> QED BY <2>1, ZeroType DEF DrainInv, ReadingInv, Telescoped, ReadingsGrow, AtMost
<1> QED BY <1>1, DrainInvariant, PTL

(* Where every flow is steered to one CPU, capture/ebpf.go:56 is right: a  *)
(* reading below the previous one would mean a reset, and none occurs.     *)
(* Where several CPUs count a flow it is not.                              *)
THEOREM SteeredReadingsNeverFall ==
  ASSUME FlowsSteered
  PROVE  Spec => []LowerReadingMeansReset
<1>1. DrainInv => LowerReadingMeansReset
  <2> SUFFICES ASSUME DrainInv, NEW k \in visited PROVE ~Below(snapshot[k], previous[k])
    BY DEF LowerReadingMeansReset
  <2>1. /\ k \in Keys /\ AtMost(previous[k], snapshot[k])
        /\ snapshot[k] \in Reading /\ previous[k] \in Reading
    BY DEF DrainInv, ReadingInv, DrainTypes, IterationRight, ReadingsGrow, Tracked
  <2> QED BY <2>1, DeltaMakesUp
<1> QED BY <1>1, DrainInvariant, PTL

-----------------------------------------------------------------------------
(* Flows are deleted *)

(* What a drain that reaches a flow reads; Zero for a flow it cannot find. *)
Counters(k) ==
  IF k \in Tracked
    THEN [packets |-> elem[flow_map[k]].packets, bytes |-> elem[flow_map[k]].bytes]
    ELSE Zero

(* What a CPU is about to store back is still what the element holds: with *)
(* one CPU nobody else counts, and a deletion does not touch the element.  *)
LoadedCurrent ==
  \A c \in Cpus :
    /\ pc[c] = "storePackets" => reg[c] = elem[stats[c]].packets
    /\ pc[c] = "storeBytes" => reg[c] = elem[stats[c]].bytes

(* The element a CPU holds is still that of its flow, or nobody's: only    *)
(* the CPU itself could give it away.                                      *)
StillHeld ==
  \A c \in Cpus : pc[c] \notin Unheld => stats[c] = flow_map[Key(c)] \/ stats[c] \in FreeSlots

ProgramInv == Injective /\ LoadedCurrent /\ StillHeld

(* Between drains nothing is read, and a flow that is due was not read.    *)
IterationShape ==
  /\ visited \subseteq Keys /\ due \subseteq Keys
  /\ drain # "iterating" => due = {} /\ snapshot = [k \in Keys |-> Zero]
  /\ \A k \in due : snapshot[k] = Zero

(* The readings of a flow that was never deleted lie one above the other,  *)
(* and an iteration leaves out no flow that was read before.               *)
KeptReadingsGrow ==
  \A k \in Keys \ deleted :
    /\ AtMost(previous[k], Counters(k)) /\ AtMost(snapshot[k], Counters(k))
    /\ drain = "iterating" /\ k \notin due => AtMost(previous[k], snapshot[k])

(* Of the t frames and bytes handled for a flow whose element holds c, x   *)
(* were handed on and p were in the last reading.  Either what was handed  *)
(* on was counted before the element of now, or c went up from p and x is  *)
(* at most what was counted before and p.                                  *)
FitsIn(x, p, c, t) ==
  \/ AtMost(Plus(x, c), t)
  \/ AtMost(p, c) /\ AtMost(Plus(x, c), Plus(t, p))

Fits(k) == FitsIn(exported[k], previous[k], Counters(k), tally[k])

(* This is to hold if the drain under way ends with what it has read.      *)
WillFit(k) ==
  FitsIn(Plus(exported[k], Delta(snapshot[k], previous[k])), snapshot[k], Counters(k), tally[k])

Accounted ==
  \A k \in Keys :
    IF Exportable(k)
      THEN Fits(k) /\ (drain = "iterating" /\ k \notin due => WillFit(k))
      ELSE exported[k] = Zero

HandedOnRight == KeptReadingsGrow /\ DeltasTelescope /\ Accounted

ExpiryInv == TypeOK /\ DrainTypes /\ IterationShape /\ ProgramInv /\ HandedOnRight

-----------------------------------------------------------------------------
(* The steps *)

(* The program runs beside a standing drain, or the drain takes a step     *)
(* that leaves the maps alone, or a flow is removed.                       *)
LEMMA ExpirySteps ==
  ASSUME [ExpiryNext]_allVars
  PROVE  \/ [TcNext]_tcVars /\ UNCHANGED <<drainVars, deleted>>
         \/ /\ BeginDrain \/ FailDrain \/ FinishDrain \/ \E k \in Keys : Visit(k)
            /\ UNCHANGED <<tcVars, deleted>>
         \/ \E k \in Tracked : Remove(k)
<1>1. CASE Next /\ UNCHANGED cleanVars
  <2>1. CASE TcNext /\ UNCHANGED drainVars
    BY <1>1, <2>1 DEF cleanVars
  <2>2. CASE Drain
    <3>1. BeginDrain \/ FailDrain \/ FinishDrain \/ \E k \in Keys : Visit(k)
      BY <2>2 DEF Drain, EntryFails
    <3>2. UNCHANGED tcVars
      BY <3>1 DEF BeginDrain, Visit, FailDrain, FinishDrain
    <3> QED BY <1>1, <3>1, <3>2 DEF cleanVars
  <2> QED BY <1>1, <2>1, <2>2 DEF Next
<1>2. CASE IterationAborts
  BY <1>2 DEF IterationAborts, FailDrain, cleanVars
<1>3. CASE BeginClean \/ FailScan \/ EndScan \/ \E k \in Keys : Scan(k)
  BY <1>3 DEF BeginClean, FailScan, EndScan, Scan, vars
<1>4. ASSUME NEW k \in Keys, DeleteExpired(k) \/ DeleteFlow(k)
      PROVE  UNCHANGED <<vars, deleted>> \/ (k \in Tracked /\ Remove(k))
  <2>1. CASE DeleteExpired(k) /\ k \notin Tracked
    <3>1. UNCHANGED <<vars, deleted>>
      BY <2>1 DEF DeleteExpired
    <3> QED BY <3>1
  <2>2. CASE DeleteExpired(k) /\ k \in Tracked
    BY <2>2 DEF DeleteExpired
  <2>3. CASE DeleteFlow(k)
    BY <2>3 DEF DeleteFlow
  <2> QED BY <1>4, <2>1, <2>2, <2>3
<1>5. CASE UNCHANGED allVars
  BY <1>5 DEF allVars, vars, cleanVars
<1>6. UNCHANGED <<vars, deleted>> => [TcNext]_tcVars /\ UNCHANGED <<drainVars, deleted>>
  BY DEF vars
<1> QED BY <1>1, <1>2, <1>3, <1>4, <1>5, <1>6 DEF ExpiryNext

(* The reading a visit takes. *)
LEMMA VisitReads ==
  ASSUME TypeOK, DrainTypes, NEW k \in Keys, Visit(k)
  PROVE  /\ Counters(k) \in Reading
         /\ snapshot' = [snapshot EXCEPT ![k] = Counters(k)]
<1>1. k \in Tracked /\ flow_map[k] \in Slots
  BY DEF Visit, Tracked, TypeOK
<1> QED BY <1>1 DEF Visit, Counters, TypeOK, Stats, Reading

LEMMA CountersType ==
  ASSUME TypeOK, NEW k \in Keys
  PROVE  Counters(k) \in Reading
<1>1. CASE k \in Tracked
  <2>1. flow_map[k] \in Slots
    BY <1>1 DEF Tracked, TypeOK
  <2> QED BY <1>1, <2>1 DEF Counters, TypeOK, Stats, Reading
<1>2. CASE k \notin Tracked
  BY <1>2, ZeroType DEF Counters
<1> QED BY <1>1, <1>2

CountersTyped == \A k \in Keys : Counters(k) \in Reading

LEMMA CountersTypeNext == TypeOK' => CountersTyped'
<1>1. TypeOK => CountersTyped
  BY CountersType DEF CountersTyped
<1> QED BY <1>1, PTL

LEMMA TallyTypes ==
  ASSUME TypeOK, NEW k \in Keys
  PROVE  tally[k].packets \in Nat /\ tally[k].bytes \in Nat
  BY DEF TypeOK

(* What a removal changes. *)
LEMMA RemoveStep ==
  ASSUME TypeOK, NEW k \in Tracked, Remove(k)
  PROVE  /\ k \in Keys /\ deleted' = deleted \cup {k} /\ due' = due \ {k} /\ visited' \subseteq visited
         /\ UNCHANGED <<elem, handshake_map, events, clock, arrived, locals, tally,
                        drain, visits, snapshot, previous, exported>>
         /\ \A j \in Keys : flow_map'[j] = IF j = k THEN NoSlot ELSE flow_map[j]
         /\ Tracked' = Tracked \ {k}
         /\ \A j \in Keys : Counters(j)' = IF j = k THEN Zero ELSE Counters(j)
         /\ FreeSlots \subseteq FreeSlots'
<1>1. /\ k \in Keys /\ deleted' = deleted \cup {k} /\ due' = due \ {k} /\ visited' \subseteq visited
      /\ UNCHANGED <<elem, handshake_map, events, clock, arrived, locals, tally,
                     drain, visits, snapshot, previous, exported>>
      /\ flow_map' = [flow_map EXCEPT ![k] = NoSlot]
      /\ flow_map \in [Keys -> Slots \cup {NoSlot}]
  BY DEF Remove, Tracked, TypeOK
<1>2. \A j \in Keys : flow_map'[j] = IF j = k THEN NoSlot ELSE flow_map[j]
  BY <1>1
<1>3. Tracked' = Tracked \ {k}
  BY <1>1, <1>2 DEF Tracked
<1>4. \A j \in Keys : Counters(j)' = IF j = k THEN Zero ELSE Counters(j)
  BY <1>1, <1>2, <1>3 DEF Counters
<1>5. FreeSlots \subseteq FreeSlots'
  BY <1>2, SentinelAssumption DEF FreeSlots
<1> QED BY <1>1, <1>2, <1>3, <1>4, <1>5

-----------------------------------------------------------------------------
(* The types, on any number of CPUs *)

LEMMA ExpiryTypesStart == ExpiryInit => TypeOK /\ DrainTypes /\ IterationShape
<1> SUFFICES ASSUME ExpiryInit PROVE TypeOK /\ DrainTypes /\ IterationShape
  OBVIOUS
<1>1. TypeOK /\ DrainTypes
  BY InitInvariant, DrainStarts DEF ExpiryInit, DrainInit, DrainInv, IInv
<1>2. IterationShape
  BY DEF ExpiryInit, DrainInit, IterationShape
<1> QED BY <1>1, <1>2

LEMMA ExpiryTypesHold ==
  ASSUME TypeOK, DrainTypes, IterationShape, [ExpiryNext]_allVars
  PROVE  TypeOK' /\ DrainTypes' /\ IterationShape'
<1>1. CASE [TcNext]_tcVars /\ UNCHANGED <<drainVars, deleted>>
  <2>1. TypeOK'
    BY <1>1, SharedTypesPreserved, LocalTypesPreserved DEF TypeOK, SharedTypes, LocalTypes, Unheld, Tally
  <2> QED BY <1>1, <2>1 DEF drainVars, DrainTypes, IterationShape
<1>2. ASSUME UNCHANGED tcVars PROVE TypeOK'
  BY <1>2 DEF TypeOK, tcVars, maps, locals
<1>3. CASE BeginDrain
  BY <1>2, <1>3 DEF BeginDrain, DrainTypes, IterationShape, Tracked
<1>4. ASSUME NEW k \in Keys, Visit(k) PROVE TypeOK' /\ DrainTypes' /\ IterationShape'
  <2> DEFINE r == Counters(k)
  <2>1. /\ drain = "iterating" /\ drain' = drain
        /\ visits' = visits + 1 /\ visits < MaxVisits
        /\ visited' = visited \cup {k} /\ due' = due \ {k}
        /\ r \in Reading /\ snapshot' = [snapshot EXCEPT ![k] = r]
        /\ UNCHANGED <<tcVars, previous, exported>>
    BY <1>4, VisitReads DEF Visit
  <2> HIDE DEF r
  <2>2. DrainTypes'
    BY <2>1, MaxVisitsType DEF DrainTypes
  <2>3. IterationShape'
    BY <2>1 DEF DrainTypes, IterationShape
  <2> QED BY <1>2, <2>1, <2>2, <2>3
<1>5. ASSUME EndIteration, drain' \in {"idle", "failed"}, UNCHANGED tcVars,
             previous' \in {previous, snapshot}, exported' \in [Keys -> Reading]
      PROVE  TypeOK' /\ DrainTypes' /\ IterationShape'
  <2>1. DrainTypes'
    BY <1>5, ZeroType, MaxVisitsType DEF EndIteration, DrainTypes
  <2>2. IterationShape'
    BY <1>5 DEF EndIteration, IterationShape
  <2> QED BY <1>2, <1>5, <2>1, <2>2
<1>6. CASE FailDrain
  BY <1>5, <1>6 DEF FailDrain, DrainTypes
<1>7. CASE FinishDrain
  <2>1. exported' = [k \in Keys |-> IF Exportable(k)
                      THEN Plus(exported[k], Delta(snapshot[k], previous[k]))
                      ELSE exported[k]]
    BY <1>7 DEF FinishDrain
  <2>2. exported' \in [Keys -> Reading]
    BY <2>1, DeltaType DEF DrainTypes
  <2> QED BY <1>5, <1>7, <2>2 DEF FinishDrain, Baseline
<1>8. ASSUME NEW k \in Tracked, Remove(k) PROVE TypeOK' /\ DrainTypes' /\ IterationShape'
  <2>1. TypeOK'
    BY <1>8 DEF Remove, TypeOK, locals
  <2>2. DrainTypes' /\ IterationShape'
    BY <1>8, RemoveStep DEF DrainTypes, IterationShape
  <2> QED BY <2>1, <2>2
<1> QED BY <1>1, <1>3, <1>4, <1>6, <1>7, <1>8, ExpirySteps

(* The types of the drain's variables hold also when flows are deleted.    *)
THEOREM ExpiryTypeCorrect == ExpirySpec => []DrainTypeOK
<1>1. TypeOK /\ DrainTypes /\ IterationShape => DrainTypeOK
  BY DEF DrainTypes, IterationShape, DrainTypeOK, Reading
<1> QED BY <1>1, ExpiryTypesStart, ExpiryTypesHold, PTL DEF ExpirySpec

-----------------------------------------------------------------------------
(* The kernel program, when flows may vanish under it *)

LEMMA ProgramInvStart == Init => ProgramInv
  BY DEF Init, ProgramInv, Injective, LoadedCurrent, StillHeld, Unheld

LEMMA LoadedCurrentPreserved ==
  ASSUME OneCpu, TypeOK, LoadedCurrent, [TcNext]_tcVars
  PROVE  LoadedCurrent'
<1> LocalTypes
  BY TypeHalves
<1>1. CASE UNCHANGED <<flow_map, elem, handshake_map, arrived, locals, tally>>
  BY <1>1 DEF LoadedCurrent, locals
<1>2. ASSUME NEW c \in Cpus, CpuStep(c)
      PROVE  /\ pc'[c] = "storePackets" => reg'[c] = elem'[stats'[c]].packets
             /\ pc'[c] = "storeBytes" => reg'[c] = elem'[stats'[c]].bytes
  <2>1. ASSUME LoadPackets(c)
        PROVE  pc'[c] = "storePackets" /\ reg'[c] = elem'[stats'[c]].packets
    BY <2>1 DEF LoadPackets, Goto, LocalTypes, maps
  <2>2. ASSUME LoadBytes(c)
        PROVE  pc'[c] = "storeBytes" /\ reg'[c] = elem'[stats'[c]].bytes
    BY <2>2 DEF LoadBytes, Goto, LocalTypes, maps
  <2> QED BY <1>2, <2>1, <2>2, OwnLocals
<1> QED BY <1>1, <1>2, CpuSteps DEF OneCpu, LoadedCurrent

LEMMA StillHeldPreserved ==
  ASSUME OneCpu, TypeOK, StillHeld, [TcNext]_tcVars
  PROVE  StillHeld'
<1> LocalTypes
  BY TypeHalves
<1>1. CASE UNCHANGED <<flow_map, elem, handshake_map, arrived, locals, tally>>
  BY <1>1 DEF StillHeld, locals, Key, FreeSlots
<1>2. ASSUME NEW c \in Cpus, CpuStep(c), pc'[c] \notin Unheld
      PROVE  stats'[c] = flow_map'[frame'[c].key] \/ stats'[c] \in FreeSlots'
  <2>1. CASE Lookup(c) /\ stats'[c] = flow_map[Key(c)]
    <3>1. flow_map' = flow_map /\ frame' = frame
      BY <2>1 DEF Lookup, maps
    <3> QED BY <2>1, <3>1 DEF Key
  <2>2. CASE pc[c] \notin Unheld /\ stats'[c] = stats[c] /\ frame'[c] = frame[c]
    <3>1. \A d \in Cpus : ~Insert(d)
      BY <2>2 DEF OneCpu, Insert, Unheld
    <3>2. flow_map' = flow_map
      BY <3>1, FlowMapStep
    <3> QED BY <2>2, <3>2 DEF StillHeld, Key, FreeSlots
  <2> QED BY <1>2, <2>1, <2>2, OwnLocals
<1> QED BY <1>1, <1>2, CpuSteps DEF OneCpu, StillHeld, Key

(* A store counts for the flow whose element it hits, if any.              *)
LEMMA StoreHits ==
  ASSUME OneCpu, TypeOK, ProgramInv, NEW c \in Cpus, NEW k \in Tracked,
         StorePackets(c) \/ StoreBytes(c), flow_map[k] = stats[c]
  PROVE  k = Key(c)
<1>1. Key(c) \in Keys /\ k \in Keys
  BY StoreAdds DEF Tracked
<1>2. stats[c] \notin FreeSlots
  BY <1>1 DEF FreeSlots
<1>3. stats[c] = flow_map[Key(c)] /\ flow_map[k] # NoSlot
  BY <1>2 DEF ProgramInv, StillHeld, StorePackets, StoreBytes, Unheld, Tracked
<1> QED BY <1>1, <1>3 DEF ProgramInv, Injective

(* What can be read of a flow never becomes less while the program runs,   *)
(* and never grows by more than what was handled.                          *)
LEMMA CountersGrow ==
  ASSUME OneCpu, TypeOK, TypeOK', ProgramInv, [TcNext]_tcVars, NEW k \in Keys
  PROVE  /\ AtMost(Counters(k), Counters(k)')
         /\ tally[k].packets + Counters(k)'.packets <= tally'[k].packets + Counters(k).packets
         /\ tally[k].bytes + Counters(k)'.bytes <= tally'[k].bytes + Counters(k).bytes
<1> DEFINE c0 == Counters(k)
           c1 == Counters(k)'
           Grow == /\ c0.packets <= c1.packets /\ c0.bytes <= c1.bytes
                   /\ tally[k].packets + c1.packets <= tally'[k].packets + c0.packets
                   /\ tally[k].bytes + c1.bytes <= tally'[k].bytes + c0.bytes
<1> SharedTypes /\ LocalTypes
  BY TypeHalves
<1>1. /\ c0.packets \in Nat /\ c0.bytes \in Nat
      /\ tally[k].packets \in Nat /\ tally[k].bytes \in Nat
      /\ tally'[k].packets \in Nat /\ tally'[k].bytes \in Nat
      /\ tally[k].packets <= tally'[k].packets /\ tally[k].bytes <= tally'[k].bytes
  <2>1. c0 \in Reading
    BY CountersType
  <2> HIDE DEF c0
  <2> QED BY <2>1, TallyGrows DEF Reading
<1>2. k \in Tracked =>
        /\ flow_map[k] \in Slots /\ c0.packets = elem[flow_map[k]].packets
        /\ c0.bytes = elem[flow_map[k]].bytes
  BY DEF Counters, Tracked, SharedTypes
<1>3. k \in Tracked' =>
        c1.packets = elem'[flow_map'[k]].packets /\ c1.bytes = elem'[flow_map'[k]].bytes
  BY DEF Counters
<1>4. /\ k \notin Tracked => c0.packets = 0 /\ c0.bytes = 0
      /\ k \notin Tracked' => c1.packets = 0 /\ c1.bytes = 0
  BY ZeroType DEF Counters
<1> HIDE DEF c0, c1
<1>5. ASSUME flow_map' = flow_map,
             k \in Tracked => /\ elem'[flow_map[k]].packets = elem[flow_map[k]].packets
                              /\ elem'[flow_map[k]].bytes = elem[flow_map[k]].bytes
      PROVE  Grow
  <2>1. k \in Tracked <=> k \in Tracked'
    BY <1>5 DEF Tracked
  <2>2. c1.packets = c0.packets /\ c1.bytes = c0.bytes
    BY <1>2, <1>3, <1>4, <1>5, <2>1
  <2> QED BY <1>1, <2>2
<1>6. ASSUME ~ \E c \in Cpus : Insert(c) \/ StorePackets(c) \/ StoreBytes(c)
      PROVE  Grow
  <2>1. flow_map' = flow_map
    BY <1>6, FlowMapStep
  <2>2. k \in Tracked => /\ elem'[flow_map[k]].packets = elem[flow_map[k]].packets
                         /\ elem'[flow_map[k]].bytes = elem[flow_map[k]].bytes
    BY <1>2, <1>6, CountersKept
  <2> QED BY <1>5, <2>1, <2>2
<1>7. ASSUME NEW c \in Cpus, Insert(c) PROVE Grow
  <2>1. Key(c) \in Keys /\ frame[c] \in Packets /\ frame[c].size \in Nat /\ now[c] \in Nat
    BY <1>7, InsertTallies
  <2> HIDE DEF Key
  <2>2. CASE ~CanInsert(Key(c))
    BY <1>5, <1>7, <2>2 DEF Insert
  <2>3. CASE CanInsert(Key(c))
    <3>1. PICK s \in FreeSlots :
             /\ flow_map' = [flow_map EXCEPT ![Key(c)] = s]
             /\ elem' = [elem EXCEPT ![s] = NewStats(frame[c], now[c])]
      BY <1>7, <2>3 DEF Insert
    <3>2. s \in Slots /\ s # NoSlot /\ \A j \in Keys : flow_map[j] # s
      BY SentinelAssumption DEF FreeSlots
    <3>3. CASE k # Key(c)
      <4>1. flow_map'[k] = flow_map[k]
        BY <2>1, <3>1, <3>3 DEF SharedTypes
      <4>2. k \in Tracked => elem'[flow_map[k]] = elem[flow_map[k]]
        BY <1>2, <3>1, <3>2 DEF SharedTypes
      <4>3. k \in Tracked <=> k \in Tracked'
        BY <4>1 DEF Tracked
      <4>4. c1.packets = c0.packets /\ c1.bytes = c0.bytes
        BY <1>2, <1>3, <1>4, <4>1, <4>2, <4>3
      <4> QED BY <1>1, <4>4
    <3>4. CASE k = Key(c)
      <4>1. flow_map'[k] = s /\ elem'[s] = NewStats(frame[c], now[c])
        BY <2>1, <3>1, <3>2, <3>4 DEF SharedTypes
      <4>2. elem'[s].packets = 1 /\ elem'[s].bytes = frame[c].size
        BY <2>1, <4>1, NewStatsType
      <4>3. k \in Tracked' /\ k \notin Tracked
        BY <2>3, <3>2, <3>4, <4>1 DEF Tracked, CanInsert
      <4>4. /\ tally'[k].packets = tally[k].packets + 1
            /\ tally'[k].bytes = tally[k].bytes + frame[c].size
        BY <1>7, <3>4, InsertTallies
      <4>5. c0.packets = 0 /\ c0.bytes = 0 /\ c1.packets = 1 /\ c1.bytes = frame[c].size
        BY <1>3, <1>4, <4>1, <4>2, <4>3
      <4> QED BY <1>1, <2>1, <4>4, <4>5
    <3> QED BY <3>3, <3>4
  <2> QED BY <2>2, <2>3
<1>8. ASSUME NEW c \in Cpus, StorePackets(c) \/ StoreBytes(c) PROVE Grow
  <2>1. stats[c] \in Slots /\ frame[c].size \in Nat /\ reg[c] \in Nat
    BY <1>8, StoreAdds DEF LocalTypes
  <2>2. flow_map' = flow_map
    BY <1>8 DEF StorePackets, StoreBytes
  <2>3. CASE k \in Tracked /\ flow_map[k] = stats[c]
    <3>1. k = Key(c) /\ k \in Tracked'
      BY <1>8, <2>2, <2>3, StoreHits DEF Tracked
    <3>2. CASE StorePackets(c)
      <4>1. reg[c] = c0.packets
        BY <1>2, <2>3, <3>2 DEF ProgramInv, LoadedCurrent, StorePackets
      <4>2. elem'[stats[c]].packets = reg[c] + 1 /\ elem'[stats[c]].bytes = elem[stats[c]].bytes
        BY <2>1, <3>2, ElemAt DEF StorePackets, SharedTypes
      <4>3. tally'[k].packets = tally[k].packets + 1 /\ tally'[k].bytes = tally[k].bytes
        BY <3>1, <3>2, StoreAdds
      <4>4. c1.packets = c0.packets + 1 /\ c1.bytes = c0.bytes
        BY <1>2, <1>3, <2>2, <2>3, <3>1, <4>1, <4>2
      <4> QED BY <1>1, <4>3, <4>4
    <3>3. CASE StoreBytes(c)
      <4>1. reg[c] = c0.bytes
        BY <1>2, <2>3, <3>3 DEF ProgramInv, LoadedCurrent, StoreBytes
      <4>2. /\ elem'[stats[c]].bytes = reg[c] + frame[c].size
            /\ elem'[stats[c]].packets = elem[stats[c]].packets
        BY <2>1, <3>3, ElemAt DEF StoreBytes, SharedTypes
      <4>3. tally'[k].bytes = tally[k].bytes + frame[c].size /\ tally'[k].packets = tally[k].packets
        BY <3>1, <3>3, StoreAdds
      <4>4. c1.bytes = c0.bytes + frame[c].size /\ c1.packets = c0.packets
        BY <1>2, <1>3, <2>2, <2>3, <3>1, <4>1, <4>2
      <4> QED BY <1>1, <2>1, <4>3, <4>4
    <3> QED BY <1>8, <3>2, <3>3
  <2>4. CASE ~(k \in Tracked /\ flow_map[k] = stats[c])
    <3>1. k \in Tracked => /\ elem'[flow_map[k]].packets = elem[flow_map[k]].packets
                           /\ elem'[flow_map[k]].bytes = elem[flow_map[k]].bytes
      BY <1>2, <1>8, <2>1, <2>4, ElemAt DEF StorePackets, StoreBytes, SharedTypes
    <3> QED BY <1>5, <2>2, <3>1
  <2> QED BY <2>3, <2>4
<1>9. Grow
  BY <1>6, <1>7, <1>8
<1> QED BY <1>9 DEF AtMost, c0, c1

(* The program's own invariant survives everything a drain or a deletion   *)
(* does: a removed flow only frees the slot another CPU may still hold.    *)
LEMMA ProgramInvHolds ==
  ASSUME OneCpu, TypeOK, ProgramInv, [ExpiryNext]_allVars
  PROVE  ProgramInv'
<1>1. CASE [TcNext]_tcVars
  BY <1>1, FlowMapGrows, LoadedCurrentPreserved, StillHeldPreserved DEF ProgramInv
<1>2. CASE UNCHANGED tcVars
  BY <1>2, <1>1
<1>3. ASSUME NEW k \in Tracked, Remove(k) PROVE ProgramInv'
  <2>1. /\ UNCHANGED <<elem, locals>> /\ FreeSlots \subseteq FreeSlots' /\ k \in Keys
        /\ \A j \in Keys : flow_map'[j] = IF j = k THEN NoSlot ELSE flow_map[j]
    BY <1>3, RemoveStep
  <2>2. Injective'
    BY <2>1 DEF ProgramInv, Injective
  <2>3. LoadedCurrent'
    BY <2>1 DEF ProgramInv, LoadedCurrent, locals
  <2>4. ASSUME NEW c \in Cpus, pc[c] \notin Unheld
        PROVE  stats[c] = flow_map'[Key(c)] \/ stats[c] \in FreeSlots'
    <3>1. Key(c) \in Keys /\ stats[c] \in Slots
      BY <2>4, PacketKeys DEF TypeOK, Unheld, Key
    <3>2. CASE Key(c) # k \/ stats[c] # flow_map[k]
      BY <2>1, <2>4, <3>1, <3>2 DEF ProgramInv, StillHeld
    <3>3. CASE Key(c) = k /\ stats[c] = flow_map[k]
      <4>1. \A j \in Keys : flow_map'[j] # stats[c]
        BY <2>1, <3>1, <3>3, SentinelAssumption DEF ProgramInv, Injective
      <4> QED BY <3>1, <4>1 DEF FreeSlots
    <3> QED BY <3>2, <3>3
  <2>5. StillHeld'
    BY <2>1, <2>4 DEF StillHeld, locals, Key
  <2> QED BY <2>2, <2>3, <2>5 DEF ProgramInv
<1> QED BY <1>1, <1>2, <1>3, ExpirySteps

-----------------------------------------------------------------------------
(* The arithmetic of one flow.  A number x of frames (or bytes) was handed *)
(* on, p was in the last reading, the element holds c, and t were handled. *)

LEMMA FitsGrow ==
  ASSUME NEW x \in Reading, NEW p \in Reading, NEW c \in Reading, NEW d \in Reading,
         NEW t, NEW u, t.packets \in Nat, t.bytes \in Nat, u.packets \in Nat, u.bytes \in Nat,
         AtMost(c, d), t.packets + d.packets <= u.packets + c.packets,
         t.bytes + d.bytes <= u.bytes + c.bytes, FitsIn(x, p, c, t)
  PROVE  FitsIn(x, p, d, u)
<1>1. /\ x.packets \in Nat /\ x.bytes \in Nat /\ p.packets \in Nat /\ p.bytes \in Nat
      /\ c.packets \in Nat /\ c.bytes \in Nat /\ d.packets \in Nat /\ d.bytes \in Nat
  BY DEF Reading
<1>2. CASE AtMost(Plus(x, c), t)
  BY <1>1, <1>2 DEF FitsIn, AtMost, Plus
<1>3. CASE AtMost(p, c) /\ AtMost(Plus(x, c), Plus(t, p))
  BY <1>1, <1>3 DEF FitsIn, AtMost, Plus
<1> QED BY <1>2, <1>3 DEF FitsIn

LEMMA FitsGone ==
  ASSUME NEW x \in Reading, NEW p \in Reading, NEW c \in Reading,
         NEW t, t.packets \in Nat, t.bytes \in Nat, FitsIn(x, p, c, t)
  PROVE  AtMost(x, t) /\ FitsIn(x, p, Zero, t)
<1>1. /\ x.packets \in Nat /\ x.bytes \in Nat /\ p.packets \in Nat /\ p.bytes \in Nat
      /\ c.packets \in Nat /\ c.bytes \in Nat
  BY DEF Reading
<1>2. AtMost(x, t)
  BY <1>1 DEF FitsIn, AtMost, Plus
<1>3. AtMost(Plus(x, Zero), t)
  BY <1>1, <1>2, ZeroType DEF AtMost, Plus
<1> QED BY <1>2, <1>3 DEF FitsIn

LEMMA FitsRead ==
  ASSUME NEW x \in Reading, NEW p \in Reading, NEW c \in Reading,
         NEW t, t.packets \in Nat, t.bytes \in Nat, FitsIn(x, p, c, t)
  PROVE  FitsIn(Plus(x, Delta(c, p)), c, c, t)
<1>1. /\ x.packets \in Nat /\ x.bytes \in Nat /\ p.packets \in Nat /\ p.bytes \in Nat
      /\ c.packets \in Nat /\ c.bytes \in Nat
  BY DEF Reading
<1> DEFINE y == Plus(x, Delta(c, p))
<1>2. y \in Reading /\ AtMost(y, t)
  <2>1. y \in Reading
    BY DeltaType
  <2>2. CASE Below(c, p)
    <3>1. y.packets = x.packets + c.packets /\ y.bytes = x.bytes + c.bytes
      BY <2>2 DEF Delta, Plus
    <3>2. AtMost(Plus(x, c), t)
      BY <1>1, <2>2 DEF FitsIn, Below, AtMost
    <3> QED BY <2>1, <3>1, <3>2 DEF AtMost, Plus
  <2>3. CASE ~Below(c, p)
    <3>1. /\ y.packets = x.packets + (c.packets - p.packets) /\ p.packets <= c.packets
          /\ y.bytes = x.bytes + (c.bytes - p.bytes) /\ p.bytes <= c.bytes
      BY <1>1, <2>3 DEF Delta, Plus, Below
    <3>2. x.packets + c.packets <= t.packets + p.packets /\ x.bytes + c.bytes <= t.bytes + p.bytes
      BY <1>1 DEF FitsIn, AtMost, Plus
    <3> HIDE DEF y
    <3> QED BY <1>1, <2>1, <3>1, <3>2 DEF AtMost
  <2> QED BY <2>1, <2>2, <2>3
<1> HIDE DEF y
<1>3. y.packets \in Nat /\ y.bytes \in Nat
  BY <1>2 DEF Reading
<1>4. AtMost(c, c) /\ AtMost(Plus(y, c), Plus(t, c))
  BY <1>1, <1>2, <1>3 DEF AtMost, Plus
<1>5. FitsIn(y, c, c, t)
  BY <1>4 DEF FitsIn
<1> QED BY <1>5 DEF y

(* A flow that was not found hands on nothing. *)
LEMMA FitsUnread ==
  ASSUME NEW x \in Reading, NEW p \in Reading,
         NEW t, t.packets \in Nat, t.bytes \in Nat, AtMost(x, t)
  PROVE  FitsIn(Plus(x, Delta(Zero, p)), Zero, Zero, t)
<1>1. /\ x.packets \in Nat /\ x.bytes \in Nat /\ p.packets \in Nat /\ p.bytes \in Nat
  BY DEF Reading
<1>2. Delta(Zero, p).packets = 0 /\ Delta(Zero, p).bytes = 0
  BY <1>1, ZeroType DEF Delta, Below
<1> DEFINE y == Plus(x, Delta(Zero, p))
<1>3. y.packets = x.packets /\ y.bytes = x.bytes
  BY <1>1, <1>2 DEF Plus
<1> HIDE DEF y
<1>4. AtMost(Plus(y, Zero), t)
  BY <1>1, <1>3, ZeroType DEF AtMost, Plus
<1>5. FitsIn(y, Zero, Zero, t)
  BY <1>4 DEF FitsIn
<1> QED BY <1>5 DEF y

-----------------------------------------------------------------------------
(* What was handed on *)

LEMMA FlowTypes ==
  ASSUME TypeOK, DrainTypes, NEW k \in Keys
  PROVE  /\ Counters(k) \in Reading /\ exported[k] \in Reading
         /\ previous[k] \in Reading /\ snapshot[k] \in Reading
         /\ Plus(exported[k], Delta(snapshot[k], previous[k])) \in Reading
         /\ tally[k].packets \in Nat /\ tally[k].bytes \in Nat
  BY CountersType, TallyTypes, DeltaType DEF DrainTypes

LEMMA AtMostTransitive ==
  ASSUME NEW q \in Reading, NEW r \in Reading, NEW u \in Reading, AtMost(q, r), AtMost(r, u)
  PROVE  AtMost(q, u)
  BY DEF AtMost, Reading

LEMMA HandedOnStart == ExpiryInit => HandedOnRight
<1> SUFFICES ASSUME ExpiryInit PROVE HandedOnRight
  OBVIOUS
<1>1. DrainInit /\ Init /\ drain = "idle" /\ TypeOK
  BY ExpiryTypesStart DEF ExpiryInit, DrainInit
<1>2. ASSUME NEW k \in Keys
      PROVE  /\ Counters(k) = Zero /\ exported[k] = Zero /\ previous[k] = Zero /\ snapshot[k] = Zero
             /\ tally[k].packets = 0 /\ tally[k].bytes = 0
  BY <1>1 DEF DrainInit, Init, Counters, Tracked
<1>3. AtMost(Zero, Zero)
  BY ZeroType DEF AtMost
<1>4. KeptReadingsGrow /\ DeltasTelescope
  BY <1>1, <1>2, <1>3 DEF KeptReadingsGrow, DeltasTelescope
<1>5. ASSUME NEW k \in Keys PROVE Fits(k)
  <2>1. AtMost(Plus(Zero, Zero), tally[k])
    BY <1>2, ZeroType DEF AtMost, Plus
  <2> QED BY <1>2, <2>1 DEF Fits, FitsIn
<1>6. Accounted
  BY <1>1, <1>2, <1>5 DEF Accounted
<1> QED BY <1>4, <1>6 DEF HandedOnRight

LEMMA ProgramKeepsAccount ==
  ASSUME OneCpu, ExpiryInv, TypeOK', [TcNext]_tcVars, UNCHANGED <<drainVars, deleted>>
  PROVE  HandedOnRight'
<1> USE DEF drainVars
<1> TypeOK /\ DrainTypes
  BY DEF ExpiryInv
<1>1. ASSUME NEW k \in Keys, NEW r \in Reading, AtMost(r, Counters(k))
      PROVE  AtMost(r, Counters(k)')
  <2>1. Counters(k) \in Reading /\ AtMost(Counters(k), Counters(k)')
    BY CountersType, CountersGrow DEF ExpiryInv
  <2>2. Counters(k)' \in Reading
    BY CountersTypeNext DEF CountersTyped
  <2> QED BY <1>1, <2>1, <2>2, AtMostTransitive
<1>2. KeptReadingsGrow'
  BY <1>1 DEF ExpiryInv, HandedOnRight, KeptReadingsGrow, DrainTypes
<1>3. DeltasTelescope'
  BY DEF ExpiryInv, HandedOnRight, DeltasTelescope
<1>4. ASSUME NEW k \in Keys, NEW x \in Reading, NEW p \in Reading,
             FitsIn(x, p, Counters(k), tally[k])
      PROVE  FitsIn(x, p, Counters(k)', tally'[k])
  <2>1. /\ AtMost(Counters(k), Counters(k)')
        /\ tally[k].packets + Counters(k)'.packets <= tally'[k].packets + Counters(k).packets
        /\ tally[k].bytes + Counters(k)'.bytes <= tally'[k].bytes + Counters(k).bytes
    BY CountersGrow DEF ExpiryInv
  <2>2. Counters(k) \in Reading /\ Counters(k)' \in Reading
    BY CountersType, CountersTypeNext DEF CountersTyped
  <2>3. /\ tally[k].packets \in Nat /\ tally[k].bytes \in Nat
        /\ tally'[k].packets \in Nat /\ tally'[k].bytes \in Nat
    BY TallyGrows
  <2> QED BY <1>4, <2>1, <2>2, <2>3, FitsGrow
<1>5. Accounted'
  BY <1>4, FlowTypes DEF ExpiryInv, HandedOnRight, Accounted, Fits, WillFit
<1> QED BY <1>2, <1>3, <1>5 DEF HandedOnRight

(* A drain starts: a flow it will not find holds nothing.                  *)
LEMMA BeginKeepsAccount ==
  ASSUME ExpiryInv, BeginDrain, UNCHANGED deleted
  PROVE  HandedOnRight'
<1> TypeOK /\ DrainTypes
  BY DEF ExpiryInv
<1>1. /\ drain # "iterating" /\ drain' = "iterating" /\ due' = Tracked
      /\ UNCHANGED <<flow_map, elem, tally, snapshot, previous, exported, deleted>>
  BY DEF BeginDrain, tcVars, maps
<1>2. \A k \in Keys : Counters(k)' = Counters(k) /\ snapshot[k] = Zero
  BY <1>1 DEF Counters, Tracked, ExpiryInv, IterationShape
<1>3. \A k \in Keys \ due' : Counters(k) = Zero
  BY <1>1 DEF Counters
<1>4. KeptReadingsGrow'
  BY <1>1, <1>2, <1>3 DEF ExpiryInv, HandedOnRight, KeptReadingsGrow
<1>5. DeltasTelescope'
  BY <1>1 DEF ExpiryInv, HandedOnRight, DeltasTelescope
<1>6. ASSUME NEW k \in Keys, Fits(k) PROVE Fits(k)'
  BY <1>1, <1>2, <1>6 DEF Fits
<1>7. ASSUME NEW k \in Keys, Fits(k), k \notin due' PROVE WillFit(k)'
  <2>1. AtMost(exported[k], tally[k])
    BY <1>7, FlowTypes, FitsGone DEF Fits
  <2>2. FitsIn(Plus(exported[k], Delta(Zero, previous[k])), Zero, Zero, tally[k])
    BY <2>1, FlowTypes, FitsUnread
  <2> QED BY <1>1, <1>2, <1>3, <1>7, <2>2 DEF WillFit
<1>8. Accounted'
  BY <1>1, <1>6, <1>7 DEF ExpiryInv, HandedOnRight, Accounted
<1> QED BY <1>4, <1>5, <1>8 DEF HandedOnRight

LEMMA VisitKeepsAccount ==
  ASSUME ExpiryInv, NEW k \in Keys, Visit(k), UNCHANGED deleted
  PROVE  HandedOnRight'
<1> TypeOK /\ DrainTypes
  BY DEF ExpiryInv
<1>1. /\ drain = "iterating" /\ drain' = drain /\ due' = due \ {k}
      /\ UNCHANGED <<flow_map, elem, tally, previous, exported, deleted>>
      /\ Counters(k) \in Reading /\ snapshot' = [snapshot EXCEPT ![k] = Counters(k)]
  BY VisitReads DEF Visit, tcVars, maps
<1>2. \A j \in Keys : Counters(j)' = Counters(j)
  BY <1>1 DEF Counters, Tracked
<1>3. snapshot'[k] = Counters(k) /\ \A j \in Keys \ {k} : snapshot'[j] = snapshot[j]
  BY <1>1 DEF DrainTypes
<1>4. AtMost(Counters(k), Counters(k))
  BY <1>1 DEF AtMost, Reading
<1>5. KeptReadingsGrow'
  BY <1>1, <1>2, <1>3, <1>4 DEF ExpiryInv, HandedOnRight, KeptReadingsGrow
<1>6. DeltasTelescope'
  BY <1>1 DEF ExpiryInv, HandedOnRight, DeltasTelescope
<1>7. ASSUME NEW j \in Keys, Fits(j) PROVE Fits(j)'
  BY <1>1, <1>2, <1>7 DEF Fits
<1>8. ASSUME NEW j \in Keys, j # k, WillFit(j) PROVE WillFit(j)'
  BY <1>1, <1>2, <1>3, <1>8 DEF WillFit
<1>9. ASSUME Fits(k) PROVE WillFit(k)'
  <2>1. FitsIn(Plus(exported[k], Delta(Counters(k), previous[k])), Counters(k), Counters(k), tally[k])
    BY <1>9, FlowTypes, FitsRead DEF Fits
  <2> QED BY <1>1, <1>2, <1>3, <2>1 DEF WillFit
<1>10. Accounted'
  BY <1>1, <1>7, <1>8, <1>9 DEF ExpiryInv, HandedOnRight, Accounted
<1> QED BY <1>5, <1>6, <1>10 DEF HandedOnRight

LEMMA FailKeepsAccount ==
  ASSUME ExpiryInv, FailDrain, UNCHANGED deleted
  PROVE  HandedOnRight'
<1> TypeOK /\ DrainTypes
  BY DEF ExpiryInv
<1>1. /\ drain' = "failed" /\ due' = {} /\ snapshot' = [k \in Keys |-> Zero]
      /\ UNCHANGED <<flow_map, elem, tally, previous, exported, deleted>>
  BY DEF FailDrain, EndIteration, tcVars, maps
<1>2. \A k \in Keys : Counters(k)' = Counters(k) /\ snapshot'[k] = Zero
  BY <1>1 DEF Counters, Tracked
<1>3. \A k \in Keys : AtMost(Zero, Counters(k))
  BY FlowTypes, ZeroType DEF AtMost, Reading
<1>4. KeptReadingsGrow'
  BY <1>1, <1>2, <1>3 DEF ExpiryInv, HandedOnRight, KeptReadingsGrow
<1>5. DeltasTelescope'
  BY <1>1 DEF ExpiryInv, HandedOnRight, DeltasTelescope
<1>6. ASSUME NEW k \in Keys, Fits(k) PROVE Fits(k)'
  BY <1>1, <1>2, <1>6 DEF Fits
<1>7. Accounted'
  BY <1>1, <1>6 DEF ExpiryInv, HandedOnRight, Accounted
<1> QED BY <1>4, <1>5, <1>7 DEF HandedOnRight

(* A drain ends: what it read becomes the last reading, and what it was to *)
(* hand on was handed on.                                                  *)
LEMMA FinishKeepsAccount ==
  ASSUME ExpiryInv, FinishDrain, UNCHANGED deleted
  PROVE  HandedOnRight'
<1> TypeOK /\ DrainTypes
  BY DEF ExpiryInv
<1>1. /\ drain = "iterating" /\ due = {} /\ drain' = "idle" /\ due' = {}
      /\ snapshot' = [k \in Keys |-> Zero] /\ previous' = snapshot
      /\ exported' = [k \in Keys |-> IF Exportable(k)
                        THEN Plus(exported[k], Delta(snapshot[k], previous[k]))
                        ELSE exported[k]]
      /\ UNCHANGED <<flow_map, elem, tally, deleted>>
  BY DEF FinishDrain, EndIteration, Baseline, tcVars, maps
<1>2. \A k \in Keys : Counters(k)' = Counters(k) /\ snapshot'[k] = Zero
  BY <1>1 DEF Counters, Tracked
<1>3. \A k \in Keys : AtMost(Zero, Counters(k))
  BY FlowTypes, ZeroType DEF AtMost, Reading
<1>4. KeptReadingsGrow'
  BY <1>1, <1>2, <1>3 DEF ExpiryInv, HandedOnRight, KeptReadingsGrow
<1>5. ASSUME NEW k \in Keys \ deleted
      PROVE  exported'[k] = IF Exportable(k) THEN snapshot[k] ELSE Zero
  <2>1. AtMost(previous[k], snapshot[k])
    BY <1>1 DEF ExpiryInv, HandedOnRight, KeptReadingsGrow
  <2>2. Plus(previous[k], Delta(snapshot[k], previous[k])) = snapshot[k]
    BY <2>1, FlowTypes, DeltaMakesUp
  <2>3. exported[k] = IF Exportable(k) THEN previous[k] ELSE Zero
    BY DEF ExpiryInv, HandedOnRight, DeltasTelescope
  <2>4. exported'[k] = IF Exportable(k)
                         THEN Plus(exported[k], Delta(snapshot[k], previous[k]))
                         ELSE exported[k]
    BY <1>1
  <2> QED BY <2>2, <2>3, <2>4
<1>6. DeltasTelescope'
  BY <1>1, <1>5 DEF DeltasTelescope
<1>7. ASSUME NEW k \in Keys, Exportable(k) PROVE Fits(k)'
  <2>1. WillFit(k)
    BY <1>1, <1>7 DEF ExpiryInv, HandedOnRight, Accounted
  <2>2. exported'[k] = Plus(exported[k], Delta(snapshot[k], previous[k]))
    BY <1>1, <1>7
  <2> QED BY <1>1, <1>2, <2>1, <2>2 DEF WillFit, Fits
<1>8. ASSUME NEW k \in Keys, ~Exportable(k) PROVE exported'[k] = Zero
  BY <1>1, <1>8 DEF ExpiryInv, HandedOnRight, Accounted
<1>9. Accounted'
  BY <1>1, <1>7, <1>8 DEF Accounted
<1> QED BY <1>4, <1>6, <1>9 DEF HandedOnRight

(* A flow is removed: nothing that was counted for it before will be read, *)
(* so no more can be handed on for it than was; the others stand.          *)
LEMMA RemoveKeepsAccount ==
  ASSUME ExpiryInv, NEW k \in Tracked, Remove(k)
  PROVE  HandedOnRight'
<1> TypeOK /\ DrainTypes /\ k \in Keys
  BY DEF ExpiryInv, Tracked
<1>1. /\ deleted' = deleted \cup {k} /\ due' = due \ {k}
      /\ UNCHANGED <<tally, drain, snapshot, previous, exported>>
      /\ \A j \in Keys : Counters(j)' = IF j = k THEN Zero ELSE Counters(j)
  BY RemoveStep
<1>2. KeptReadingsGrow'
  BY <1>1 DEF ExpiryInv, HandedOnRight, KeptReadingsGrow
<1>3. DeltasTelescope'
  BY <1>1 DEF ExpiryInv, HandedOnRight, DeltasTelescope
<1>4. ASSUME NEW j \in Keys, j # k
      PROVE  (Fits(j) => Fits(j)') /\ (WillFit(j) => WillFit(j)')
  BY <1>1, <1>4 DEF Fits, WillFit
<1>5. ASSUME Fits(k) PROVE Fits(k)' /\ AtMost(exported[k], tally[k])
  <2>1. FitsIn(exported[k], previous[k], Zero, tally[k]) /\ AtMost(exported[k], tally[k])
    BY <1>5, FlowTypes, FitsGone DEF Fits
  <2> QED BY <1>1, <2>1 DEF Fits
<1>6. ASSUME Fits(k), k \in due \/ WillFit(k) PROVE WillFit(k)'
  <2>1. CASE k \in due
    <3>1. snapshot[k] = Zero
      BY <2>1 DEF ExpiryInv, IterationShape
    <3>2. FitsIn(Plus(exported[k], Delta(Zero, previous[k])), Zero, Zero, tally[k])
      BY <1>5, <1>6, FlowTypes, FitsUnread
    <3> QED BY <1>1, <3>1, <3>2 DEF WillFit
  <2>2. CASE WillFit(k)
    <3>1. FitsIn(Plus(exported[k], Delta(snapshot[k], previous[k])), snapshot[k], Zero, tally[k])
      BY <2>2, FlowTypes, FitsGone DEF WillFit
    <3> QED BY <1>1, <3>1 DEF WillFit
  <2> QED BY <1>6, <2>1, <2>2
<1>7. Accounted'
  BY <1>1, <1>4, <1>5, <1>6 DEF ExpiryInv, HandedOnRight, Accounted
<1> QED BY <1>2, <1>3, <1>7 DEF HandedOnRight

LEMMA ExpiryInvariant ==
  ASSUME OneCpu
  PROVE  ExpirySpec => []ExpiryInv
<1>1. ExpiryInit => ExpiryInv
  BY ExpiryTypesStart, ProgramInvStart, HandedOnStart
     DEF ExpiryInv, ExpiryInit, DrainInit
<1>2. ASSUME ExpiryInv, [ExpiryNext]_allVars PROVE ExpiryInv'
  <2>1. TypeOK' /\ DrainTypes' /\ IterationShape' /\ ProgramInv'
    BY <1>2, ExpiryTypesHold, ProgramInvHolds DEF ExpiryInv
  <2>2. HandedOnRight'
    BY <1>2, <2>1, ExpirySteps, ProgramKeepsAccount, BeginKeepsAccount, VisitKeepsAccount,
       FailKeepsAccount, FinishKeepsAccount, RemoveKeepsAccount
  <2> QED BY <2>1, <2>2 DEF ExpiryInv
<1> QED BY <1>1, <1>2, PTL DEF ExpirySpec

(* What was handed on for a flow that was never removed is its last        *)
(* reading, whatever other flows are removed, come back, or are counted    *)
(* while a drain is on its way, and whichever drains fail.                 *)
THEOREM DeletionsLeaveOthersExact ==
  ASSUME OneCpu
  PROVE  ExpirySpec => []DeltasTelescope
<1>1. ExpiryInv => DeltasTelescope
  BY DEF ExpiryInv, HandedOnRight
<1> QED BY <1>1, ExpiryInvariant, PTL

(* Nothing is handed on twice, not even for a flow that was removed and    *)
(* came back with a smaller or a greater count.                            *)
THEOREM DeletionsCountOnce ==
  ASSUME OneCpu
  PROVE  ExpirySpec => []NoDoubleCount
<1>1. ASSUME ExpiryInv, NEW k \in Keys PROVE AtMost(exported[k], tally[k])
  <2> TypeOK /\ DrainTypes
    BY <1>1 DEF ExpiryInv
  <2>1. CASE Exportable(k)
    <3>1. Fits(k)
      BY <1>1, <2>1 DEF ExpiryInv, HandedOnRight, Accounted
    <3> QED BY <3>1, FlowTypes, FitsGone DEF Fits
  <2>2. CASE ~Exportable(k)
    <3>1. exported[k] = Zero
      BY <1>1, <2>2 DEF ExpiryInv, HandedOnRight, Accounted
    <3> QED BY <3>1, FlowTypes, ZeroType DEF AtMost
  <2> QED BY <2>1, <2>2
<1>2. ExpiryInv => NoDoubleCount
  BY <1>1 DEF NoDoubleCount, AtMost
<1> QED BY <1>2, ExpiryInvariant, PTL
=============================================================================
