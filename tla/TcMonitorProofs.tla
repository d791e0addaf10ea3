-------------------------- MODULE TcMonitorProofs ---------------------------
(***************************************************************************)
(* First, the kernel program never counts a frame twice, however many CPUs *)
(* run it at once, and announces only flows that can be found.             *)
(*                                                                         *)
(* That a store does not push a counter above the frames handled depends   *)
(* on the value loaded before it (LoadedBelow), on the pointer a CPU holds *)
(* still being the element of its flow (Held) and on no other flow having  *)
(* that element (Injective); the program itself removes no flow.  That an  *)
(* event names a flow that can be found depends on what the insertion      *)
(* before it did (Announced).                                              *)
(*                                                                         *)
(* Then, a flow whose frames are steered to one CPU is counted exactly:    *)
(* no frame of that flow comes between the load of a counter and its       *)
(* store, nor between the lookup that misses the flow and its insertion,   *)
(* and what other CPUs do to other flows does not reach its element.  A    *)
(* flow that is not in the map has handled no frame yet, or the map is     *)
(* full and stays so.  Where both directions are steered to one CPU,       *)
(* nothing of either comes between a SYN-ACK and the sample it gives,      *)
(* which bounds the number of samples and what they add up to.             *)
(***************************************************************************)
EXTENDS TcMonitor, TLAPS

Unheld == {"idle", "lookup", "trackSyn", "insert", "event"}

(* A CPU past a successful lookup holds the element of its flow.           *)
Held == \A c \in Cpus : pc[c] \notin Unheld => stats[c] = flow_map[Key(c)]

(* No two flows share an element.                                          *)
Injective ==
  \A j, k \in Keys : flow_map[j] # NoSlot /\ flow_map[j] = flow_map[k] => j = k

(* What a CPU loaded and is about to store plus its own frame is no more   *)
(* than the frames handled.                                                *)
LoadedBelow ==
  \A c \in Cpus :
    /\ pc[c] = "storePackets" => reg[c] <= tally[Key(c)].packets
    /\ pc[c] = "storeBytes" => reg[c] <= tally[Key(c)].bytes

Announced == \A c \in Cpus : pc[c] = "event" => Key(c) \in Tracked \/ FreeSlots = {}

Tally == [packets : Nat, bytes : Nat, syns : Nat]

(* The two halves of the types: shared state and locals.                   *)
SharedTypes ==
  /\ flow_map \in [Keys -> Slots \cup {NoSlot}]
  /\ elem \in [Slots -> Stats]
  /\ handshake_map \in [Keys -> Nat]
  /\ events \in Seq(Events)
  /\ clock \in Nat /\ arrived \in Nat
  /\ tally \in [Keys -> Tally]

LocalTypes ==
  /\ pc \in [Cpus -> Locations]
  /\ frame \in [Cpus -> Packets \cup {NoFrame}]
  /\ now \in [Cpus -> Nat]
  /\ stats \in [Cpus -> Slots \cup {NoSlot}]
  /\ reg \in [Cpus -> Nat]
  /\ \A c \in Cpus :
       /\ pc[c] # "idle" => frame[c] \in Packets
       /\ pc[c] \notin Unheld => stats[c] \in Slots

LEMMA TypeHalves == TypeOK <=> SharedTypes /\ LocalTypes
  BY DEF TypeOK, SharedTypes, LocalTypes, Unheld, Tally

-----------------------------------------------------------------------------
(* Keys and records *)

LEMMA PacketKeys ==
  ASSUME NEW p \in Packets
  PROVE  p.key \in Keys /\ Reverse(p.key) \in Keys /\ p.size \in Nat
  BY PacketsAssumption DEF Keys

LEMMA L7Type ==
  ASSUME NEW k
  PROVE  L7(k) \in L7Protocols
  BY DEF L7, L7Protocols

LEMMA NewStatsType ==
  ASSUME NEW p \in Packets, NEW t \in Nat
  PROVE  /\ NewStats(p, t) \in Stats
         /\ NewStats(p, t).packets = 1 /\ NewStats(p, t).bytes = p.size
<1>1. L7(p.key) \in L7Protocols
  BY L7Type
<1>2. InitialState(p) \in {"NEW", "ESTABLISHED", "CLOSING"}
  BY DEF InitialState
<1>3. p.size \in Nat /\ 0 \in 0 .. U32 - 1
  BY PacketKeys, WidthAssumption
<1> QED BY <1>1, <1>2, <1>3 DEF NewStats, NoStats, Stats

LEMMA NoStatsType == NoStats \in Stats
<1>1. 0 \in 0 .. U32 - 1
  BY WidthAssumption
<1> QED BY <1>1 DEF NoStats, Stats, L7Protocols

LEMMA RttType ==
  ASSUME NEW t \in Nat, NEW s \in Nat
  PROVE  Rtt(t, s) \in Nat
<1>1. U64 \in Nat \ {0} /\ U32 \in Nat \ {0} /\ NsPerUs \in Nat \ {0}
  BY WidthAssumption
<1>2. (t - s) % U64 \in Nat
  BY <1>1
<1> DEFINE d == (t - s) % U64
<1> HIDE DEF d
<1>3. (d \div NsPerUs) \in Nat
  BY <1>1, <1>2 DEF d
<1> DEFINE q == d \div NsPerUs
<1> HIDE DEF q
<1>4. q % U32 \in Nat
  BY <1>1, <1>3 DEF q
<1> QED BY <1>4 DEF Rtt, d, q

-----------------------------------------------------------------------------
(* Locals *)

LEMMA ReturnLocals ==
  ASSUME LocalTypes, NEW c \in Cpus, Return(c)
  PROVE  LocalTypes'
  BY DEF LocalTypes, Return, Goto, Locations, Unheld

LEMMA ToFinLocals ==
  ASSUME LocalTypes, NEW c \in Cpus, pc[c] \notin Unheld, ToFin(c)
  PROVE  LocalTypes'
<1>1. CASE Return(c)
  BY <1>1, ReturnLocals
<1>2. CASE Goto(c, "fin") /\ UNCHANGED <<frame, now, stats, reg>>
  BY <1>2 DEF LocalTypes, Goto, Locations, Unheld
<1> QED BY <1>1, <1>2 DEF ToFin

LEMMA GotoLocals ==
  ASSUME LocalTypes, NEW c \in Cpus, NEW l \in Locations, Goto(c, l),
         UNCHANGED <<frame, now>>,
         stats' \in [Cpus -> Slots \cup {NoSlot}], reg' \in [Cpus -> Nat],
         pc[c] # "idle",
         l \notin Unheld => stats'[c] \in Slots,
         \A d \in Cpus \ {c} : stats'[d] = stats[d]
  PROVE  LocalTypes'
  BY DEF LocalTypes, Goto

LEMMA LocalTypesPreserved ==
  ASSUME TypeOK, [TcNext]_tcVars
  PROVE  LocalTypes'
<1> SharedTypes /\ LocalTypes
  BY TypeHalves
<1>0. ASSUME NEW c \in Cpus, pc[c] # "idle"
      PROVE  Key(c) \in Keys /\ Reverse(Key(c)) \in Keys
  BY <1>0, PacketKeys DEF LocalTypes, Key
<1>1. CASE UNCHANGED tcVars
  BY <1>1 DEF LocalTypes, tcVars, locals
<1>2. ASSUME NEW c \in Cpus, NEW p \in Packets, Receive(c, p) PROVE LocalTypes'
  BY <1>2 DEF LocalTypes, SharedTypes, Receive, Goto, Locations, Unheld
<1>3. ASSUME NEW c \in Cpus, Lookup(c) PROVE LocalTypes'
  <2>1. flow_map[Key(c)] \in Slots \cup {NoSlot}
    BY <1>0, <1>3 DEF Lookup, SharedTypes
  <2>2. /\ AfterLookup(c) \in Locations
        /\ AfterLookup(c) \notin Unheld => flow_map[Key(c)] \in Slots
    BY <2>1 DEF AfterLookup, Locations, Unheld
  <2> QED BY <1>3, <2>1, <2>2, GotoLocals DEF Lookup, LocalTypes
<1>4. ASSUME NEW c \in Cpus, TrackSyn(c) PROVE LocalTypes'
  BY <1>4 DEF TrackSyn, LocalTypes, Goto, Locations, Unheld
<1>5. ASSUME NEW c \in Cpus, Insert(c) PROVE LocalTypes'
  BY <1>5 DEF Insert, LocalTypes, Goto, Locations, Unheld
<1>6. ASSUME NEW c \in Cpus, SendEvent(c) PROVE LocalTypes'
  BY <1>6, ReturnLocals DEF SendEvent
<1>7. ASSUME NEW c \in Cpus, LoadPackets(c) PROVE LocalTypes'
  <2>1. elem[stats[c]].packets \in Nat
    BY <1>7 DEF LoadPackets, LocalTypes, SharedTypes, Stats, Unheld
  <2> QED BY <1>7, <2>1 DEF LoadPackets, LocalTypes, Goto, Locations, Unheld
<1>8. ASSUME NEW c \in Cpus, StorePackets(c) PROVE LocalTypes'
  BY <1>8 DEF StorePackets, LocalTypes, Goto, Locations, Unheld
<1>9. ASSUME NEW c \in Cpus, LoadBytes(c) PROVE LocalTypes'
  <2>1. elem[stats[c]].bytes \in Nat
    BY <1>9 DEF LoadBytes, LocalTypes, SharedTypes, Stats, Unheld
  <2> QED BY <1>9, <2>1 DEF LoadBytes, LocalTypes, Goto, Locations, Unheld
<1>10. ASSUME NEW c \in Cpus, StoreBytes(c) PROVE LocalTypes'
  BY <1>10 DEF StoreBytes, LocalTypes, Goto, Locations, Unheld
<1>11. ASSUME NEW c \in Cpus, Touch(c) PROVE LocalTypes'
  <2>1. CASE Goto(c, "matchSyn") /\ UNCHANGED <<frame, now, stats, reg>>
    BY <1>11, <2>1 DEF Touch, LocalTypes, Goto, Locations, Unheld
  <2>2. CASE ToFin(c)
    BY <1>11, <2>2, ToFinLocals DEF Touch, Unheld
  <2> QED BY <1>11, <2>1, <2>2 DEF Touch
<1>12. ASSUME NEW c \in Cpus, MatchSyn(c) PROVE LocalTypes'
  <2> DEFINE syn_time == handshake_map[Reverse(Key(c))]
  <2>1. syn_time \in Nat /\ now[c] \in Nat
    BY <1>0, <1>12 DEF MatchSyn, SharedTypes, LocalTypes
  <2>2. Rtt(now[c], syn_time) \in Nat
    BY <2>1, RttType
  <2>3. CASE /\ reg' = [reg EXCEPT ![c] = Rtt(now[c], syn_time)]
             /\ Goto(c, "sample")
             /\ UNCHANGED <<frame, now, stats>>
    <3> HIDE DEF syn_time
    <3> QED BY <1>12, <2>2, <2>3 DEF MatchSyn, LocalTypes, Goto, Locations, Unheld
  <2>4. CASE ToFin(c)
    BY <1>12, <2>4, ToFinLocals DEF MatchSyn, Unheld
  <2> QED BY <1>12, <2>3, <2>4 DEF MatchSyn
<1>13. ASSUME NEW c \in Cpus, Sample(c) PROVE LocalTypes'
  BY <1>13 DEF Sample, LocalTypes, Goto, Locations, Unheld
<1>14. ASSUME NEW c \in Cpus, Establish(c) PROVE LocalTypes'
  BY <1>14, ToFinLocals DEF Establish, Unheld
<1>15. ASSUME NEW c \in Cpus, Fin(c) PROVE LocalTypes'
  BY <1>15, ReturnLocals DEF Fin
<1>16. CASE TakeEvent \/ Tick
  BY <1>16 DEF TakeEvent, Tick, LocalTypes, locals
<1> QED BY <1>1, <1>2, <1>3, <1>4, <1>5, <1>6, <1>7, <1>8, <1>9, <1>10, <1>11,
           <1>12, <1>13, <1>14, <1>15, <1>16 DEF TcNext, Run

-----------------------------------------------------------------------------
(* Shared state *)

LEMMA StatsUpdate ==
  ASSUME NEW r \in Stats, NEW n \in Nat, NEW m \in Nat, NEW sum \in 0 .. U32 - 1,
         NEW st \in {"NEW", "ESTABLISHED", "CLOSING"}, NEW l \in L7Protocols
  PROVE  /\ [r EXCEPT !.packets = n] \in Stats
         /\ [r EXCEPT !.bytes = n] \in Stats
         /\ [r EXCEPT !.last_seen = n, !.l7 = l] \in Stats
         /\ [r EXCEPT !.latency_sum = sum, !.latency_count = m] \in Stats
         /\ [r EXCEPT !.state = st] \in Stats
  BY DEF Stats

LEMMA TallyUpdate ==
  ASSUME NEW t \in Tally, NEW a \in Nat, NEW b \in Nat
  PROVE  /\ [t EXCEPT !.packets = a] \in Tally
         /\ [t EXCEPT !.bytes = a] \in Tally
         /\ [t EXCEPT !.syns = a] \in Tally
         /\ [t EXCEPT !.packets = a, !.bytes = b] \in Tally
         /\ t.packets \in Nat /\ t.bytes \in Nat /\ t.syns \in Nat
  BY DEF Tally

(* Counting at one key. *)
LEMMA TallyStep ==
  ASSUME tally \in [Keys -> Tally], NEW k \in Keys, NEW n \in Nat,
         \/ tally' = [tally EXCEPT ![k].packets = @ + n]
         \/ tally' = [tally EXCEPT ![k].bytes = @ + n]
         \/ tally' = [tally EXCEPT ![k].syns = @ + n]
  PROVE  tally' \in [Keys -> Tally]
<1>1. tally[k] \in Tally
  OBVIOUS
<1>2. tally[k].packets + n \in Nat /\ tally[k].bytes + n \in Nat /\ tally[k].syns + n \in Nat
  BY <1>1 DEF Tally
<1>3. CASE tally' = [tally EXCEPT ![k].packets = @ + n]
  <2> PICK a \in Nat : a = tally[k].packets + n
    BY <1>2
  <2>1. [tally[k] EXCEPT !.packets = a] \in Tally
    BY <1>1, TallyUpdate
  <2>2. tally' = [tally EXCEPT ![k] = [tally[k] EXCEPT !.packets = a]]
    BY <1>3
  <2> QED BY <2>1, <2>2
<1>4. CASE tally' = [tally EXCEPT ![k].bytes = @ + n]
  <2> PICK a \in Nat : a = tally[k].bytes + n
    BY <1>2
  <2>1. [tally[k] EXCEPT !.bytes = a] \in Tally
    BY <1>1, TallyUpdate
  <2>2. tally' = [tally EXCEPT ![k] = [tally[k] EXCEPT !.bytes = a]]
    BY <1>4
  <2> QED BY <2>1, <2>2
<1>5. CASE tally' = [tally EXCEPT ![k].syns = @ + n]
  <2> PICK a \in Nat : a = tally[k].syns + n
    BY <1>2
  <2>1. [tally[k] EXCEPT !.syns = a] \in Tally
    BY <1>1, TallyUpdate
  <2>2. tally' = [tally EXCEPT ![k] = [tally[k] EXCEPT !.syns = a]]
    BY <1>5
  <2> QED BY <2>1, <2>2
<1> QED BY <1>3, <1>4, <1>5

LEMMA SharedTypesPreserved ==
  ASSUME TypeOK, [TcNext]_tcVars
  PROVE  SharedTypes'
<1> SharedTypes /\ LocalTypes
  BY TypeHalves
<1> USE DEF maps, locals
<1>0. ASSUME NEW c \in Cpus, pc[c] # "idle"
      PROVE  /\ frame[c] \in Packets /\ frame[c].size \in Nat
             /\ Key(c) \in Keys /\ Reverse(Key(c)) \in Keys
  BY <1>0, PacketKeys DEF LocalTypes, Key
<1>a. ASSUME NEW c \in Cpus, pc[c] \notin Unheld
      PROVE  stats[c] \in Slots /\ elem[stats[c]] \in Stats /\ reg[c] \in Nat /\ now[c] \in Nat
  BY <1>a DEF LocalTypes, SharedTypes
<1>1. CASE UNCHANGED tcVars
  BY <1>1 DEF SharedTypes, tcVars
<1>2. ASSUME NEW c \in Cpus, NEW p \in Packets, Receive(c, p) PROVE SharedTypes'
  BY <1>2 DEF SharedTypes, Receive
<1>3. ASSUME NEW c \in Cpus, Lookup(c) PROVE SharedTypes'
  BY <1>3 DEF SharedTypes, Lookup
<1>4. ASSUME NEW c \in Cpus, TrackSyn(c) PROVE SharedTypes'
  <2>1. CASE /\ handshake_map' = [handshake_map EXCEPT ![Key(c)] = now[c]]
             /\ tally' = [tally EXCEPT ![Key(c)].syns = @ + 1]
    <3>1. tally' \in [Keys -> Tally]
      BY <1>4, <2>1, <1>0, TallyStep DEF SharedTypes, TrackSyn
    <3> QED BY <1>4, <2>1, <1>0, <3>1 DEF SharedTypes, LocalTypes, TrackSyn
  <2>2. CASE UNCHANGED <<handshake_map, tally>>
    BY <1>4, <2>2 DEF SharedTypes, TrackSyn
  <2> QED BY <1>4, <2>1, <2>2 DEF TrackSyn
<1>5. ASSUME NEW c \in Cpus, Insert(c) PROVE SharedTypes'
  <2>0. Key(c) \in Keys /\ frame[c].size \in Nat /\ NewStats(frame[c], now[c]) \in Stats
    BY <1>5, <1>0, NewStatsType DEF Insert, LocalTypes
  <2>1. flow_map' \in [Keys -> Slots \cup {NoSlot}] /\ elem' \in [Slots -> Stats]
    BY <1>5, <2>0 DEF Insert, SharedTypes, FreeSlots
  <2>2. tally' \in [Keys -> Tally]
    <3> DEFINE a == tally[Key(c)].packets + 1
               b == tally[Key(c)].bytes + frame[c].size
    <3>1. tally[Key(c)] \in Tally /\ a \in Nat /\ b \in Nat
      BY <2>0 DEF SharedTypes, Tally
    <3>2. tally' = [tally EXCEPT ![Key(c)].packets = a, ![Key(c)].bytes = b]
      BY <1>5, <2>0 DEF Insert, SharedTypes
    <3> HIDE DEF a, b
    <3>3. tally' = [tally EXCEPT ![Key(c)] = [tally[Key(c)] EXCEPT !.packets = a, !.bytes = b]]
      BY <2>0, <3>1, <3>2 DEF SharedTypes, Tally
    <3> QED BY <2>0, <3>1, <3>3, TallyUpdate DEF SharedTypes
  <2> QED BY <1>5, <2>1, <2>2 DEF Insert, SharedTypes
<1>6. ASSUME NEW c \in Cpus, SendEvent(c) PROVE SharedTypes'
  <2> DEFINE e == [key |-> Key(c), state |-> InitialState(frame[c]),
                   l7 |-> L7(Key(c)), timestamp |-> now[c]]
  <2>1. e \in Events
    <3>1. Key(c) \in Keys /\ now[c] \in Nat
      BY <1>6, <1>0 DEF SendEvent, LocalTypes
    <3> QED BY <3>1, L7Type DEF Events, InitialState
  <2>2. events' = Append(events, e) \/ events' = events
    BY <1>6 DEF SendEvent
  <2> HIDE DEF e
  <2>3. events' \in Seq(Events)
    BY <2>1, <2>2 DEF SharedTypes
  <2> QED BY <1>6, <2>3 DEF SendEvent, SharedTypes
<1>7. ASSUME NEW c \in Cpus, LoadPackets(c) PROVE SharedTypes'
  BY <1>7 DEF LoadPackets, SharedTypes
<1>8. ASSUME NEW c \in Cpus, StorePackets(c) PROVE SharedTypes'
  <2>1. [elem[stats[c]] EXCEPT !.packets = reg[c] + 1] \in Stats
    BY <1>8, <1>a DEF StorePackets, Unheld, Stats
  <2>2. elem' \in [Slots -> Stats]
    BY <1>8, <2>1 DEF StorePackets, SharedTypes
  <2>3. tally' \in [Keys -> Tally]
    BY <1>8, <1>0, TallyStep DEF StorePackets, SharedTypes
  <2> QED BY <1>8, <2>2, <2>3 DEF StorePackets, SharedTypes
<1>9. ASSUME NEW c \in Cpus, LoadBytes(c) PROVE SharedTypes'
  BY <1>9 DEF LoadBytes, SharedTypes
<1>10. ASSUME NEW c \in Cpus, StoreBytes(c) PROVE SharedTypes'
  <2>1. [elem[stats[c]] EXCEPT !.bytes = reg[c] + frame[c].size] \in Stats
    BY <1>10, <1>a, <1>0 DEF StoreBytes, Unheld, Stats
  <2>2. elem' \in [Slots -> Stats]
    BY <1>10, <2>1 DEF StoreBytes, SharedTypes
  <2>3. tally' \in [Keys -> Tally]
    BY <1>10, <1>0, TallyStep DEF StoreBytes, SharedTypes
  <2> QED BY <1>10, <2>2, <2>3 DEF StoreBytes, SharedTypes
<1>11. ASSUME NEW c \in Cpus, Touch(c) PROVE SharedTypes'
  <2>1. /\ elem[stats[c]] \in Stats /\ now[c] \in Nat
        /\ L7(Key(c)) \in L7Protocols
    BY <1>11, <1>a, L7Type DEF Touch, Unheld
  <2> DEFINE l == IF elem[stats[c]].l7 = "UNKNOWN" THEN L7(Key(c)) ELSE elem[stats[c]].l7
  <2>2. l \in L7Protocols
    BY <2>1 DEF Stats
  <2>3. [elem[stats[c]] EXCEPT !.last_seen = now[c], !.l7 = l] \in Stats
    BY <2>1, <2>2 DEF Stats
  <2>4. elem' = [elem EXCEPT ![stats[c]] = [@ EXCEPT !.last_seen = now[c], !.l7 = l]]
    BY <1>11, <1>a DEF Touch, Unheld, SharedTypes, Stats
  <2> HIDE DEF l
  <2>5. elem' \in [Slots -> Stats]
    BY <2>3, <2>4 DEF SharedTypes
  <2> QED BY <1>11, <2>5 DEF Touch, SharedTypes
<1>12. ASSUME NEW c \in Cpus, MatchSyn(c) PROVE SharedTypes'
  BY <1>12 DEF MatchSyn, SharedTypes
<1>13. ASSUME NEW c \in Cpus, Sample(c) PROVE SharedTypes'
  <2>1. elem[stats[c]] \in Stats /\ reg[c] \in Nat
    BY <1>13, <1>a DEF Sample, Unheld
  <2>2. (elem[stats[c]].latency_sum + reg[c]) % U32 \in 0 .. U32 - 1
    BY <2>1, WidthAssumption DEF Stats
  <2> DEFINE sum == (elem[stats[c]].latency_sum + reg[c]) % U32
             count == elem[stats[c]].latency_count + 1
  <2>3. count \in Nat
    BY <2>1 DEF Stats
  <2>4. elem' = [elem EXCEPT ![stats[c]].latency_sum = sum, ![stats[c]].latency_count = count]
    BY <1>13 DEF Sample
  <2>5. sum \in 0 .. U32 - 1
    BY <2>2
  <2> HIDE DEF sum, count
  <2>6. [elem[stats[c]] EXCEPT !.latency_sum = sum, !.latency_count = count] \in Stats
    BY <2>1, <2>3, <2>5, StatsUpdate DEF Stats
  <2>7. elem' = [elem EXCEPT ![stats[c]] =
                   [elem[stats[c]] EXCEPT !.latency_sum = sum, !.latency_count = count]]
    BY <1>13, <1>a, <2>4 DEF Sample, Unheld, SharedTypes
  <2>8. elem' \in [Slots -> Stats]
    BY <2>6, <2>7 DEF SharedTypes
  <2> QED BY <1>13, <2>8 DEF Sample, SharedTypes
<1>14. ASSUME NEW c \in Cpus, Establish(c) PROVE SharedTypes'
  <2>1. [elem[stats[c]] EXCEPT !.state = "ESTABLISHED"] \in Stats
    BY <1>14, <1>a DEF Establish, Unheld, Stats
  <2>2. elem' \in [Slots -> Stats]
    BY <1>14, <2>1 DEF Establish, SharedTypes
  <2>3. handshake_map' \in [Keys -> Nat]
    BY <1>14 DEF Establish, HandshakesAfter, SharedTypes
  <2> QED BY <1>14, <2>2, <2>3 DEF Establish, SharedTypes
<1>15. ASSUME NEW c \in Cpus, Fin(c) PROVE SharedTypes'
  <2>1. [elem[stats[c]] EXCEPT !.state = "CLOSING"] \in Stats
    BY <1>15, <1>a DEF Fin, Unheld, Stats
  <2> QED BY <1>15, <2>1 DEF Fin, SharedTypes
<1>16. CASE TakeEvent
  BY <1>16 DEF TakeEvent, SharedTypes
<1>17. CASE Tick
  BY <1>17 DEF Tick, SharedTypes
<1> QED BY <1>1, <1>2, <1>3, <1>4, <1>5, <1>6, <1>7, <1>8, <1>9, <1>10, <1>11,
           <1>12, <1>13, <1>14, <1>15, <1>16, <1>17 DEF TcNext, Run

-----------------------------------------------------------------------------
(* What a step does to the locals *)

CpuStep(c) == Run(c) \/ \E p \in Packets : Receive(c, p)

LEMMA CpuSteps ==
  ASSUME [TcNext]_tcVars
  PROVE  \/ \E c \in Cpus : CpuStep(c)
         \/ UNCHANGED <<flow_map, elem, handshake_map, arrived, locals, tally>>
  BY DEF TcNext, CpuStep, TakeEvent, Tick, tcVars, maps

(* A CPU writes only its own locals. *)
LEMMA OtherLocals ==
  ASSUME TypeOK, NEW c \in Cpus, CpuStep(c), NEW d \in Cpus, d # c
  PROVE  /\ pc'[d] = pc[d] /\ frame'[d] = frame[d] /\ now'[d] = now[d]
         /\ stats'[d] = stats[d] /\ reg'[d] = reg[d]
<1> LocalTypes
  BY TypeHalves
<1> USE DEF Goto, Return, ToFin, LocalTypes, maps, locals
<1>1. ASSUME NEW p \in Packets, Receive(c, p)
      PROVE  /\ pc'[d] = pc[d] /\ frame'[d] = frame[d] /\ now'[d] = now[d]
             /\ stats'[d] = stats[d] /\ reg'[d] = reg[d]
  BY <1>1 DEF Receive
<1>2. CASE Lookup(c) \/ TrackSyn(c) \/ Insert(c) \/ SendEvent(c)
  BY <1>2 DEF Lookup, TrackSyn, Insert, SendEvent
<1>3. CASE LoadPackets(c) \/ StorePackets(c) \/ LoadBytes(c) \/ StoreBytes(c)
  BY <1>3 DEF LoadPackets, StorePackets, LoadBytes, StoreBytes
<1>4. CASE Touch(c) \/ Sample(c) \/ Establish(c) \/ Fin(c)
  BY <1>4 DEF Touch, Sample, Establish, Fin
<1>5. CASE MatchSyn(c)
  BY <1>5 DEF MatchSyn
<1> QED BY <1>1, <1>2, <1>3, <1>4, <1>5 DEF CpuStep, Run

(* A CPU gets hold of an element by its lookup and keeps it to the end;    *)
(* it is about to store a counter only after having loaded it.             *)
LEMMA OwnLocals ==
  ASSUME TypeOK, NEW c \in Cpus, CpuStep(c)
  PROVE  /\ pc'[c] \notin Unheld =>
              /\ frame'[c] = frame[c]
              /\ \/ Lookup(c) /\ stats'[c] = flow_map[Key(c)]
                 \/ pc[c] \notin Unheld /\ stats'[c] = stats[c]
         /\ pc'[c] = "storePackets" => LoadPackets(c)
         /\ pc'[c] = "storeBytes" => LoadBytes(c)
         /\ pc'[c] = "event" => Insert(c)
<1> LocalTypes
  BY TypeHalves
<1> USE DEF Goto, Return, ToFin, LocalTypes, maps, locals, Unheld
<1>1. ASSUME NEW p \in Packets, Receive(c, p)
      PROVE  pc'[c] = "lookup"
  BY <1>1 DEF Receive
<1>2. CASE Lookup(c)
  BY <1>2 DEF Lookup, AfterLookup
<1>3. CASE TrackSyn(c) \/ Insert(c) \/ SendEvent(c)
  BY <1>3 DEF TrackSyn, Insert, SendEvent
<1>4. CASE LoadPackets(c) \/ StorePackets(c) \/ LoadBytes(c) \/ StoreBytes(c)
  BY <1>4 DEF LoadPackets, StorePackets, LoadBytes, StoreBytes
<1>5. CASE Touch(c) \/ Sample(c) \/ Establish(c) \/ Fin(c)
  BY <1>5 DEF Touch, Sample, Establish, Fin
<1>6. CASE MatchSyn(c)
  BY <1>6 DEF MatchSyn
<1> QED BY <1>1, <1>2, <1>3, <1>4, <1>5, <1>6 DEF CpuStep, Run

-----------------------------------------------------------------------------
(* What a step does to the maps *)

(* Only Insert writes flow_map: it gives a free element to an untracked    *)
(* flow.                                                                   *)
LEMMA FlowMapStep ==
  ASSUME [TcNext]_tcVars
  PROVE  \/ flow_map' = flow_map
         \/ \E c \in Cpus, s \in FreeSlots :
              /\ Insert(c)
              /\ flow_map[Key(c)] = NoSlot
              /\ flow_map' = [flow_map EXCEPT ![Key(c)] = s]
<1> USE DEF maps
<1>1. CASE UNCHANGED tcVars \/ TakeEvent \/ Tick
  BY <1>1 DEF tcVars, TakeEvent, Tick
<1>2. ASSUME NEW c \in Cpus, NEW p \in Packets, Receive(c, p) PROVE flow_map' = flow_map
  BY <1>2 DEF Receive
<1>3. ASSUME NEW c \in Cpus, Run(c), ~Insert(c) PROVE flow_map' = flow_map
  BY <1>3 DEF Run, Lookup, TrackSyn, SendEvent, LoadPackets, StorePackets, LoadBytes,
              StoreBytes, Touch, MatchSyn, Sample, Establish, Fin
<1>4. ASSUME NEW c \in Cpus, Insert(c)
      PROVE  \/ flow_map' = flow_map
             \/ \E s \in FreeSlots :
                  /\ flow_map[Key(c)] = NoSlot
                  /\ flow_map' = [flow_map EXCEPT ![Key(c)] = s]
  BY <1>4 DEF Insert, CanInsert
<1> QED BY <1>1, <1>2, <1>3, <1>4 DEF TcNext

(* A flow keeps its element, and free elements only become fewer.          *)
LEMMA FlowMapGrows ==
  ASSUME TypeOK, [TcNext]_tcVars
  PROVE  /\ \A k \in Keys : flow_map[k] # NoSlot => flow_map'[k] = flow_map[k]
         /\ Tracked \subseteq Tracked'
         /\ FreeSlots' \subseteq FreeSlots
         /\ Injective => Injective'
<1>0. flow_map \in [Keys -> Slots \cup {NoSlot}]
  BY DEF TypeOK
<1>1. CASE flow_map' = flow_map
  BY <1>1 DEF Tracked, FreeSlots, Injective
<1>2. ASSUME NEW c \in Cpus, NEW s \in FreeSlots, Insert(c), flow_map[Key(c)] = NoSlot,
             flow_map' = [flow_map EXCEPT ![Key(c)] = s]
      PROVE  /\ \A k \in Keys : flow_map[k] # NoSlot => flow_map'[k] = flow_map[k]
             /\ FreeSlots' \subseteq FreeSlots
             /\ Injective => Injective'
  <2>1. Key(c) \in Keys
    BY <1>2, PacketKeys DEF TypeOK, Insert, Key
  <2>2. s \in Slots /\ s # NoSlot /\ \A k \in Keys : flow_map[k] # s
    BY SentinelAssumption DEF FreeSlots
  <2>3. \A k \in Keys : flow_map'[k] = IF k = Key(c) THEN s ELSE flow_map[k]
    BY <1>0, <1>2, <2>1
  <2> HIDE DEF Key
  <2>4. \A k \in Keys : flow_map[k] # NoSlot => flow_map'[k] = flow_map[k]
    BY <1>2, <2>3
  <2>5. FreeSlots' \subseteq FreeSlots
    BY <2>4, SentinelAssumption DEF FreeSlots
  <2>6. Injective => Injective'
    BY <2>2, <2>3 DEF Injective
  <2> QED BY <2>4, <2>5, <2>6
<1>3. /\ \A k \in Keys : flow_map[k] # NoSlot => flow_map'[k] = flow_map[k]
      /\ FreeSlots' \subseteq FreeSlots
      /\ Injective => Injective'
  BY <1>1, <1>2, FlowMapStep DEF FreeSlots, Injective
<1> QED BY <1>3 DEF Tracked

(* Storing at one key. *)
LEMMA TallyAt ==
  ASSUME tally \in [Keys -> Tally], NEW j \in Keys, NEW k \in Keys, NEW a \in Nat
  PROVE  /\ tally' = [tally EXCEPT ![j].packets = a] =>
              /\ tally'[k].packets = IF k = j THEN a ELSE tally[k].packets
              /\ tally'[k].bytes = tally[k].bytes
         /\ tally' = [tally EXCEPT ![j].bytes = a] =>
              /\ tally'[k].packets = tally[k].packets
              /\ tally'[k].bytes = IF k = j THEN a ELSE tally[k].bytes
         /\ tally' = [tally EXCEPT ![j].syns = a] =>
              /\ tally'[k].packets = tally[k].packets
              /\ tally'[k].bytes = tally[k].bytes
  BY DEF Tally

LEMMA TallyAtBoth ==
  ASSUME tally \in [Keys -> Tally], NEW j \in Keys, NEW k \in Keys, NEW a \in Nat, NEW b \in Nat,
         tally' = [tally EXCEPT ![j].packets = a, ![j].bytes = b]
  PROVE  /\ tally'[k].packets = IF k = j THEN a ELSE tally[k].packets
         /\ tally'[k].bytes = IF k = j THEN b ELSE tally[k].bytes
  BY DEF Tally

(* The tallies only grow. *)
LEMMA TallyGrows ==
  ASSUME TypeOK, [TcNext]_tcVars, NEW k \in Keys
  PROVE  /\ tally[k].packets \in Nat /\ tally[k].bytes \in Nat
         /\ tally'[k].packets \in Nat /\ tally'[k].bytes \in Nat
         /\ tally[k].packets <= tally'[k].packets
         /\ tally[k].bytes <= tally'[k].bytes
<1> SharedTypes /\ LocalTypes
  BY TypeHalves
<1>1. /\ tally[k] \in Tally
      /\ tally[k].packets \in Nat /\ tally[k].bytes \in Nat
  BY DEF SharedTypes, Tally
<1>2. CASE tally' = tally
  BY <1>1, <1>2
<1>3. ASSUME NEW c \in Cpus, TrackSyn(c) \/ Insert(c) \/ StorePackets(c) \/ StoreBytes(c)
      PROVE  /\ tally'[k].packets \in {tally[k].packets, tally[k].packets + 1}
             /\ tally'[k].bytes \in {tally[k].bytes, tally[k].bytes + frame[c].size}
             /\ frame[c].size \in Nat
  <2>1. frame[c].size \in Nat
    BY <1>3, PacketKeys DEF LocalTypes, TrackSyn, Insert, StorePackets, StoreBytes
  <2>2. /\ Key(c) \in Keys /\ tally \in [Keys -> Tally]
        /\ tally[Key(c)].packets \in Nat /\ tally[Key(c)].bytes \in Nat
        /\ tally[Key(c)].syns \in Nat
    <3>1. Key(c) \in Keys
      BY <1>3, PacketKeys DEF LocalTypes, Key, TrackSyn, Insert, StorePackets, StoreBytes
    <3> QED BY <3>1 DEF SharedTypes, Tally
  <2> HIDE DEF Key
  <2>3. CASE TrackSyn(c)
    <3>1. CASE UNCHANGED tally
      BY <2>1, <3>1
    <3>2. CASE tally' = [tally EXCEPT ![Key(c)].syns = @ + 1]
      <4> PICK a \in Nat : a = tally[Key(c)].syns + 1
        BY <2>2
      <4>1. tally' = [tally EXCEPT ![Key(c)].syns = a]
        BY <3>2
      <4> QED BY <2>1, <2>2, <4>1, TallyAt
    <3> QED BY <2>3, <3>1, <3>2 DEF TrackSyn
  <2>4. CASE Insert(c)
    <3> PICK a \in Nat : a = tally[Key(c)].packets + 1
      BY <2>2
    <3> PICK b \in Nat : b = tally[Key(c)].bytes + frame[c].size
      BY <2>1, <2>2
    <3>1. tally' = [tally EXCEPT ![Key(c)].packets = a, ![Key(c)].bytes = b]
      BY <2>2, <2>4 DEF Insert
    <3>2. /\ tally'[k].packets = IF k = Key(c) THEN a ELSE tally[k].packets
          /\ tally'[k].bytes = IF k = Key(c) THEN b ELSE tally[k].bytes
      BY <2>2, <3>1, TallyAtBoth
    <3> QED BY <2>1, <3>2
  <2>5. CASE StorePackets(c)
    <3> PICK a \in Nat : a = tally[Key(c)].packets + 1
      BY <2>2
    <3>1. tally' = [tally EXCEPT ![Key(c)].packets = a]
      BY <2>5 DEF StorePackets
    <3>2. /\ tally'[k].packets = IF k = Key(c) THEN a ELSE tally[k].packets
          /\ tally'[k].bytes = tally[k].bytes
      BY <2>2, <3>1, TallyAt
    <3> QED BY <2>1, <3>2
  <2>6. CASE StoreBytes(c)
    <3> PICK a \in Nat : a = tally[Key(c)].bytes + frame[c].size
      BY <2>1, <2>2
    <3>1. tally' = [tally EXCEPT ![Key(c)].bytes = a]
      BY <2>6 DEF StoreBytes
    <3>2. /\ tally'[k].packets = tally[k].packets
          /\ tally'[k].bytes = IF k = Key(c) THEN a ELSE tally[k].bytes
      BY <2>2, <3>1, TallyAt
    <3> QED BY <2>1, <3>2
  <2> QED BY <1>3, <2>1, <2>3, <2>4, <2>5, <2>6
<1>4. \/ tally' = tally
      \/ \E c \in Cpus : TrackSyn(c) \/ Insert(c) \/ StorePackets(c) \/ StoreBytes(c)
  BY DEF TcNext, tcVars, TakeEvent, Tick, Receive, Run, Lookup, SendEvent, LoadPackets,
         LoadBytes, Touch, MatchSyn, Sample, Establish, Fin
<1> QED BY <1>1, <1>2, <1>3, <1>4


-----------------------------------------------------------------------------
(* The invariant *)

IInv ==
  /\ TypeOK
  /\ Held
  /\ Injective
  /\ LoadedBelow
  /\ NoOvercount
  /\ Announced
  /\ EventsFollowInsertion

LEMMA InitInvariant == Init => IInv
<1> SUFFICES ASSUME Init PROVE IInv
  OBVIOUS
<1> USE DEF Init
<1>1. TypeOK
  <2>1. NoStats \in Stats
    BY NoStatsType
  <2>2. << >> \in Seq(Events)
    OBVIOUS
  <2>3. [k \in Keys |-> [packets |-> 0, bytes |-> 0, syns |-> 0]] \in [Keys -> Tally]
    BY DEF Tally
  <2> QED BY <2>1, <2>2, <2>3 DEF TypeOK, Locations, Tally
<1>2. Held /\ LoadedBelow /\ Announced
  BY DEF Held, LoadedBelow, Announced, Unheld
<1>3. Injective /\ NoOvercount
  BY DEF Injective, NoOvercount, Tracked
<1>4. EventsFollowInsertion
  BY DEF EventsFollowInsertion
<1> QED BY <1>1, <1>2, <1>3, <1>4 DEF IInv

LEMMA HeldPreserved ==
  ASSUME TypeOK, Held, [TcNext]_tcVars
  PROVE  Held'
<1> LocalTypes
  BY TypeHalves
<1>1. CASE UNCHANGED <<flow_map, elem, handshake_map, arrived, locals, tally>>
  BY <1>1 DEF Held, locals, Key
<1>2. ASSUME NEW c \in Cpus, CpuStep(c), NEW d \in Cpus, pc'[d] \notin Unheld
      PROVE  stats'[d] = flow_map'[frame'[d].key]
  <2>0. ASSUME pc[d] # "idle" PROVE Key(d) \in Keys
    BY <2>0, PacketKeys DEF LocalTypes, Key
  <2>1. CASE pc[d] \notin Unheld /\ stats'[d] = stats[d] /\ frame'[d] = frame[d]
    <3>1. stats[d] = flow_map[Key(d)] /\ Key(d) \in Keys
      BY <2>0, <2>1 DEF Held, Unheld
    <3>2. stats[d] # NoSlot
      BY <2>1, SentinelAssumption DEF LocalTypes
    <3> QED BY <2>1, <3>1, <3>2, FlowMapGrows DEF Key
  <2>2. CASE d # c
    BY <1>2, <2>1, <2>2, OtherLocals
  <2>3. CASE d = c /\ Lookup(c)
    <3>1. flow_map' = flow_map /\ stats'[c] = flow_map[Key(c)] /\ frame' = frame
      BY <2>3 DEF Lookup, maps, LocalTypes
    <3> QED BY <2>3, <3>1 DEF Key
  <2> QED BY <1>2, <2>1, <2>2, <2>3, OwnLocals
<1> QED BY <1>1, <1>2, CpuSteps DEF Held, Key

LEMMA LoadedBelowPreserved ==
  ASSUME TypeOK, Held, LoadedBelow, NoOvercount, [TcNext]_tcVars
  PROVE  LoadedBelow'
<1> LocalTypes
  BY TypeHalves
<1>1. CASE UNCHANGED <<flow_map, elem, handshake_map, arrived, locals, tally>>
  BY <1>1 DEF LoadedBelow, locals, Key
<1>2. ASSUME NEW c \in Cpus, CpuStep(c), NEW d \in Cpus
      PROVE  /\ pc'[d] = "storePackets" => reg'[d] <= tally'[frame'[d].key].packets
             /\ pc'[d] = "storeBytes" => reg'[d] <= tally'[frame'[d].key].bytes
  <2>0. ASSUME pc[d] # "idle" PROVE Key(d) \in Keys /\ reg[d] \in Nat
    BY <2>0, PacketKeys DEF LocalTypes, Key
  <2>1. CASE d # c
    <3> pc'[d] = pc[d] /\ frame'[d] = frame[d] /\ reg'[d] = reg[d]
      BY <1>2, <2>1, OtherLocals
    <3> QED BY <2>0, TallyGrows DEF LoadedBelow, Key
  <2>2. ASSUME d = c, LoadPackets(c)
        PROVE  pc'[d] = "storePackets" /\ reg'[d] <= tally'[frame'[d].key].packets
    <3>1. /\ pc'[c] = "storePackets" /\ reg'[c] = elem[stats[c]].packets
          /\ frame' = frame /\ tally' = tally
      BY <2>2 DEF LoadPackets, Goto, LocalTypes
    <3>2. stats[c] = flow_map[Key(c)] /\ stats[c] \in Slots /\ Key(c) \in Keys
      BY <2>0, <2>2 DEF LoadPackets, Held, LocalTypes, Unheld
    <3>3. elem[stats[c]].packets <= tally[Key(c)].packets
      BY <3>2, SentinelAssumption DEF NoOvercount, Tracked
    <3> QED BY <2>2, <3>1, <3>3 DEF Key
  <2>3. ASSUME d = c, LoadBytes(c)
        PROVE  pc'[d] = "storeBytes" /\ reg'[d] <= tally'[frame'[d].key].bytes
    <3>1. /\ pc'[c] = "storeBytes" /\ reg'[c] = elem[stats[c]].bytes
          /\ frame' = frame /\ tally' = tally
      BY <2>3 DEF LoadBytes, Goto, LocalTypes
    <3>2. stats[c] = flow_map[Key(c)] /\ stats[c] \in Slots /\ Key(c) \in Keys
      BY <2>0, <2>3 DEF LoadBytes, Held, LocalTypes, Unheld
    <3>3. elem[stats[c]].bytes <= tally[Key(c)].bytes
      BY <3>2, SentinelAssumption DEF NoOvercount, Tracked
    <3> QED BY <2>3, <3>1, <3>3 DEF Key
  <2> QED BY <1>2, <2>1, <2>2, <2>3, OwnLocals
<1> QED BY <1>1, <1>2, CpuSteps DEF LoadedBelow, Key

LEMMA AnnouncedPreserved ==
  ASSUME TypeOK, Announced, [TcNext]_tcVars
  PROVE  Announced'
<1> LocalTypes
  BY TypeHalves
<1>1. CASE UNCHANGED <<flow_map, elem, handshake_map, arrived, locals, tally>>
  BY <1>1 DEF Announced, locals, Key, Tracked, FreeSlots
<1>2. ASSUME NEW c \in Cpus, CpuStep(c), NEW d \in Cpus, pc'[d] = "event"
      PROVE  frame'[d].key \in Tracked' \/ FreeSlots' = {}
  <2>1. CASE d # c
    BY <1>2, <2>1, OtherLocals, FlowMapGrows DEF Announced, Key
  <2>2. CASE d = c
    <3>1. Insert(c)
      BY <1>2, <2>2, OwnLocals
    <3>2. Key(c) \in Keys /\ frame' = frame
      BY <3>1, PacketKeys DEF Insert, LocalTypes, Key
    <3>3. CASE CanInsert(Key(c))
      <4>1. PICK s \in FreeSlots : flow_map' = [flow_map EXCEPT ![Key(c)] = s]
        BY <3>1, <3>3 DEF Insert
      <4>2. flow_map'[Key(c)] = s /\ s # NoSlot
        BY <3>2, <4>1, SentinelAssumption DEF FreeSlots, TypeOK
      <4> QED BY <2>2, <3>2, <4>2 DEF Tracked, Key
    <3>4. CASE ~CanInsert(Key(c))
      BY <2>2, <3>2, <3>4, FlowMapGrows DEF CanInsert, Tracked, Key
    <3> QED BY <3>3, <3>4
  <2> QED BY <2>1, <2>2
<1> QED BY <1>1, <1>2, CpuSteps DEF Announced, Key

LEMMA EventsPreserved ==
  ASSUME TypeOK, Announced, EventsFollowInsertion, [TcNext]_tcVars
  PROVE  EventsFollowInsertion'
<1>0. events \in Seq(Events)
  BY DEF TypeOK
<1>1. CASE events' = events
  BY <1>1, FlowMapGrows DEF EventsFollowInsertion
<1>2. ASSUME NEW c \in Cpus, SendEvent(c), events' # events PROVE EventsFollowInsertion'
  <2> DEFINE e == [key |-> Key(c), state |-> InitialState(frame[c]),
                   l7 |-> L7(Key(c)), timestamp |-> now[c]]
  <2>1. events' = Append(events, e)
    BY <1>2 DEF SendEvent
  <2>2. e.key \in Tracked \/ FreeSlots = {}
    BY <1>2 DEF Announced, SendEvent
  <2>3. e \in Events
    <3>1. Key(c) \in Keys /\ now[c] \in Nat
      BY <1>2, PacketKeys DEF SendEvent, TypeOK, Key
    <3> QED BY <3>1, L7Type DEF Events, InitialState
  <2> HIDE DEF e
  <2>4. \A i \in DOMAIN events' : events'[i] = e \/ (i \in DOMAIN events /\ events'[i] = events[i])
    <3>1. /\ events' \in Seq(Events) /\ Len(events') = Len(events) + 1
          /\ \A i \in 1 .. Len(events) : events'[i] = events[i]
          /\ events'[Len(events) + 1] = e
      BY <1>0, <2>1, <2>3
    <3>2. DOMAIN events' = 1 .. Len(events') /\ DOMAIN events = 1 .. Len(events)
      BY <1>0, <3>1
    <3> PICK n \in Nat : n = Len(events)
      BY <1>0
    <3>3. SUFFICES ASSUME NEW i \in 1 .. n + 1
                   PROVE  events'[i] = e \/ (i \in 1 .. n /\ events'[i] = events[i])
      BY <3>1, <3>2
    <3>4. i \in 1 .. n \/ i = n + 1
      OBVIOUS
    <3> QED BY <3>1, <3>4
  <2> QED BY <2>2, <2>4, FlowMapGrows DEF EventsFollowInsertion
<1>3. CASE TakeEvent
  <2>1. \A i \in DOMAIN events' : i + 1 \in DOMAIN events /\ events'[i] = events[i + 1]
    BY <1>0, <1>3 DEF TakeEvent
  <2> QED BY <2>1, FlowMapGrows DEF EventsFollowInsertion
<1>4. events' = events \/ TakeEvent \/ \E c \in Cpus : SendEvent(c)
  BY DEF TcNext, tcVars, maps, Tick, Receive, Run, Lookup, TrackSyn, Insert, LoadPackets,
         StorePackets, LoadBytes, StoreBytes, Touch, MatchSyn, Sample, Establish, Fin
<1> QED BY <1>1, <1>2, <1>3, <1>4

(* What the elements of tracked flows hold after a store at one element.   *)
LEMMA ElemAt ==
  ASSUME elem \in [Slots -> Stats], NEW s \in Slots, NEW r \in Slots, NEW a, NEW b
  PROVE  /\ elem' = [elem EXCEPT ![s].packets = a] =>
              /\ elem'[r].packets = IF r = s THEN a ELSE elem[r].packets
              /\ elem'[r].bytes = elem[r].bytes
         /\ elem' = [elem EXCEPT ![s].bytes = a] =>
              /\ elem'[r].packets = elem[r].packets
              /\ elem'[r].bytes = IF r = s THEN a ELSE elem[r].bytes
         /\ elem' = [elem EXCEPT ![s].state = a] =>
              /\ elem'[r].packets = elem[r].packets
              /\ elem'[r].bytes = elem[r].bytes
  BY DEF Stats

LEMMA ElemAtPair ==
  ASSUME elem \in [Slots -> Stats], NEW s \in Slots, NEW r \in Slots, NEW a, NEW b,
         \/ elem' = [elem EXCEPT ![s].last_seen = a, ![s].l7 = b]
         \/ elem' = [elem EXCEPT ![s].latency_sum = a, ![s].latency_count = b]
  PROVE  /\ elem'[r].packets = elem[r].packets
         /\ elem'[r].bytes = elem[r].bytes
  BY DEF Stats

(* Steps that touch neither the tallies nor the counters of an element.    *)
LEMMA CountersKept ==
  ASSUME TypeOK, [TcNext]_tcVars,
         ~ \E c \in Cpus : Insert(c) \/ StorePackets(c) \/ StoreBytes(c),
         NEW r \in Slots
  PROVE  elem'[r].packets = elem[r].packets /\ elem'[r].bytes = elem[r].bytes
<1> SharedTypes /\ LocalTypes
  BY TypeHalves
<1>1. CASE elem' = elem
  BY <1>1
<1>2. ASSUME NEW c \in Cpus, Establish(c) \/ Fin(c)
      PROVE  elem'[r].packets = elem[r].packets /\ elem'[r].bytes = elem[r].bytes
  <2>1. stats[c] \in Slots
    BY <1>2 DEF Establish, Fin, LocalTypes, Unheld
  <2>2. PICK st : elem' = [elem EXCEPT ![stats[c]].state = st]
    BY <1>2 DEF Establish, Fin
  <2> QED BY <2>1, <2>2, ElemAt DEF SharedTypes
<1>3. ASSUME NEW c \in Cpus, Touch(c) \/ Sample(c)
      PROVE  elem'[r].packets = elem[r].packets /\ elem'[r].bytes = elem[r].bytes
  <2>1. stats[c] \in Slots
    BY <1>3 DEF Touch, Sample, LocalTypes, Unheld
  <2>2. CASE Touch(c)
    <3>1. PICK a, b : elem' = [elem EXCEPT ![stats[c]].last_seen = a, ![stats[c]].l7 = b]
      BY <2>2 DEF Touch
    <3> QED BY <2>1, <3>1, ElemAtPair DEF SharedTypes
  <2>3. CASE Sample(c)
    <3>1. PICK a, b : elem' = [elem EXCEPT ![stats[c]].latency_sum = a,
                                           ![stats[c]].latency_count = b]
      BY <2>3 DEF Sample
    <3> QED BY <2>1, <3>1, ElemAtPair DEF SharedTypes
  <2> QED BY <1>3, <2>2, <2>3
<1>4. elem' = elem \/ \E c \in Cpus : Establish(c) \/ Fin(c) \/ Touch(c) \/ Sample(c)
  BY DEF TcNext, tcVars, maps, TakeEvent, Tick, Receive, Run, Lookup, TrackSyn, SendEvent,
         LoadPackets, LoadBytes, MatchSyn
<1> QED BY <1>1, <1>2, <1>3, <1>4

LEMMA NoOvercountPreserved ==
  ASSUME TypeOK, Held, Injective, LoadedBelow, NoOvercount, [TcNext]_tcVars
  PROVE  NoOvercount'
<1> SharedTypes /\ LocalTypes
  BY TypeHalves
<1> DEFINE Below(k) == /\ elem[flow_map[k]].packets <= tally[k].packets
                       /\ elem[flow_map[k]].bytes <= tally[k].bytes
<1>0. ASSUME NEW k \in Keys, flow_map[k] # NoSlot
      PROVE  /\ flow_map[k] \in Slots /\ flow_map'[k] = flow_map[k]
             /\ elem[flow_map[k]].packets \in Nat /\ elem[flow_map[k]].bytes \in Nat
             /\ Below(k)
  BY <1>0, FlowMapGrows DEF SharedTypes, Stats, NoOvercount, Tracked
<1> HIDE DEF Below
<1> SUFFICES ASSUME NEW k \in Keys, flow_map'[k] # NoSlot
             PROVE  /\ elem'[flow_map'[k]].packets <= tally'[k].packets
                    /\ elem'[flow_map'[k]].bytes <= tally'[k].bytes
  BY DEF NoOvercount, Tracked
<1>1. ASSUME flow_map[k] # NoSlot,
             elem'[flow_map[k]].packets = elem[flow_map[k]].packets,
             elem'[flow_map[k]].bytes = elem[flow_map[k]].bytes
      PROVE  /\ elem'[flow_map'[k]].packets <= tally'[k].packets
             /\ elem'[flow_map'[k]].bytes <= tally'[k].bytes
  BY <1>0, <1>1, TallyGrows DEF Below
<1>2. CASE ~ \E c \in Cpus : Insert(c) \/ StorePackets(c) \/ StoreBytes(c)
  <2>1. flow_map[k] # NoSlot
    BY <1>2, FlowMapStep
  <2> QED BY <1>0, <1>1, <1>2, <2>1, CountersKept
<1>3. ASSUME NEW c \in Cpus, Insert(c)
      PROVE  /\ elem'[flow_map'[k]].packets <= tally'[k].packets
             /\ elem'[flow_map'[k]].bytes <= tally'[k].bytes
  <2>0. Key(c) \in Keys /\ frame[c] \in Packets /\ frame[c].size \in Nat /\ now[c] \in Nat
    BY <1>3, PacketKeys DEF Insert, LocalTypes, Key
  <2>1. CASE ~CanInsert(Key(c))
    BY <1>1, <1>3, <2>1 DEF Insert
  <2>2. CASE CanInsert(Key(c))
    <3>1. PICK s \in FreeSlots :
             /\ flow_map' = [flow_map EXCEPT ![Key(c)] = s]
             /\ elem' = [elem EXCEPT ![s] = NewStats(frame[c], now[c])]
      BY <1>3, <2>2 DEF Insert
    <3>2. s \in Slots /\ \A j \in Keys : flow_map[j] # s
      BY DEF FreeSlots
    <3>3. CASE k # Key(c)
      <4>1. flow_map[k] # NoSlot
        BY <2>0, <3>1, <3>3 DEF SharedTypes
      <4>2. elem'[flow_map[k]] = elem[flow_map[k]]
        BY <1>0, <3>1, <3>2, <4>1 DEF SharedTypes
      <4> QED BY <1>1, <4>1, <4>2
    <3>4. CASE k = Key(c)
      <4>1. flow_map'[k] = s /\ elem'[s] = NewStats(frame[c], now[c])
        BY <2>0, <3>1, <3>2, <3>4 DEF SharedTypes
      <4>2. elem'[s].packets = 1 /\ elem'[s].bytes = frame[c].size
        BY <2>0, <4>1, NewStatsType
      <4>3. tally[k] \in Tally /\ tally[k].packets \in Nat /\ tally[k].bytes \in Nat
        BY DEF SharedTypes, Tally
      <4> PICK a \in Nat : a = tally[k].packets + 1
        BY <4>3
      <4> PICK b \in Nat : b = tally[k].bytes + frame[c].size
        BY <2>0, <4>3
      <4>4. tally' = [tally EXCEPT ![k].packets = a, ![k].bytes = b]
        BY <1>3, <3>4 DEF Insert
      <4>5. tally'[k].packets = a /\ tally'[k].bytes = b
        BY <4>4, TallyAtBoth DEF SharedTypes
      <4> QED BY <2>0, <4>1, <4>2, <4>3, <4>5
    <3> QED BY <3>3, <3>4
  <2> QED BY <2>1, <2>2
<1>4. ASSUME NEW c \in Cpus, StorePackets(c) \/ StoreBytes(c)
      PROVE  /\ elem'[flow_map'[k]].packets <= tally'[k].packets
             /\ elem'[flow_map'[k]].bytes <= tally'[k].bytes
  <2>0. /\ Key(c) \in Keys /\ frame[c].size \in Nat /\ reg[c] \in Nat
        /\ stats[c] \in Slots /\ stats[c] = flow_map[Key(c)] /\ stats[c] # NoSlot
    BY <1>4, PacketKeys, SentinelAssumption
       DEF StorePackets, StoreBytes, LocalTypes, Key, Held, Unheld
  <2>1. flow_map' = flow_map /\ flow_map[k] # NoSlot /\ flow_map[k] \in Slots
    BY <1>0, <1>4 DEF StorePackets, StoreBytes
  <2>2. CASE k # Key(c)
    <3>1. flow_map[k] # stats[c]
      BY <2>0, <2>1, <2>2 DEF Injective
    <3>2. /\ elem'[flow_map[k]].packets = elem[flow_map[k]].packets
          /\ elem'[flow_map[k]].bytes = elem[flow_map[k]].bytes
      BY <1>4, <2>0, <2>1, <3>1, ElemAt DEF StorePackets, StoreBytes, SharedTypes
    <3> QED BY <1>1, <2>1, <3>2
  <2>3. CASE k = Key(c) /\ StorePackets(c)
    <3>1. tally[k].packets \in Nat /\ reg[c] <= tally[k].packets
      BY <2>3 DEF LoadedBelow, StorePackets, SharedTypes, Tally
    <3> PICK a \in Nat : a = tally[k].packets + 1
      BY <3>1
    <3>2. tally'[k].packets = a
      <4>1. tally' = [tally EXCEPT ![k].packets = a]
        BY <2>3 DEF StorePackets
      <4> QED BY <4>1, TallyAt DEF SharedTypes
    <3>3. elem'[flow_map[k]].packets = reg[c] + 1
      BY <2>0, <2>3, ElemAt DEF StorePackets, SharedTypes
    <3>4. elem'[flow_map[k]].bytes = elem[flow_map[k]].bytes
      BY <2>0, <2>3, ElemAt DEF StorePackets, SharedTypes
    <3> QED BY <1>0, <2>0, <2>1, <3>1, <3>2, <3>3, <3>4, TallyGrows DEF Below
  <2>4. CASE k = Key(c) /\ StoreBytes(c)
    <3>1. tally[k].bytes \in Nat /\ reg[c] <= tally[k].bytes
      BY <2>4 DEF LoadedBelow, StoreBytes, SharedTypes, Tally
    <3> PICK a \in Nat : a = tally[k].bytes + frame[c].size
      BY <2>0, <3>1
    <3>2. tally'[k].bytes = a
      <4>1. tally' = [tally EXCEPT ![k].bytes = a]
        BY <2>4 DEF StoreBytes
      <4> QED BY <4>1, TallyAt DEF SharedTypes
    <3>3. elem'[flow_map[k]].bytes = reg[c] + frame[c].size
      BY <2>0, <2>4, ElemAt DEF StoreBytes, SharedTypes
    <3>4. elem'[flow_map[k]].packets = elem[flow_map[k]].packets
      BY <2>0, <2>4, ElemAt DEF StoreBytes, SharedTypes
    <3> QED BY <1>0, <2>0, <2>1, <3>1, <3>2, <3>3, <3>4, TallyGrows DEF Below
  <2> QED BY <1>4, <2>2, <2>3, <2>4
<1> QED BY <1>2, <1>3, <1>4

LEMMA InvariantPreserved == IInv /\ [TcNext]_tcVars => IInv'
<1> SUFFICES ASSUME IInv, [TcNext]_tcVars PROVE IInv'
  OBVIOUS
<1> USE DEF IInv
<1>1. SharedTypes' /\ LocalTypes'
  BY SharedTypesPreserved, LocalTypesPreserved
<1>2. TypeOK'
  BY <1>1 DEF TypeOK, SharedTypes, LocalTypes, Unheld, Tally
<1>3. Held' /\ Announced'
  BY HeldPreserved, AnnouncedPreserved
<1>4. Injective'
  BY FlowMapGrows
<1>5. LoadedBelow' /\ NoOvercount'
  BY LoadedBelowPreserved, NoOvercountPreserved
<1>6. EventsFollowInsertion'
  BY EventsPreserved
<1> QED BY <1>2, <1>3, <1>4, <1>5, <1>6

(* Every state the program reaches, on any number of CPUs, satisfies the   *)
(* inductive invariant.                                                    *)
THEOREM InvariantHolds == TcSpec => []IInv
  BY InitInvariant, InvariantPreserved, PTL DEF TcSpec

(* The maps, the ring and the program's locals hold only well-formed       *)
(* values, and a CPU past a successful lookup holds an element.            *)
THEOREM TypeCorrect == TcSpec => []TypeOK
  BY InvariantHolds, PTL DEF IInv

(* Concurrent updates of tc-monitor.c:199 lose counts but never invent     *)
(* them: a flow's counters stay at or below the frames and bytes the       *)
(* program handled for it.                                                 *)
THEOREM NeverOvercounts == TcSpec => []NoOvercount
  BY InvariantHolds, PTL DEF IInv

(* An event on the ring names a flow userspace can look up, unless         *)
(* flow_map was full when the flow appeared.                               *)
THEOREM EventsNameFlows == TcSpec => []EventsFollowInsertion
  BY InvariantHolds, PTL DEF IInv

-----------------------------------------------------------------------------
(* Flows of one CPU: exact counts *)

(* A CPU runs only frames that are steered to it.                          *)
Steered == \A c \in Cpus : pc[c] # "idle" => c \in Steer[Key(c)]

(* A CPU that is about to insert a flow does not find it in the map.       *)
Missed ==
  \A c \in Cpus : pc[c] \in {"trackSyn", "insert"} /\ Alone(Key(c)) => Key(c) \notin Tracked

(* What a CPU loaded is what the flow has handled so far.                  *)
LoadedExact ==
  \A c \in Cpus : Alone(Key(c)) =>
    /\ pc[c] = "storePackets" => reg[c] = tally[Key(c)].packets
    /\ pc[c] = "storeBytes" => reg[c] = tally[Key(c)].bytes

(* As long as there is room, a flow that is not in the map has no frames.  *)
Uncounted ==
  \A k \in Keys \ Tracked : Alone(k) =>
    FreeSlots = {} \/ (tally[k].packets = 0 /\ tally[k].bytes = 0)

ExactInv == Steered /\ Missed /\ LoadedExact /\ Uncounted /\ CountsExact

LEMMA StartsExact == Init => ExactInv
  BY DEF Init, ExactInv, Steered, Missed, LoadedExact, Uncounted, CountsExact, Tracked

(* At most one CPU runs frames of such a flow.                             *)
LEMMA TwoAlone ==
  ASSUME Steered, NEW c \in Cpus, NEW d \in Cpus, pc[c] # "idle", pc[d] # "idle",
         Key(c) = Key(d), Alone(Key(d))
  PROVE  c = d
  BY DEF Steered, Alone

LEMMA SteeredPreserved ==
  ASSUME TypeOK, Steered, [TcNext]_tcVars
  PROVE  Steered'
<1> LocalTypes
  BY TypeHalves
<1>1. CASE UNCHANGED <<flow_map, elem, handshake_map, arrived, locals, tally>>
  BY <1>1 DEF Steered, locals, Key
<1>2. ASSUME NEW c \in Cpus, CpuStep(c), pc'[c] # "idle" PROVE c \in Steer[frame'[c].key]
  <2> USE DEF Goto, Return, ToFin, LocalTypes, maps, locals
  <2>1. ASSUME NEW p \in Packets, Receive(c, p) PROVE c \in Steer[frame'[c].key]
    BY <2>1 DEF Receive
  <2>2. CASE Run(c)
    <3>1. CASE Lookup(c) \/ TrackSyn(c) \/ Insert(c) \/ SendEvent(c)
      BY <1>2, <3>1 DEF Lookup, TrackSyn, Insert, SendEvent, Steered, Key
    <3>2. CASE LoadPackets(c) \/ StorePackets(c) \/ LoadBytes(c) \/ StoreBytes(c)
      BY <1>2, <3>2 DEF LoadPackets, StorePackets, LoadBytes, StoreBytes, Steered, Key
    <3>3. CASE Touch(c) \/ Sample(c) \/ Establish(c) \/ Fin(c)
      BY <1>2, <3>3 DEF Touch, Sample, Establish, Fin, Steered, Key
    <3>4. CASE MatchSyn(c)
      BY <1>2, <3>4 DEF MatchSyn, Steered, Key
    <3> QED BY <2>2, <3>1, <3>2, <3>3, <3>4 DEF Run
  <2> QED BY <1>2, <2>1, <2>2 DEF CpuStep
<1>3. ASSUME NEW c \in Cpus, CpuStep(c), NEW d \in Cpus, pc'[d] # "idle"
      PROVE  d \in Steer[frame'[d].key]
  <2>1. CASE d = c
    BY <1>2, <1>3, <2>1
  <2>2. CASE d # c
    BY <1>3, <2>2, OtherLocals DEF Steered, Key
  <2> QED BY <2>1, <2>2
<1> QED BY <1>1, <1>3, CpuSteps DEF Steered, Key

(* Only these three steps count.                                           *)
LEMMA TallyKept ==
  ASSUME TypeOK, [TcNext]_tcVars, NEW k \in Keys,
         ~ \E c \in Cpus : Insert(c) \/ StorePackets(c) \/ StoreBytes(c)
  PROVE  tally'[k].packets = tally[k].packets /\ tally'[k].bytes = tally[k].bytes
<1> SharedTypes /\ LocalTypes
  BY TypeHalves
<1>1. ASSUME NEW c \in Cpus, TrackSyn(c), tally' # tally
      PROVE  tally'[k].packets = tally[k].packets /\ tally'[k].bytes = tally[k].bytes
  <2>1. Key(c) \in Keys
    BY <1>1, PacketKeys DEF LocalTypes, Key, TrackSyn
  <2> HIDE DEF Key
  <2>2. tally[Key(c)].syns \in Nat
    BY <2>1 DEF SharedTypes, Tally
  <2> PICK a \in Nat : a = tally[Key(c)].syns + 1
    BY <2>2
  <2>3. tally' = [tally EXCEPT ![Key(c)].syns = a]
    BY <1>1 DEF TrackSyn
  <2> QED BY <2>1, <2>3, TallyAt DEF SharedTypes
<1>2. tally' = tally \/ \E c \in Cpus : TrackSyn(c)
  BY DEF TcNext, tcVars, TakeEvent, Tick, Receive, Run, Lookup, SendEvent, LoadPackets,
         LoadBytes, Touch, MatchSyn, Sample, Establish, Fin
<1> QED BY <1>1, <1>2

LEMMA MissedPreserved ==
  ASSUME TypeOK, Steered, Missed, [TcNext]_tcVars
  PROVE  Missed'
<1> LocalTypes
  BY TypeHalves
<1>1. CASE UNCHANGED <<flow_map, elem, handshake_map, arrived, locals, tally>>
  BY <1>1 DEF Missed, locals, Key, Tracked
<1>2. ASSUME NEW c \in Cpus, CpuStep(c), pc'[c] \in {"trackSyn", "insert"}, Alone(frame'[c].key)
      PROVE  frame'[c].key \notin Tracked'
  <2>1. Lookup(c) \/ TrackSyn(c)
    <3> USE DEF Goto, Return, ToFin, LocalTypes, locals
    <3>1. CASE Insert(c) \/ SendEvent(c) \/ \E p \in Packets : Receive(c, p)
      BY <1>2, <3>1 DEF Insert, SendEvent, Receive
    <3>2. CASE LoadPackets(c) \/ StorePackets(c) \/ LoadBytes(c) \/ StoreBytes(c)
      BY <1>2, <3>2 DEF LoadPackets, StorePackets, LoadBytes, StoreBytes
    <3>3. CASE Touch(c) \/ Sample(c) \/ Establish(c) \/ Fin(c)
      BY <1>2, <3>3 DEF Touch, Sample, Establish, Fin
    <3>4. CASE MatchSyn(c)
      BY <1>2, <3>4 DEF MatchSyn
    <3> QED BY <1>2, <3>1, <3>2, <3>3, <3>4 DEF CpuStep, Run
  <2>2. UNCHANGED <<flow_map, frame>>
    BY <2>1 DEF Lookup, TrackSyn, maps
  <2>3. Key(c) \notin Tracked
    <3>1. CASE Lookup(c)
      BY <1>2, <3>1 DEF Lookup, Goto, AfterLookup, LocalTypes, Tracked
    <3>2. CASE TrackSyn(c)
      BY <1>2, <2>2, <3>2 DEF TrackSyn, Missed, Key
    <3> QED BY <2>1, <3>1, <3>2
  <2> QED BY <2>2, <2>3 DEF Tracked, Key
<1>3. ASSUME NEW c \in Cpus, CpuStep(c), NEW d \in Cpus, d # c,
             pc'[d] \in {"trackSyn", "insert"}, Alone(frame'[d].key)
      PROVE  frame'[d].key \notin Tracked'
  <2>1. pc[d] = pc'[d] /\ frame'[d] = frame[d] /\ Key(d) \notin Tracked
    BY <1>3, OtherLocals DEF Missed, Key
  <2>2. CASE flow_map' = flow_map
    BY <2>1, <2>2 DEF Tracked, Key
  <2>3. ASSUME NEW e \in Cpus, NEW s \in FreeSlots, Insert(e),
               flow_map' = [flow_map EXCEPT ![Key(e)] = s]
        PROVE  Key(d) \notin Tracked'
    <3>1. pc[e] = "insert" /\ pc'[e] = "event"
      BY <2>3 DEF Insert, Goto, LocalTypes
    <3>2. e # d
      BY <1>3, <3>1
    <3>3. Key(e) # Key(d)
      BY <1>3, <2>1, <3>1, <3>2, TwoAlone DEF Key
    <3> QED BY <2>1, <2>3, <3>3 DEF Tracked, TypeOK
  <2> QED BY <2>1, <2>2, <2>3, FlowMapStep DEF Key
<1> QED BY <1>1, <1>2, <1>3, CpuSteps DEF Missed, Key

(* What the three counting steps add, and to which flow.                   *)
LEMMA InsertTallies ==
  ASSUME TypeOK, NEW c \in Cpus, Insert(c), NEW k \in Keys
  PROVE  /\ Key(c) \in Keys /\ frame[c] \in Packets /\ frame[c].size \in Nat /\ now[c] \in Nat
         /\ tally[k].packets \in Nat /\ tally[k].bytes \in Nat
         /\ tally'[k].packets = IF k = Key(c) THEN tally[k].packets + 1 ELSE tally[k].packets
         /\ tally'[k].bytes =
              IF k = Key(c) THEN tally[k].bytes + frame[c].size ELSE tally[k].bytes
<1> SharedTypes /\ LocalTypes
  BY TypeHalves
<1>1. Key(c) \in Keys /\ frame[c] \in Packets /\ frame[c].size \in Nat /\ now[c] \in Nat
  BY PacketKeys DEF Insert, LocalTypes, Key
<1> HIDE DEF Key
<1>2. /\ tally[k].packets \in Nat /\ tally[k].bytes \in Nat
      /\ tally[Key(c)].packets \in Nat /\ tally[Key(c)].bytes \in Nat
  BY <1>1 DEF SharedTypes, Tally
<1> PICK a \in Nat : a = tally[Key(c)].packets + 1
  BY <1>2
<1> PICK b \in Nat : b = tally[Key(c)].bytes + frame[c].size
  BY <1>1, <1>2
<1>3. tally' = [tally EXCEPT ![Key(c)].packets = a, ![Key(c)].bytes = b]
  BY <1>1 DEF Insert, SharedTypes
<1>4. /\ tally'[k].packets = IF k = Key(c) THEN a ELSE tally[k].packets
      /\ tally'[k].bytes = IF k = Key(c) THEN b ELSE tally[k].bytes
  BY <1>1, <1>3, TallyAtBoth DEF SharedTypes
<1> QED BY <1>1, <1>2, <1>4

LEMMA StoreAdds ==
  ASSUME TypeOK, NEW c \in Cpus, NEW k \in Keys, StorePackets(c) \/ StoreBytes(c)
  PROVE  /\ Key(c) \in Keys /\ frame[c].size \in Nat /\ stats[c] \in Slots
         /\ StorePackets(c) =>
              /\ tally'[k].packets = IF k = Key(c) THEN tally[k].packets + 1 ELSE tally[k].packets
              /\ tally'[k].bytes = tally[k].bytes
         /\ StoreBytes(c) =>
              /\ tally'[k].packets = tally[k].packets
              /\ tally'[k].bytes =
                   IF k = Key(c) THEN tally[k].bytes + frame[c].size ELSE tally[k].bytes
<1> SharedTypes /\ LocalTypes
  BY TypeHalves
<1>1. Key(c) \in Keys /\ frame[c].size \in Nat /\ stats[c] \in Slots
  BY PacketKeys DEF StorePackets, StoreBytes, LocalTypes, Key, Unheld
<1> HIDE DEF Key
<1>2. tally[Key(c)].packets \in Nat /\ tally[Key(c)].bytes \in Nat
  BY <1>1 DEF SharedTypes, Tally
<1>3. ASSUME StorePackets(c)
      PROVE  /\ tally'[k].packets = IF k = Key(c) THEN tally[k].packets + 1 ELSE tally[k].packets
             /\ tally'[k].bytes = tally[k].bytes
  <2> PICK a \in Nat : a = tally[Key(c)].packets + 1
    BY <1>2
  <2>1. tally' = [tally EXCEPT ![Key(c)].packets = a]
    BY <1>3 DEF StorePackets
  <2> QED BY <1>1, <2>1, TallyAt DEF SharedTypes
<1>4. ASSUME StoreBytes(c)
      PROVE  /\ tally'[k].packets = tally[k].packets
             /\ tally'[k].bytes =
                  IF k = Key(c) THEN tally[k].bytes + frame[c].size ELSE tally[k].bytes
  <2> PICK a \in Nat : a = tally[Key(c)].bytes + frame[c].size
    BY <1>1, <1>2
  <2>1. tally' = [tally EXCEPT ![Key(c)].bytes = a]
    BY <1>4 DEF StoreBytes
  <2> QED BY <1>1, <2>1, TallyAt DEF SharedTypes
<1> QED BY <1>1, <1>3, <1>4

LEMMA StoreTallies ==
  ASSUME TypeOK, Held, NEW c \in Cpus, NEW k \in Keys, StorePackets(c) \/ StoreBytes(c)
  PROVE  /\ Key(c) \in Tracked /\ stats[c] = flow_map[Key(c)] /\ stats[c] \in Slots
         /\ StorePackets(c) =>
              /\ tally'[k].packets = IF k = Key(c) THEN tally[k].packets + 1 ELSE tally[k].packets
              /\ tally'[k].bytes = tally[k].bytes
         /\ StoreBytes(c) =>
              /\ tally'[k].packets = tally[k].packets
              /\ tally'[k].bytes =
                   IF k = Key(c) THEN tally[k].bytes + frame[c].size ELSE tally[k].bytes
<1>1. Key(c) \in Keys /\ stats[c] \in Slots
  BY StoreAdds
<1>2. stats[c] = flow_map[Key(c)]
  BY DEF StorePackets, StoreBytes, Held, Unheld
<1>3. Key(c) \in Tracked
  BY <1>1, <1>2, SentinelAssumption DEF Tracked
<1> QED BY <1>1, <1>2, <1>3, StoreAdds

(* Nobody else counts for a flow of one CPU.                               *)
LEMMA OthersCountElsewhere ==
  ASSUME TypeOK, Steered, [TcNext]_tcVars, NEW d \in Cpus,
         pc[d] # "idle", pc'[d] = pc[d], Alone(Key(d))
  PROVE  /\ tally'[Key(d)].packets = tally[Key(d)].packets
         /\ tally'[Key(d)].bytes = tally[Key(d)].bytes
<1> LocalTypes
  BY TypeHalves
<1>1. Key(d) \in Keys
  BY PacketKeys DEF LocalTypes, Key
<1>2. CASE ~ \E c \in Cpus : Insert(c) \/ StorePackets(c) \/ StoreBytes(c)
  BY <1>1, <1>2, TallyKept
<1>3. ASSUME NEW c \in Cpus, Insert(c) \/ StorePackets(c) \/ StoreBytes(c)
      PROVE  /\ tally'[Key(d)].packets = tally[Key(d)].packets
             /\ tally'[Key(d)].bytes = tally[Key(d)].bytes
  <2>1. pc[c] # "idle" /\ pc'[c] # pc[c]
    BY <1>3 DEF Insert, StorePackets, StoreBytes, Goto, LocalTypes
  <2>2. Key(c) # Key(d)
    BY <2>1, TwoAlone
  <2>3. CASE Insert(c)
    BY <1>1, <2>2, <2>3, InsertTallies
  <2>4. CASE StorePackets(c) \/ StoreBytes(c)
    BY <1>1, <2>2, <2>4, StoreAdds
  <2> QED BY <1>3, <2>3, <2>4
<1> QED BY <1>2, <1>3

LEMMA LoadedExactPreserved ==
  ASSUME TypeOK, Held, Steered, LoadedExact, CountsExact, [TcNext]_tcVars
  PROVE  LoadedExact'
<1> LocalTypes
  BY TypeHalves
<1>1. CASE UNCHANGED <<flow_map, elem, handshake_map, arrived, locals, tally>>
  BY <1>1 DEF LoadedExact, locals, Key
<1>2. ASSUME NEW c \in Cpus, LoadPackets(c) \/ LoadBytes(c)
      PROVE  /\ Key(c) \in Tracked /\ stats[c] = flow_map[Key(c)]
             /\ frame' = frame /\ tally' = tally
  <2>1. Key(c) \in Keys /\ stats[c] \in Slots /\ stats[c] = flow_map[Key(c)]
    BY <1>2, PacketKeys DEF LoadPackets, LoadBytes, Held, LocalTypes, Unheld, Key
  <2> QED BY <1>2, <2>1, SentinelAssumption DEF LoadPackets, LoadBytes, Tracked
<1>3. ASSUME NEW c \in Cpus, LoadPackets(c), Alone(frame'[c].key)
      PROVE  pc'[c] = "storePackets" /\ reg'[c] = tally'[frame'[c].key].packets
  <2>1. pc'[c] = "storePackets" /\ reg'[c] = elem[stats[c]].packets
    BY <1>3 DEF LoadPackets, Goto, LocalTypes
  <2> QED BY <1>2, <1>3, <2>1 DEF CountsExact, Key
<1>4. ASSUME NEW c \in Cpus, LoadBytes(c), Alone(frame'[c].key)
      PROVE  pc'[c] = "storeBytes" /\ reg'[c] = tally'[frame'[c].key].bytes
  <2>1. pc'[c] = "storeBytes" /\ reg'[c] = elem[stats[c]].bytes
    BY <1>4 DEF LoadBytes, Goto, LocalTypes
  <2> QED BY <1>2, <1>4, <2>1 DEF CountsExact, Key
<1>5. ASSUME NEW c \in Cpus, CpuStep(c), NEW d \in Cpus, Alone(frame'[d].key)
      PROVE  /\ pc'[d] = "storePackets" => reg'[d] = tally'[frame'[d].key].packets
             /\ pc'[d] = "storeBytes" => reg'[d] = tally'[frame'[d].key].bytes
  <2>1. CASE d = c
    BY <1>3, <1>4, <1>5, <2>1, OwnLocals
  <2>2. CASE d # c
    <3>1. pc'[d] = pc[d] /\ frame'[d] = frame[d] /\ reg'[d] = reg[d] /\ Alone(Key(d))
      BY <1>5, <2>2, OtherLocals DEF Key
    <3>2. CASE pc[d] = "idle"
      BY <3>1, <3>2
    <3>3. CASE pc[d] # "idle"
      <4>1. /\ tally'[Key(d)].packets = tally[Key(d)].packets
            /\ tally'[Key(d)].bytes = tally[Key(d)].bytes
        BY <3>1, <3>3, OthersCountElsewhere
      <4> QED BY <3>1, <4>1 DEF LoadedExact, Key
    <3> QED BY <3>2, <3>3
  <2> QED BY <2>1, <2>2
<1> QED BY <1>1, <1>5, CpuSteps DEF LoadedExact, Key

LEMMA UncountedPreserved ==
  ASSUME TypeOK, Held, Uncounted, [TcNext]_tcVars
  PROVE  Uncounted'
<1> SUFFICES ASSUME NEW k \in Keys, k \notin Tracked', FreeSlots' # {}, Alone(k)
             PROVE  tally'[k].packets = 0 /\ tally'[k].bytes = 0
  BY DEF Uncounted
<1>1. k \notin Tracked /\ FreeSlots # {} /\ tally[k].packets = 0 /\ tally[k].bytes = 0
  BY FlowMapGrows DEF Uncounted
<1>2. CASE ~ \E c \in Cpus : Insert(c) \/ StorePackets(c) \/ StoreBytes(c)
  BY <1>1, <1>2, TallyKept
<1>3. ASSUME NEW c \in Cpus, Insert(c) PROVE tally'[k].packets = 0 /\ tally'[k].bytes = 0
  <2>1. CASE Key(c) = k
    <3>1. PICK s \in FreeSlots : flow_map' = [flow_map EXCEPT ![k] = s]
      BY <1>1, <1>3, <2>1 DEF Insert, CanInsert, Tracked
    <3>2. k \in Tracked'
      BY <3>1, SentinelAssumption DEF Tracked, FreeSlots, TypeOK
    <3> QED BY <3>2
  <2>2. CASE Key(c) # k
    BY <1>1, <1>3, <2>2, InsertTallies
  <2> QED BY <2>1, <2>2
<1>4. ASSUME NEW c \in Cpus, StorePackets(c) \/ StoreBytes(c)
      PROVE  tally'[k].packets = 0 /\ tally'[k].bytes = 0
  BY <1>1, <1>4, StoreTallies
<1> QED BY <1>2, <1>3, <1>4

LEMMA CountsExactPreserved ==
  ASSUME TypeOK, Held, Injective, Missed, LoadedExact, Uncounted, CountsExact, [TcNext]_tcVars
  PROVE  CountsExact'
<1> SharedTypes
  BY TypeHalves
<1> SUFFICES ASSUME NEW k \in Keys, k \in Tracked', Alone(k)
             PROVE  /\ elem'[flow_map'[k]].packets = tally'[k].packets
                    /\ elem'[flow_map'[k]].bytes = tally'[k].bytes
  BY DEF CountsExact, Tracked
<1>1. ASSUME k \in Tracked
      PROVE  /\ flow_map[k] \in Slots /\ flow_map'[k] = flow_map[k]
             /\ elem[flow_map[k]].packets = tally[k].packets
             /\ elem[flow_map[k]].bytes = tally[k].bytes
  BY <1>1, FlowMapGrows DEF SharedTypes, CountsExact, Tracked
<1>2. CASE ~ \E c \in Cpus : Insert(c) \/ StorePackets(c) \/ StoreBytes(c)
  <2>1. k \in Tracked
    BY <1>2, FlowMapStep DEF Tracked
  <2> QED BY <1>1, <1>2, <2>1, CountersKept, TallyKept
<1>3. ASSUME NEW c \in Cpus, Insert(c)
      PROVE  /\ elem'[flow_map'[k]].packets = tally'[k].packets
             /\ elem'[flow_map'[k]].bytes = tally'[k].bytes
  <2>1. /\ Key(c) \in Keys /\ (k = Key(c) => k \notin Tracked)
        /\ frame[c] \in Packets /\ frame[c].size \in Nat /\ now[c] \in Nat
    BY <1>3, InsertTallies DEF Missed, Insert
  <2> HIDE DEF Key
  <2>2. CASE ~CanInsert(Key(c))
    <3>1. flow_map' = flow_map /\ elem' = elem
      BY <1>3, <2>2 DEF Insert
    <3>2. k # Key(c) /\ k \in Tracked
      BY <2>1, <3>1 DEF Tracked
    <3> QED BY <1>1, <1>3, <3>1, <3>2, InsertTallies
  <2>3. CASE CanInsert(Key(c))
    <3>1. PICK s \in FreeSlots :
             /\ flow_map' = [flow_map EXCEPT ![Key(c)] = s]
             /\ elem' = [elem EXCEPT ![s] = NewStats(frame[c], now[c])]
      BY <1>3, <2>3 DEF Insert
    <3>2. s \in Slots /\ \A j \in Keys : flow_map[j] # s
      BY DEF FreeSlots
    <3>3. CASE k # Key(c)
      <4>1. k \in Tracked
        BY <2>1, <3>1, <3>3 DEF SharedTypes, Tracked
      <4>2. elem'[flow_map[k]] = elem[flow_map[k]]
        BY <1>1, <3>1, <3>2, <4>1 DEF SharedTypes
      <4> QED BY <1>1, <1>3, <3>3, <4>1, <4>2, InsertTallies
    <3>4. CASE k = Key(c)
      <4>1. flow_map'[k] = s /\ elem'[s] = NewStats(frame[c], now[c])
        BY <2>1, <3>1, <3>2, <3>4 DEF SharedTypes
      <4>2. elem'[s].packets = 1 /\ elem'[s].bytes = frame[c].size
        BY <2>1, <4>1, NewStatsType
      <4>3. tally[k].packets = 0 /\ tally[k].bytes = 0
        BY <2>1, <2>3, <3>4 DEF Uncounted, CanInsert
      <4> QED BY <1>3, <2>1, <3>4, <4>1, <4>2, <4>3, InsertTallies
    <3> QED BY <3>3, <3>4
  <2> QED BY <2>2, <2>3
<1>4. ASSUME NEW c \in Cpus, StorePackets(c) \/ StoreBytes(c)
      PROVE  /\ elem'[flow_map'[k]].packets = tally'[k].packets
             /\ elem'[flow_map'[k]].bytes = tally'[k].bytes
  <2>1. /\ Key(c) \in Keys /\ Key(c) \in Tracked
        /\ stats[c] \in Slots /\ stats[c] = flow_map[Key(c)]
    BY <1>4, StoreTallies DEF Tracked
  <2>2. flow_map' = flow_map /\ k \in Tracked /\ flow_map[k] \in Slots
    BY <1>1, <1>4 DEF StorePackets, StoreBytes, Tracked
  <2>3. k # Key(c) => flow_map[k] # stats[c]
    BY <2>1, <2>2 DEF Injective, Tracked
  <2> HIDE DEF Key
  <2>4. CASE StorePackets(c)
    <3>1. k = Key(c) => reg[c] = tally[k].packets
      BY <2>4 DEF LoadedExact, StorePackets
    <3>2. elem' = [elem EXCEPT ![stats[c]].packets = reg[c] + 1]
      BY <2>4 DEF StorePackets
    <3>3. /\ elem'[flow_map[k]].bytes = elem[flow_map[k]].bytes
          /\ elem'[flow_map[k]].packets =
               IF flow_map[k] = stats[c] THEN reg[c] + 1 ELSE elem[flow_map[k]].packets
      BY <2>1, <2>2, <3>2, ElemAt DEF SharedTypes
    <3> QED BY <1>1, <2>1, <2>2, <2>3, <2>4, <3>1, <3>3, StoreTallies
  <2>5. CASE StoreBytes(c)
    <3>1. k = Key(c) => reg[c] = tally[k].bytes
      BY <2>5 DEF LoadedExact, StoreBytes
    <3>2. elem' = [elem EXCEPT ![stats[c]].bytes = reg[c] + frame[c].size]
      BY <2>5 DEF StoreBytes
    <3>3. /\ elem'[flow_map[k]].packets = elem[flow_map[k]].packets
          /\ elem'[flow_map[k]].bytes =
               IF flow_map[k] = stats[c] THEN reg[c] + frame[c].size ELSE elem[flow_map[k]].bytes
      BY <2>1, <2>2, <3>2, ElemAt DEF SharedTypes
    <3> QED BY <1>1, <2>1, <2>2, <2>3, <2>5, <3>1, <3>3, StoreTallies
  <2> QED BY <1>4, <2>4, <2>5
<1> QED BY <1>2, <1>3, <1>4

LEMMA ExactInvariant == TcSpec => []ExactInv
<1>1. IInv /\ ExactInv /\ [TcNext]_tcVars => ExactInv'
  BY SteeredPreserved, MissedPreserved, LoadedExactPreserved, UncountedPreserved,
     CountsExactPreserved DEF IInv, ExactInv
<1>2. Init /\ [][TcNext]_tcVars /\ []IInv => []ExactInv
  BY <1>1, StartsExact, PTL
<1> QED BY <1>2, InvariantHolds, PTL DEF TcSpec

(* A flow whose frames go to one CPU loses no increment, whatever other    *)
(* CPUs do to other flows meanwhile: its counters are exact, also between  *)
(* the two increments.                                                     *)
THEOREM CountsExactly == TcSpec => []CountsExact
<1>1. ExactInv => CountsExact
  BY DEF ExactInv
<1> QED BY <1>1, ExactInvariant, PTL

-----------------------------------------------------------------------------
(* Flows of one CPU: the latency samples *)

(* A CPU about to take a sample still has a SYN to take it from.           *)
SynWaits ==
  \A c \in Cpus : pc[c] = "sample" /\ Joined(Key(c)) => handshake_map[Reverse(Key(c))] > 0

SynsCounted == \A k \in Keys : handshake_map[k] > 0 => tally[k].syns > 0

(* A flow has no more samples than SYNs were tracked for it; while one is  *)
(* waiting it has fewer, except between taking a sample and removing the   *)
(* SYN it was taken from.                                                  *)
Establishing(k) == \E c \in Cpus : pc[c] = "establish" /\ Key(c) = k

SamplesWithin ==
  \A k \in Tracked : Joined(k) => LET n == elem[flow_map[k]].latency_count IN
    /\ n <= tally[Reverse(k)].syns
    /\ handshake_map[Reverse(k)] > 0 => n < tally[Reverse(k)].syns \/ Establishing(k)

FirstSyn ==
  \A k \in Tracked : Alone(k) => handshake_map[k] \in {0, elem[flow_map[k]].first_seen}

(* As long as there is room, only the frame about to create a flow has     *)
(* tracked a SYN for it.                                                   *)
SynPending ==
  \A k \in Keys \ Tracked : Alone(k) =>
    \/ FreeSlots = {} \/ handshake_map[k] = 0
    \/ \E c \in Cpus : pc[c] = "insert" /\ Key(c) = k /\ handshake_map[k] = now[c]

SampleInv == SynWaits /\ SynsCounted /\ SamplesWithin /\ FirstSyn /\ SynPending

LEMMA ReverseTwice ==
  ASSUME NEW k \in Keys
  PROVE  Reverse(k) \in Keys /\ Reverse(Reverse(k)) = k
<1>1. ASSUME NEW p \in Packets PROVE Reverse(Reverse(p.key)) = p.key
  <2> DEFINE q == p.key
  <2>1. q = [f \in {"src", "dst", "src_port", "dst_port", "protocol"} |-> q[f]]
    BY PacketsAssumption DEF IsKey
  <2> HIDE DEF q
  <2>2. Reverse(Reverse(q)) = q
    BY <2>1 DEF Reverse
  <2> QED BY <2>2 DEF q
<1>2. PICK p \in Packets : k = p.key \/ k = Reverse(p.key)
  BY DEF Keys
<1> QED BY <1>1, <1>2 DEF Keys

LEMMA ReverseOneToOne ==
  ASSUME NEW j \in Keys, NEW k \in Keys, Reverse(j) = Reverse(k)
  PROVE  j = k
  BY ReverseTwice

LEMMA SamplesStart == Init => SampleInv
  BY DEF Init, SampleInv, SynWaits, SynsCounted, SamplesWithin, FirstSyn, SynPending, Tracked

(* At most one CPU runs frames of a flow whose two directions go to one.   *)
LEMMA TwoJoined ==
  ASSUME Steered, NEW c \in Cpus, NEW d \in Cpus, pc[c] # "idle", pc[d] # "idle",
         Key(c) \in {Key(d), Reverse(Key(d))}, Joined(Key(d))
  PROVE  c = d
  BY DEF Steered, Joined

LEMMA JoinedAlone ==
  ASSUME NEW k \in Keys, Joined(k)
  PROVE  Alone(k)
  BY DEF Joined, Alone

(* What is left of an element and of a tally after storing into them.      *)
LEMMA ElemRest ==
  ASSUME elem \in [Slots -> Stats], NEW s \in Slots, NEW r \in Slots, NEW a, NEW b
  PROVE  /\ elem' = [elem EXCEPT ![s].packets = a] =>
              /\ elem'[r].first_seen = elem[r].first_seen
              /\ elem'[r].latency_count = elem[r].latency_count
         /\ elem' = [elem EXCEPT ![s].bytes = a] \/ elem' = [elem EXCEPT ![s].state = a] =>
              /\ elem'[r].first_seen = elem[r].first_seen
              /\ elem'[r].latency_count = elem[r].latency_count
              /\ elem'[r].packets = elem[r].packets
         /\ elem' = [elem EXCEPT ![s].last_seen = a, ![s].l7 = b] =>
              /\ elem'[r].first_seen = elem[r].first_seen
              /\ elem'[r].latency_count = elem[r].latency_count
              /\ elem'[r].packets = elem[r].packets
         /\ elem' = [elem EXCEPT ![s].latency_sum = a, ![s].latency_count = b] =>
              /\ elem'[r].first_seen = elem[r].first_seen
              /\ elem'[r].latency_count = IF r = s THEN b ELSE elem[r].latency_count
              /\ elem'[r].packets = elem[r].packets
  BY DEF Stats

LEMMA TallyRest ==
  ASSUME tally \in [Keys -> Tally], NEW j \in Keys, NEW k \in Keys, NEW a, NEW b,
         \/ tally' = [tally EXCEPT ![j].packets = a]
         \/ tally' = [tally EXCEPT ![j].bytes = a]
         \/ tally' = [tally EXCEPT ![j].packets = a, ![j].bytes = b]
  PROVE  tally'[k].syns = tally[k].syns
  BY DEF Tally

(* What the steps of a CPU leave alone.                                    *)
LEMMA FieldsKept ==
  ASSUME TypeOK, NEW c \in Cpus, CpuStep(c), NEW k \in Keys, NEW r \in Slots
  PROVE  /\ ~TrackSyn(c) => tally'[k].syns = tally[k].syns
         /\ ~TrackSyn(c) /\ ~Establish(c) => handshake_map' = handshake_map
         /\ ~Insert(c) => flow_map' = flow_map /\ elem'[r].first_seen = elem[r].first_seen
         /\ ~Insert(c) /\ ~Sample(c) => elem'[r].latency_count = elem[r].latency_count
         /\ ~Insert(c) /\ ~StorePackets(c) => elem'[r].packets = elem[r].packets
<1> SharedTypes /\ LocalTypes
  BY TypeHalves
<1> USE DEF maps
<1>1. ASSUME NEW p \in Packets, Receive(c, p)
      PROVE  UNCHANGED <<flow_map, elem, handshake_map, tally>>
  BY <1>1 DEF Receive
<1>2. CASE Lookup(c) \/ SendEvent(c) \/ LoadPackets(c) \/ LoadBytes(c) \/ MatchSyn(c)
  <2>1. UNCHANGED <<flow_map, elem, handshake_map, tally>>
    BY <1>2 DEF Lookup, SendEvent, LoadPackets, LoadBytes, MatchSyn
  <2> QED BY <2>1
<1>3. CASE TrackSyn(c)
  <2>1. UNCHANGED <<flow_map, elem>>
    BY <1>3 DEF TrackSyn
  <2> QED BY <1>3, <2>1
<1>4. CASE Insert(c)
  <2>1. Key(c) \in Keys
    BY <1>4, PacketKeys DEF Insert, LocalTypes, Key
  <2>2. tally'[k].syns = tally[k].syns /\ handshake_map' = handshake_map
    BY <1>4, <2>1 DEF Insert, SharedTypes, Tally
  <2> QED BY <1>4, <2>2
<1>5. CASE StorePackets(c) \/ StoreBytes(c)
  <2>1. Key(c) \in Keys /\ stats[c] \in Slots
    BY <1>5, PacketKeys DEF StorePackets, StoreBytes, LocalTypes, Key, Unheld
  <2>2. tally'[k].syns = tally[k].syns
    <3>1. PICK a : \/ tally' = [tally EXCEPT ![Key(c)].packets = a]
                   \/ tally' = [tally EXCEPT ![Key(c)].bytes = a]
      BY <1>5 DEF StorePackets, StoreBytes
    <3> QED BY <2>1, <3>1, TallyRest DEF SharedTypes
  <2>3. PICK a : \/ StorePackets(c) /\ elem' = [elem EXCEPT ![stats[c]].packets = a]
                 \/ elem' = [elem EXCEPT ![stats[c]].bytes = a]
    BY <1>5 DEF StorePackets, StoreBytes
  <2>4. /\ elem'[r].first_seen = elem[r].first_seen
        /\ elem'[r].latency_count = elem[r].latency_count
        /\ ~StorePackets(c) => elem'[r].packets = elem[r].packets
    <3>1. CASE StorePackets(c) /\ elem' = [elem EXCEPT ![stats[c]].packets = a]
      BY <2>1, <3>1, ElemRest DEF SharedTypes
    <3>2. CASE elem' = [elem EXCEPT ![stats[c]].bytes = a]
      BY <2>1, <3>2, ElemRest DEF SharedTypes
    <3> QED BY <2>3, <3>1, <3>2
  <2>5. UNCHANGED <<flow_map, handshake_map>>
    BY <1>5 DEF StorePackets, StoreBytes
  <2> QED BY <2>2, <2>4, <2>5
<1>6. CASE Touch(c) \/ Sample(c) \/ Establish(c) \/ Fin(c)
  <2>1. stats[c] \in Slots
    BY <1>6 DEF Touch, Sample, Establish, Fin, LocalTypes, Unheld
  <2>2. PICK a, b :
          \/ elem' = [elem EXCEPT ![stats[c]].last_seen = a, ![stats[c]].l7 = b]
          \/ Sample(c) /\ elem' = [elem EXCEPT ![stats[c]].latency_sum = a,
                                               ![stats[c]].latency_count = b]
          \/ elem' = [elem EXCEPT ![stats[c]].state = a]
    <3>1. CASE Touch(c)
      BY <3>1 DEF Touch
    <3>2. CASE Sample(c)
      BY <3>2 DEF Sample
    <3>3. CASE Establish(c) \/ Fin(c)
      BY <3>3 DEF Establish, Fin
    <3> QED BY <1>6, <3>1, <3>2, <3>3
  <2>3. /\ elem'[r].first_seen = elem[r].first_seen
        /\ ~Sample(c) => elem'[r].latency_count = elem[r].latency_count
        /\ elem'[r].packets = elem[r].packets
    <3>1. CASE elem' = [elem EXCEPT ![stats[c]].last_seen = a, ![stats[c]].l7 = b]
      BY <2>1, <3>1, ElemRest DEF SharedTypes
    <3>2. CASE Sample(c) /\ elem' = [elem EXCEPT ![stats[c]].latency_sum = a,
                                                 ![stats[c]].latency_count = b]
      BY <2>1, <3>2, ElemRest DEF SharedTypes
    <3>3. CASE elem' = [elem EXCEPT ![stats[c]].state = a]
      BY <2>1, <3>3, ElemRest DEF SharedTypes
    <3> QED BY <2>2, <3>1, <3>2, <3>3
  <2>4. UNCHANGED <<flow_map, tally>> /\ (~Establish(c) => handshake_map' = handshake_map)
    BY <1>6 DEF Touch, Sample, Establish, Fin
  <2> QED BY <2>3, <2>4
<1> QED BY <1>1, <1>2, <1>3, <1>4, <1>5, <1>6 DEF CpuStep, Run

(* How a CPU comes to the places the invariant speaks of.                  *)
LEMMA Comings ==
  ASSUME TypeOK, NEW c \in Cpus, CpuStep(c)
  PROVE  /\ pc'[c] = "sample" => MatchSyn(c) /\ handshake_map[Reverse(Key(c))] > 0
         /\ pc[c] = "insert" => Insert(c)
         /\ pc[c] = "establish" => Establish(c)
         /\ pc[c] = "sample" => Sample(c)
<1> LocalTypes
  BY TypeHalves
<1> USE DEF Goto, Return, ToFin, LocalTypes, maps, locals
<1>1. ASSUME NEW p \in Packets, Receive(c, p)
      PROVE  pc'[c] = "lookup" /\ pc[c] = "idle"
  BY <1>1 DEF Receive
<1>2. CASE Lookup(c)
  BY <1>2 DEF Lookup, AfterLookup
<1>3. CASE TrackSyn(c) \/ Insert(c) \/ SendEvent(c)
  BY <1>3 DEF TrackSyn, Insert, SendEvent
<1>4. CASE LoadPackets(c) \/ StorePackets(c) \/ LoadBytes(c) \/ StoreBytes(c)
  BY <1>4 DEF LoadPackets, StorePackets, LoadBytes, StoreBytes
<1>5. CASE Touch(c) \/ Sample(c) \/ Establish(c) \/ Fin(c)
  BY <1>5 DEF Touch, Sample, Establish, Fin
<1>6. CASE MatchSyn(c)
  BY <1>6 DEF MatchSyn
<1> QED BY <1>1, <1>2, <1>3, <1>4, <1>5, <1>6 DEF CpuStep, Run

(* What tracking a SYN, creating a flow, taking a sample and removing a    *)
(* SYN do.                                                                 *)
LEMMA TrackSynEffect ==
  ASSUME TypeOK, NEW c \in Cpus, TrackSyn(c), NEW k \in Keys
  PROVE  /\ Key(c) \in Keys /\ now[c] \in Nat /\ tally[k].syns \in Nat /\ handshake_map[k] \in Nat
         /\ UNCHANGED <<flow_map, elem, frame, now>>
         /\ pc'[c] = "insert" /\ pc[c] = "trackSyn"
         /\ \/ handshake_map'[k] = handshake_map[k] /\ tally'[k].syns = tally[k].syns
            \/ k = Key(c) /\ handshake_map'[k] = now[c] /\ tally'[k].syns = tally[k].syns + 1
<1> SharedTypes /\ LocalTypes
  BY TypeHalves
<1>1. Key(c) \in Keys /\ now[c] \in Nat
  BY PacketKeys DEF TrackSyn, LocalTypes, Key
<1> HIDE DEF Key
<1>2. /\ UNCHANGED <<flow_map, elem, frame, now>>
      /\ pc'[c] = "insert" /\ pc[c] = "trackSyn"
  BY DEF TrackSyn, Goto, LocalTypes
<1>3. tally[k].syns \in Nat /\ handshake_map[k] \in Nat
  BY DEF SharedTypes, Tally
<1>4. CASE UNCHANGED <<handshake_map, tally>>
  BY <1>1, <1>2, <1>3, <1>4
<1>5. CASE /\ handshake_map' = [handshake_map EXCEPT ![Key(c)] = now[c]]
           /\ tally' = [tally EXCEPT ![Key(c)].syns = @ + 1]
  <2>1. handshake_map'[k] = IF k = Key(c) THEN now[c] ELSE handshake_map[k]
    BY <1>1, <1>5 DEF SharedTypes
  <2>2. tally'[k].syns = IF k = Key(c) THEN tally[k].syns + 1 ELSE tally[k].syns
    BY <1>1, <1>5 DEF SharedTypes, Tally
  <2> QED BY <1>1, <1>2, <1>3, <2>1, <2>2
<1> QED BY <1>4, <1>5 DEF TrackSyn

LEMMA InsertEffect ==
  ASSUME TypeOK, NEW c \in Cpus, Insert(c), NEW k \in Keys, k \in Tracked'
  PROVE  /\ Key(c) \in Keys /\ handshake_map' = handshake_map
         /\ tally'[Reverse(k)].syns = tally[Reverse(k)].syns
         /\ \/ k \in Tracked /\ elem'[flow_map'[k]] = elem[flow_map[k]]
            \/ /\ k = Key(c) /\ k \notin Tracked /\ FreeSlots # {}
               /\ elem'[flow_map'[k]] = NewStats(frame[c], now[c])
         /\ pc[c] = "insert" /\ pc'[c] = "event"
<1> SharedTypes /\ LocalTypes
  BY TypeHalves
<1>1. Key(c) \in Keys /\ Reverse(k) \in Keys
  BY PacketKeys, ReverseTwice DEF Insert, LocalTypes, Key
<1> HIDE DEF Key
<1>2. handshake_map' = handshake_map /\ pc[c] = "insert" /\ pc'[c] = "event"
  BY DEF Insert, Goto, LocalTypes
<1>3. tally'[Reverse(k)].syns = tally[Reverse(k)].syns
  <2>1. PICK a, b : tally' = [tally EXCEPT ![Key(c)].packets = a, ![Key(c)].bytes = b]
    <3> DEFINE a == tally[Key(c)].packets + 1
               b == tally[Key(c)].bytes + frame[c].size
    <3>1. tally' = [tally EXCEPT ![Key(c)].packets = a, ![Key(c)].bytes = b]
      BY <1>1 DEF Insert, SharedTypes
    <3> HIDE DEF a, b
    <3> QED BY <3>1
  <2> QED BY <1>1, <2>1, TallyRest DEF SharedTypes
<1>4. CASE ~CanInsert(Key(c))
  BY <1>1, <1>2, <1>3, <1>4 DEF Insert, Tracked
<1>5. CASE CanInsert(Key(c))
  <2>1. PICK s \in FreeSlots :
           /\ flow_map' = [flow_map EXCEPT ![Key(c)] = s]
           /\ elem' = [elem EXCEPT ![s] = NewStats(frame[c], now[c])]
    BY <1>5 DEF Insert
  <2>2. s \in Slots /\ \A j \in Keys : flow_map[j] # s
    BY DEF FreeSlots
  <2>3. CASE k = Key(c)
    BY <1>1, <1>2, <1>3, <1>5, <2>1, <2>2, <2>3 DEF SharedTypes, CanInsert, Tracked
  <2>4. CASE k # Key(c)
    <3>1. flow_map'[k] = flow_map[k] /\ k \in Tracked
      BY <1>1, <2>1, <2>4 DEF SharedTypes, Tracked
    <3>2. elem'[flow_map[k]] = elem[flow_map[k]]
      BY <2>1, <2>2, <3>1 DEF SharedTypes, Tracked
    <3> QED BY <1>1, <1>2, <1>3, <3>1, <3>2
  <2> QED BY <2>3, <2>4
<1> QED BY <1>4, <1>5

LEMMA NewStatsFields ==
  ASSUME NEW p, NEW t
  PROVE  /\ NewStats(p, t).latency_count = 0 /\ NewStats(p, t).packets = 1
         /\ NewStats(p, t).first_seen = t
  BY DEF NewStats, NoStats

LEMMA ElemSampled ==
  ASSUME elem \in [Slots -> Stats], NEW s \in Slots, NEW r \in Slots, NEW a, NEW b,
         elem' = [elem EXCEPT ![s].latency_sum = a, ![s].latency_count = b]
  PROVE  elem'[r].latency_count = IF r = s THEN b ELSE elem[r].latency_count
  BY DEF Stats

LEMMA SampleEffect ==
  ASSUME TypeOK, Held, NEW c \in Cpus, Sample(c), NEW r \in Slots
  PROVE  /\ elem'[r].latency_count =
              IF r = stats[c] THEN elem[r].latency_count + 1 ELSE elem[r].latency_count
         /\ pc[c] = "sample" /\ pc'[c] = "establish"
         /\ frame' = frame /\ Key(c) \in Keys /\ stats[c] = flow_map[Key(c)]
<1> SharedTypes /\ LocalTypes
  BY TypeHalves
<1>1. /\ pc[c] = "sample" /\ pc'[c] = "establish" /\ frame' = frame
      /\ Key(c) \in Keys /\ stats[c] \in Slots /\ stats[c] = flow_map[Key(c)]
  BY PacketKeys DEF Sample, Goto, LocalTypes, Unheld, Key, Held
<1>2. PICK sum, count :
        /\ elem' = [elem EXCEPT ![stats[c]].latency_sum = sum, ![stats[c]].latency_count = count]
        /\ count = elem[stats[c]].latency_count + 1
  <2> DEFINE sum == (elem[stats[c]].latency_sum + reg[c]) % U32
             count == elem[stats[c]].latency_count + 1
  <2>1. elem' = [elem EXCEPT ![stats[c]].latency_sum = sum, ![stats[c]].latency_count = count]
    BY <1>1 DEF Sample, SharedTypes, Stats
  <2>2. count = elem[stats[c]].latency_count + 1
    OBVIOUS
  <2> HIDE DEF sum, count
  <2> QED BY <2>1, <2>2
<1>3. elem' = [elem EXCEPT ![stats[c]].latency_sum = sum, ![stats[c]].latency_count = count]
  BY <1>2
<1>4. elem'[r].latency_count = IF r = stats[c] THEN count ELSE elem[r].latency_count
  <2>1. elem \in [Slots -> Stats] /\ stats[c] \in Slots
    BY <1>1 DEF SharedTypes
  <2> QED BY <1>3, <2>1, ElemSampled
<1> QED BY <1>1, <1>2, <1>4

LEMMA EstablishEffect ==
  ASSUME TypeOK, NEW c \in Cpus, Establish(c), NEW k \in Keys
  PROVE  /\ Key(c) \in Keys /\ pc[c] = "establish"
         /\ handshake_map'[k] = IF k = Reverse(Key(c)) THEN 0 ELSE handshake_map[k]
<1>1. Key(c) \in Keys
  BY PacketKeys DEF Establish, TypeOK, Key
<1> QED BY <1>1 DEF Establish, HandshakesAfter, TypeOK

(* A tracked flow has an element with numbers in it.                       *)
LEMMA TrackedElem ==
  ASSUME TypeOK, NEW k \in Tracked
  PROVE  /\ k \in Keys /\ flow_map[k] \in Slots
         /\ elem[flow_map[k]].latency_count \in Nat /\ elem[flow_map[k]].packets \in Nat
         /\ tally[Reverse(k)].syns \in Nat /\ handshake_map[k] \in Nat
         /\ Reverse(k) \in Keys /\ handshake_map[Reverse(k)] \in Nat
<1> SharedTypes
  BY TypeHalves
<1>1. k \in Keys /\ Reverse(k) \in Keys /\ flow_map[k] \in Slots
  BY ReverseTwice DEF Tracked, SharedTypes
<1>2. elem[flow_map[k]] \in Stats /\ tally[Reverse(k)] \in Tally
  BY <1>1 DEF SharedTypes
<1> QED BY <1>1, <1>2 DEF SharedTypes, Stats, Tally

LEMMA SynsPreserved ==
  ASSUME TypeOK, Steered, SynWaits, SynsCounted, NEW c \in Cpus, CpuStep(c)
  PROVE  SynWaits' /\ SynsCounted'
<1>1. SynWaits'
  <2>1. ASSUME pc'[c] = "sample" PROVE handshake_map'[Reverse(frame'[c].key)] > 0
    <3>1. MatchSyn(c) /\ handshake_map[Reverse(Key(c))] > 0
      BY <2>1, Comings
    <3>2. handshake_map' = handshake_map
      BY <3>1 DEF MatchSyn, maps
    <3>3. frame' = frame
      BY <2>1, <3>1 DEF MatchSyn, ToFin, Return, Goto, TypeOK
    <3> QED BY <3>1, <3>2, <3>3 DEF Key
  <2>2. ASSUME NEW d \in Cpus, d # c, pc'[d] = "sample", Joined(frame'[d].key)
        PROVE  handshake_map'[Reverse(frame'[d].key)] > 0
    <3>1. pc[d] = "sample" /\ frame'[d] = frame[d] /\ Joined(Key(d))
      BY <2>2, OtherLocals DEF Key
    <3>2. Key(d) \in Keys /\ Reverse(Key(d)) \in Keys
      BY <3>1, PacketKeys DEF TypeOK, Key
    <3>3. handshake_map[Reverse(Key(d))] > 0
      BY <3>1 DEF SynWaits
    <3>4. handshake_map'[Reverse(Key(d))] = handshake_map[Reverse(Key(d))]
      <4>1. pc[c] = "idle" \/ Key(c) \notin {Key(d), Reverse(Key(d))}
        BY <2>2, <3>1, TwoJoined
      <4>2. CASE TrackSyn(c)
        BY <3>2, <4>1, <4>2, TrackSynEffect
      <4>3. CASE Establish(c)
        <5>1. Key(c) \in Keys /\ Reverse(Key(d)) # Reverse(Key(c))
          BY <3>2, <4>1, <4>3, EstablishEffect, ReverseOneToOne
        <5> QED BY <3>2, <4>3, <5>1, EstablishEffect
      <4>4. CASE ~TrackSyn(c) /\ ~Establish(c)
        BY <3>2, <4>4, FieldsKept, FiniteAssumption
      <4> QED BY <4>2, <4>3, <4>4
    <3> QED BY <3>1, <3>3, <3>4 DEF Key
  <2> QED BY <2>1, <2>2 DEF SynWaits, Key
<1>2. ASSUME NEW k \in Keys, handshake_map'[k] > 0 PROVE tally'[k].syns > 0
  <2>0. k \in Keys /\ tally[k].syns \in Nat /\ handshake_map[k] \in Nat
    BY DEF TypeOK
  <2>1. CASE TrackSyn(c)
    BY <1>2, <2>0, <2>1, TrackSynEffect DEF SynsCounted
  <2>2. CASE Establish(c)
    <3>1. handshake_map[k] > 0
      BY <1>2, <2>2, EstablishEffect
    <3>2. tally'[k].syns = tally[k].syns
      BY <2>2 DEF Establish
    <3> QED BY <3>1, <3>2 DEF SynsCounted
  <2>3. CASE ~TrackSyn(c) /\ ~Establish(c)
    <3>1. handshake_map' = handshake_map /\ tally'[k].syns = tally[k].syns
      <4>1. Slots # {}
        BY FiniteAssumption
      <4> QED BY <2>3, <4>1, FieldsKept
    <3> QED BY <1>2, <3>1 DEF SynsCounted
  <2> QED BY <2>1, <2>2, <2>3
<1> QED BY <1>1, <1>2 DEF SynsCounted

(* A step that creates no flow leaves the map and its room alone.          *)
LEMMA SameFlows ==
  ASSUME TypeOK, NEW c \in Cpus, CpuStep(c), ~Insert(c)
  PROVE  flow_map' = flow_map /\ Tracked' = Tracked /\ FreeSlots' = FreeSlots
<1>1. flow_map' = flow_map
  <2>1. CASE Keys = {}
    <3>1. Packets = {}
      BY <2>1 DEF Keys
    <3>2. \A p \in Packets : ~Receive(c, p)
      BY <3>1
    <3>3. pc[c] = "idle"
      BY <3>1 DEF TypeOK
    <3> QED
      BY <3>2, <3>3 DEF CpuStep, Run, Lookup, TrackSyn, Insert, SendEvent, LoadPackets,
         StorePackets, LoadBytes, StoreBytes, Touch, MatchSyn, Sample, Establish, Fin
  <2>2. CASE Keys # {}
    BY <2>2, FieldsKept, FiniteAssumption
  <2> QED BY <2>1, <2>2
<1> QED BY <1>1 DEF Tracked, FreeSlots

LEMMA SamplesWithinPreserved ==
  ASSUME IInv, Steered, SynWaits, SynsCounted, SamplesWithin, NEW c \in Cpus, CpuStep(c)
  PROVE  SamplesWithin'
<1> TypeOK /\ Held /\ Injective
  BY DEF IInv
<1> SUFFICES ASSUME NEW k \in Keys, k \in Tracked', Joined(k)
             PROVE  /\ elem'[flow_map'[k]].latency_count <= tally'[Reverse(k)].syns
                    /\ handshake_map'[Reverse(k)] > 0 =>
                         \/ elem'[flow_map'[k]].latency_count < tally'[Reverse(k)].syns
                         \/ Establishing(k)'
  BY DEF SamplesWithin, Tracked
<1>0. Establishing(k) => Establishing(k)' \/ (pc[c] = "establish" /\ Key(c) = k)
  BY OtherLocals DEF Establishing, Key
<1>1. ASSUME k \in Tracked
      PROVE  /\ elem[flow_map[k]].latency_count \in Nat /\ tally[Reverse(k)].syns \in Nat
             /\ elem[flow_map[k]].latency_count <= tally[Reverse(k)].syns
             /\ handshake_map[Reverse(k)] > 0 =>
                  \/ elem[flow_map[k]].latency_count < tally[Reverse(k)].syns
                  \/ Establishing(k)' \/ (pc[c] = "establish" /\ Key(c) = k)
  BY <1>0, <1>1, TrackedElem DEF SamplesWithin
<1>2. Reverse(k) \in Keys /\ tally[Reverse(k)].syns \in Nat /\ handshake_map[Reverse(k)] \in Nat
  BY ReverseTwice DEF TypeOK
<1>3. CASE Insert(c)
  <2>1. CASE k \in Tracked /\ elem'[flow_map'[k]] = elem[flow_map[k]]
    BY <1>1, <1>3, <2>1, InsertEffect
  <2>2. CASE elem'[flow_map'[k]] = NewStats(frame[c], now[c])
    <3>1. elem'[flow_map'[k]].latency_count = 0
      BY <2>2, NewStatsFields
    <3>2. handshake_map[Reverse(k)] > 0 => tally[Reverse(k)].syns > 0
      BY <1>2 DEF SynsCounted
    <3> QED BY <1>2, <1>3, <3>1, <3>2, InsertEffect
  <2> QED BY <1>3, <2>1, <2>2, InsertEffect
<1>4. CASE ~Insert(c)
  <2>0. flow_map' = flow_map /\ k \in Tracked /\ flow_map[k] \in Slots
    BY <1>4, SameFlows, TrackedElem
  <2>1. CASE TrackSyn(c)
    <3>1. /\ elem' = elem /\ pc[c] = "trackSyn"
          /\ \/ /\ handshake_map'[Reverse(k)] = handshake_map[Reverse(k)]
                /\ tally'[Reverse(k)].syns = tally[Reverse(k)].syns
             \/ tally'[Reverse(k)].syns = tally[Reverse(k)].syns + 1
      BY <1>2, <2>1, TrackSynEffect
    <3>2. elem'[flow_map'[k]].latency_count = elem[flow_map[k]].latency_count
      BY <2>0, <3>1
    <3> QED BY <1>1, <2>0, <3>1, <3>2
  <2>2. CASE Sample(c)
    <3>0. ~TrackSyn(c) /\ ~Establish(c)
      BY <2>2 DEF Sample, TrackSyn, Establish
    <3>1. /\ handshake_map' = handshake_map
          /\ tally'[Reverse(k)].syns = tally[Reverse(k)].syns
      BY <1>2, <2>0, <3>0, FieldsKept
    <3>2. CASE k = Key(c)
      <4>1. handshake_map[Reverse(k)] > 0
        BY <2>2, <3>2 DEF SynWaits, Sample
      <4>2. elem[flow_map[k]].latency_count < tally[Reverse(k)].syns
        <5>1. ~Establishing(k)
          <6> SUFFICES ASSUME NEW d \in Cpus, pc[d] = "establish", Key(d) = k PROVE FALSE
            BY DEF Establishing
          <6>1. pc[c] = "sample"
            BY <2>2 DEF Sample
          <6> QED BY <3>2, <6>1, TwoJoined
        <5> QED BY <2>0, <3>2, <4>1, <5>1 DEF SamplesWithin
      <4>3. elem'[flow_map[k]].latency_count = elem[flow_map[k]].latency_count + 1
        BY <2>0, <2>2, <3>2, SampleEffect
      <4>4. Establishing(k)'
        BY <2>0, <2>2, <3>2, SampleEffect DEF Establishing, Key
      <4> QED BY <1>1, <2>0, <3>1, <4>2, <4>3, <4>4
    <3>3. CASE k # Key(c)
      <4>1. flow_map[k] # stats[c]
        BY <2>0, <2>2, <3>3, SampleEffect DEF Injective, Tracked
      <4>2. elem'[flow_map[k]].latency_count = elem[flow_map[k]].latency_count
        BY <2>0, <2>2, <4>1, SampleEffect
      <4> QED BY <1>1, <2>0, <3>1, <3>3, <4>2
    <3> QED BY <3>2, <3>3
  <2>3. CASE ~TrackSyn(c) /\ ~Sample(c)
    <3>1. /\ elem'[flow_map[k]].latency_count = elem[flow_map[k]].latency_count
          /\ tally'[Reverse(k)].syns = tally[Reverse(k)].syns
      BY <1>2, <1>4, <2>0, <2>3, FieldsKept
    <3>2. CASE Establish(c)
      <4>1. handshake_map'[Reverse(k)] =
              IF Reverse(k) = Reverse(Key(c)) THEN 0 ELSE handshake_map[Reverse(k)]
        BY <1>2, <3>2, EstablishEffect
      <4> QED BY <1>1, <2>0, <3>1, <4>1
    <3>3. CASE ~Establish(c)
      <4>1. handshake_map' = handshake_map
        BY <1>2, <2>0, <2>3, <3>3, FieldsKept
      <4>2. pc[c] # "establish"
        BY <3>3, Comings
      <4> QED BY <1>1, <2>0, <3>1, <4>1, <4>2
    <3> QED BY <3>2, <3>3
  <2> QED BY <2>1, <2>2, <2>3
<1> QED BY <1>3, <1>4

LEMMA FirstSynPreserved ==
  ASSUME IInv, Steered, Missed, FirstSyn, SynPending, NEW c \in Cpus, CpuStep(c)
  PROVE  FirstSyn'
<1> TypeOK
  BY DEF IInv
<1> SUFFICES ASSUME NEW k \in Keys, k \in Tracked', Alone(k)
             PROVE  handshake_map'[k] \in {0, elem'[flow_map'[k]].first_seen}
  BY DEF FirstSyn, Tracked
<1>1. CASE Insert(c)
  <2>1. CASE k \in Tracked /\ elem'[flow_map'[k]] = elem[flow_map[k]]
    BY <1>1, <2>1, InsertEffect DEF FirstSyn
  <2>2. CASE /\ k = Key(c) /\ k \notin Tracked /\ FreeSlots # {}
             /\ elem'[flow_map'[k]] = NewStats(frame[c], now[c])
    <3>1. elem'[flow_map'[k]].first_seen = now[c]
      BY <2>2, NewStatsFields
    <3>2. handshake_map[k] \in {0, now[c]}
      <4>1. pc[c] = "insert"
        BY <1>1 DEF Insert
      <4>2. \A d \in Cpus : pc[d] = "insert" /\ Key(d) = k => d = c
        BY <2>2, <4>1, TwoAlone
      <4> QED BY <2>2, <4>2 DEF SynPending
    <3> QED BY <1>1, <3>1, <3>2, InsertEffect
  <2> QED BY <1>1, <2>1, <2>2, InsertEffect
<1>2. CASE ~Insert(c)
  <2>0. flow_map' = flow_map /\ k \in Tracked /\ flow_map[k] \in Slots
    BY <1>2, SameFlows, TrackedElem
  <2>1. elem'[flow_map[k]].first_seen = elem[flow_map[k]].first_seen
    BY <1>2, <2>0, FieldsKept
  <2>2. handshake_map'[k] \in {0, handshake_map[k]}
    <3>1. CASE TrackSyn(c)
      <4>1. k # Key(c)
        BY <2>0, <3>1 DEF Missed, TrackSyn
      <4> QED BY <3>1, <4>1, TrackSynEffect
    <3>2. CASE Establish(c)
      BY <3>2, EstablishEffect
    <3>3. CASE ~TrackSyn(c) /\ ~Establish(c)
      BY <2>0, <3>3, FieldsKept
    <3> QED BY <3>1, <3>2, <3>3
  <2> QED BY <2>0, <2>1, <2>2 DEF FirstSyn
<1> QED BY <1>1, <1>2

LEMMA SynPendingPreserved ==
  ASSUME IInv, SynPending, [TcNext]_tcVars, NEW c \in Cpus, CpuStep(c)
  PROVE  SynPending'
<1> TypeOK
  BY DEF IInv
<1> SUFFICES ASSUME NEW k \in Keys, k \notin Tracked', FreeSlots' # {}, Alone(k),
                    handshake_map'[k] # 0
             PROVE  \E d \in Cpus :
                      pc'[d] = "insert" /\ frame'[d].key = k /\ handshake_map'[k] = now'[d]
  BY DEF SynPending, Key
<1>1. k \notin Tracked /\ FreeSlots # {}
  BY FlowMapGrows
<1>2. CASE TrackSyn(c) /\ Key(c) = k /\ handshake_map'[k] = now[c]
  BY <1>2, TrackSynEffect DEF Key
<1>3. CASE handshake_map'[k] \in {0, handshake_map[k]}
  <2>1. PICK d \in Cpus : pc[d] = "insert" /\ Key(d) = k /\ handshake_map[k] = now[d]
    BY <1>1, <1>3 DEF SynPending
  <2>2. d # c
    <3> SUFFICES ASSUME d = c PROVE FALSE
      OBVIOUS
    <3>1. Insert(c)
      BY <2>1, Comings
    <3>2. PICK s \in FreeSlots : flow_map' = [flow_map EXCEPT ![k] = s]
      BY <1>1, <2>1, <3>1 DEF Insert, CanInsert, Tracked
    <3>3. k \in Tracked'
      BY <3>2, SentinelAssumption DEF Tracked, FreeSlots, TypeOK
    <3> QED BY <3>3
  <2>3. pc'[d] = pc[d] /\ frame'[d] = frame[d] /\ now'[d] = now[d]
    BY <2>2, OtherLocals
  <2> QED BY <1>3, <2>1, <2>3 DEF Key
<1>4. \/ TrackSyn(c) /\ Key(c) = k /\ handshake_map'[k] = now[c]
      \/ handshake_map'[k] \in {0, handshake_map[k]}
  <2>1. CASE TrackSyn(c)
    BY <2>1, TrackSynEffect
  <2>2. CASE Establish(c)
    BY <2>2, EstablishEffect
  <2>3. CASE ~TrackSyn(c) /\ ~Establish(c)
    BY <2>3, FieldsKept, FiniteAssumption
  <2> QED BY <2>1, <2>2, <2>3
<1> QED BY <1>2, <1>3, <1>4

LEMMA SampleInvPreserved ==
  ASSUME IInv, ExactInv, SampleInv, [TcNext]_tcVars
  PROVE  SampleInv'
<1>1. CASE UNCHANGED <<flow_map, elem, handshake_map, arrived, locals, tally>>
  BY <1>1 DEF SampleInv, SynWaits, SynsCounted, SamplesWithin, Establishing, FirstSyn,
         SynPending, Tracked, FreeSlots, locals, Key
<1>2. ASSUME NEW c \in Cpus, CpuStep(c) PROVE SampleInv'
  <2> TypeOK
    BY DEF IInv
  <2> QED BY <1>2, SynsPreserved, SamplesWithinPreserved, FirstSynPreserved,
            SynPendingPreserved DEF SampleInv, ExactInv
<1> QED BY <1>1, <1>2, CpuSteps

(* When both directions of a flow go to one CPU, one tracked SYN gives at  *)
(* most one latency sample, and the round trip is counted from the SYN     *)
(* that opened the flow.                                                   *)
THEOREM SamplesOnce == TcSpec => []SampledOnceFromFirstSyn
<1>1. IInv /\ ExactInv /\ SampleInv /\ [TcNext]_tcVars => SampleInv'
  BY SampleInvPreserved
<1>2. SampleInv => SampledOnceFromFirstSyn
  BY JoinedAlone DEF SampleInv, SamplesWithin, FirstSyn, SampledOnceFromFirstSyn, Tracked
<1>3. Init /\ [][TcNext]_tcVars /\ []IInv /\ []ExactInv => []SampleInv
  BY <1>1, SamplesStart, PTL
<1> QED BY <1>2, <1>3, InvariantHolds, ExactInvariant, PTL DEF TcSpec

-----------------------------------------------------------------------------
(* Flows of one CPU: the latencies *)

(* No SYN is tracked in the future of a frame that may match it, so that   *)
(* no round trip is a difference that wrapped around.                      *)
SynsPast ==
  /\ \A k \in Keys : handshake_map[k] <= clock
  /\ \A c \in Cpus : pc[c] # "idle" =>
       /\ now[c] <= clock
       /\ Joined(Key(c)) => handshake_map[Reverse(Key(c))] <= now[c]

SampleSmall ==
  \A c \in Cpus : pc[c] = "sample" /\ Joined(Key(c)) => reg[c] * NsPerUs <= clock

LatencyInv == SynsPast /\ SampleSmall /\ LatencyWithinUptime

LEMMA ModBelow ==
  ASSUME NEW a \in Nat, NEW m \in Nat \ {0}
  PROVE  a % m \in Nat /\ a % m <= a
  OBVIOUS

LEMMA DivBelow ==
  ASSUME NEW a \in Nat, NEW m \in Nat \ {0}
  PROVE  (a \div m) \in Nat /\ (a \div m) * m <= a
  OBVIOUS

LEMMA TimesMonotone ==
  ASSUME NEW a \in Nat, NEW b \in Nat, NEW n \in Nat, a <= b
  PROVE  a * n \in Nat /\ b * n \in Nat /\ a * n <= b * n /\ n * a \in Nat /\ n * a <= n * b
  OBVIOUS

LEMMA TimesSum ==
  ASSUME NEW a \in Nat, NEW b \in Nat, NEW n \in Nat
  PROVE  (a + b) * n = a * n + b * n /\ (a + 1) * n = a * n + n
  OBVIOUS

(* A round trip that began in the past is no longer than the time since.   *)
LEMMA RttBelow ==
  ASSUME NEW t \in Nat, NEW s \in Nat, s <= t
  PROVE  Rtt(t, s) \in Nat /\ Rtt(t, s) * NsPerUs <= t
<1>1. U64 \in Nat \ {0} /\ U32 \in Nat \ {0} /\ NsPerUs \in Nat \ {0} /\ t - s \in Nat
  BY WidthAssumption
<1> DEFINE d == (t - s) % U64
<1>2. d \in Nat /\ d <= t - s
  BY <1>1, ModBelow
<1> HIDE DEF d
<1> DEFINE q == d \div NsPerUs
<1>3. q \in Nat /\ q * NsPerUs <= d
  BY <1>1, <1>2, DivBelow
<1> HIDE DEF q
<1> DEFINE r == q % U32
<1>4. r \in Nat /\ r <= q
  BY <1>1, <1>3, ModBelow
<1> HIDE DEF r
<1>5. r * NsPerUs \in Nat /\ q * NsPerUs \in Nat /\ r * NsPerUs <= q * NsPerUs
  BY <1>1, <1>3, <1>4, TimesMonotone
<1>6. r * NsPerUs <= t
  BY <1>2, <1>3, <1>5
<1> QED BY <1>4, <1>6 DEF Rtt, d, q, r

LEMMA LatencyStarts == Init => LatencyInv
  BY DEF Init, LatencyInv, SynsPast, SampleSmall, LatencyWithinUptime, Tracked

LEMMA LatencyTicks ==
  ASSUME TypeOK, LatencyInv, clock' \in {clock, clock + 1},
         UNCHANGED <<flow_map, elem, handshake_map, locals>>
  PROVE  LatencyInv'
<1>1. clock \in Nat /\ clock' \in Nat /\ clock <= clock' /\ NsPerUs \in Nat
  BY WidthAssumption DEF TypeOK
<1>2. SynsPast'
  <2>1. \A k \in Keys : handshake_map[k] \in Nat
    BY DEF TypeOK
  <2>2. \A c \in Cpus : now[c] \in Nat
    BY DEF TypeOK
  <2> QED BY <1>1, <2>1, <2>2 DEF LatencyInv, SynsPast, locals, Key
<1>3. SampleSmall'
  <2> SUFFICES ASSUME NEW c \in Cpus, pc[c] = "sample", Joined(Key(c))
               PROVE  reg[c] * NsPerUs <= clock'
    BY DEF SampleSmall, locals, Key
  <2>1. reg[c] * NsPerUs \in Nat /\ reg[c] * NsPerUs <= clock
    BY <1>1, TimesMonotone DEF LatencyInv, SampleSmall, TypeOK
  <2> QED BY <1>1, <2>1
<1>4. LatencyWithinUptime'
  <2> SUFFICES ASSUME NEW k \in Tracked, Joined(k)
               PROVE  elem[flow_map[k]].latency_sum * NsPerUs
                        <= elem[flow_map[k]].latency_count * clock'
    BY DEF LatencyWithinUptime, Tracked
  <2> DEFINE s == flow_map[k]
  <2>0. elem[s] \in Stats
    <3>1. s \in Slots
      BY TrackedElem
    <3> QED BY <3>1 DEF TypeOK
  <2>1. elem[s].latency_sum \in Nat /\ elem[s].latency_count \in Nat
    BY <2>0, WidthAssumption DEF Stats
  <2>2. elem[s].latency_sum * NsPerUs <= elem[s].latency_count * clock
    BY DEF LatencyInv, LatencyWithinUptime
  <2> DEFINE a == elem[s].latency_sum
             n == elem[s].latency_count
  <2> HIDE DEF a, n
  <2>3. a * NsPerUs \in Nat /\ n * clock <= n * clock' /\ n * clock \in Nat /\ n * clock' \in Nat
    BY <1>1, <2>1, TimesMonotone DEF a, n
  <2>4. a * NsPerUs <= n * clock
    BY <2>2 DEF a, n
  <2>5. a * NsPerUs <= n * clock'
    BY <2>3, <2>4
  <2> QED BY <2>5 DEF a, n
<1> QED BY <1>2, <1>3, <1>4 DEF LatencyInv

(* The clock stands still while a CPU takes a step, and a frame keeps the  *)
(* time of its arrival.                                                    *)
LEMMA ClockStands ==
  ASSUME TypeOK, NEW c \in Cpus, CpuStep(c)
  PROVE  /\ clock' = clock
         /\ pc'[c] # "idle" => \/ pc[c] = "idle" /\ now'[c] = clock /\ handshake_map' = handshake_map
                               \/ pc[c] # "idle" /\ now'[c] = now[c]
<1> LocalTypes
  BY TypeHalves
<1> USE DEF Goto, Return, ToFin, LocalTypes, maps, locals
<1>1. ASSUME NEW p \in Packets, Receive(c, p)
      PROVE  clock' = clock /\ pc[c] = "idle" /\ now'[c] = clock /\ handshake_map' = handshake_map
  BY <1>1 DEF Receive
<1>2. CASE Lookup(c) \/ TrackSyn(c) \/ Insert(c) \/ SendEvent(c)
  BY <1>2 DEF Lookup, TrackSyn, Insert, SendEvent
<1>3. CASE LoadPackets(c) \/ StorePackets(c) \/ LoadBytes(c) \/ StoreBytes(c)
  BY <1>3 DEF LoadPackets, StorePackets, LoadBytes, StoreBytes
<1>4. CASE Touch(c) \/ Sample(c) \/ Establish(c) \/ Fin(c)
  BY <1>4 DEF Touch, Sample, Establish, Fin
<1>5. CASE MatchSyn(c)
  BY <1>5 DEF MatchSyn
<1> QED BY <1>1, <1>2, <1>3, <1>4, <1>5 DEF CpuStep, Run

(* A CPU keeps its frame while it runs.                                    *)
LEMMA FrameKept ==
  ASSUME TypeOK, NEW c \in Cpus, CpuStep(c), pc[c] # "idle", pc'[c] # "idle"
  PROVE  frame'[c] = frame[c]
<1> LocalTypes
  BY TypeHalves
<1> USE DEF Goto, Return, ToFin, LocalTypes, locals
<1>1. CASE Lookup(c) \/ TrackSyn(c) \/ Insert(c) \/ SendEvent(c)
  BY <1>1 DEF Lookup, TrackSyn, Insert, SendEvent
<1>2. CASE LoadPackets(c) \/ StorePackets(c) \/ LoadBytes(c) \/ StoreBytes(c)
  BY <1>2 DEF LoadPackets, StorePackets, LoadBytes, StoreBytes
<1>3. CASE Touch(c) \/ Sample(c) \/ Establish(c) \/ Fin(c)
  BY <1>3 DEF Touch, Sample, Establish, Fin
<1>4. CASE MatchSyn(c)
  BY <1>4 DEF MatchSyn
<1> QED BY <1>1, <1>2, <1>3, <1>4 DEF CpuStep, Run, Receive

LEMMA SynsPastPreserved ==
  ASSUME TypeOK, TypeOK', Steered, SynsPast, NEW c \in Cpus, CpuStep(c)
  PROVE  SynsPast'
<1>0. \A k \in Keys : \/ handshake_map'[k] \in {0, handshake_map[k]}
                      \/ TrackSyn(c) /\ Key(c) = k /\ handshake_map'[k] = now[c]
  <2> SUFFICES ASSUME NEW k \in Keys
               PROVE  \/ handshake_map'[k] \in {0, handshake_map[k]}
                      \/ TrackSyn(c) /\ Key(c) = k /\ handshake_map'[k] = now[c]
    OBVIOUS
  <2>1. CASE TrackSyn(c)
    BY <2>1, TrackSynEffect
  <2>2. CASE Establish(c)
    BY <2>2, EstablishEffect
  <2>3. CASE ~TrackSyn(c) /\ ~Establish(c)
    BY <2>3, FieldsKept, FiniteAssumption
  <2> QED BY <2>1, <2>2, <2>3
<1>1. \A k \in Keys : handshake_map'[k] \in {0, handshake_map[k]} \/
                      (handshake_map'[k] = now[c] /\ pc[c] # "idle")
  BY <1>0 DEF TrackSyn
<1>2. /\ clock \in Nat /\ clock' = clock
      /\ \A k \in Keys : handshake_map[k] \in Nat /\ handshake_map[k] <= clock
      /\ \A d \in Cpus : now[d] \in Nat /\ (pc[d] # "idle" => now[d] <= clock)
  BY ClockStands DEF TypeOK, SynsPast
<1>3. \A k \in Keys : handshake_map'[k] <= clock
  BY <1>1, <1>2
<1>4. ASSUME pc'[c] # "idle"
      PROVE  /\ now'[c] <= clock
             /\ Joined(frame'[c].key) => handshake_map'[Reverse(frame'[c].key)] <= now'[c]
  <2>1. CASE pc[c] = "idle" /\ now'[c] = clock
    <3>1. frame'[c].key \in Keys /\ Reverse(frame'[c].key) \in Keys
      <4>1. frame'[c] \in Packets
        BY <1>4 DEF TypeOK
      <4> QED BY <4>1, PacketKeys
    <3> QED BY <1>2, <1>3, <2>1, <3>1
  <2>2. CASE pc[c] # "idle" /\ now'[c] = now[c]
    <3>1. Reverse(Key(c)) \in Keys /\ frame'[c] = frame[c]
      BY <1>4, <2>2, PacketKeys, FrameKept DEF TypeOK, Key
    <3> QED BY <1>1, <1>2, <2>2, <3>1 DEF SynsPast, Key
  <2> QED BY <1>4, <2>1, <2>2, ClockStands
<1>5. ASSUME NEW d \in Cpus, d # c, pc'[d] # "idle"
      PROVE  /\ now'[d] <= clock
             /\ Joined(frame'[d].key) => handshake_map'[Reverse(frame'[d].key)] <= now'[d]
  <2>1. pc[d] # "idle" /\ now'[d] = now[d] /\ frame'[d] = frame[d]
    BY <1>5, OtherLocals
  <2>2. Reverse(Key(d)) \in Keys
    BY <2>1, PacketKeys DEF TypeOK, Key
  <2>3. ASSUME Joined(Key(d)) PROVE handshake_map'[Reverse(Key(d))] \in {0, handshake_map[Reverse(Key(d))]}
    <3>1. ~(TrackSyn(c) /\ Key(c) = Reverse(Key(d)))
      <4>1. TrackSyn(c) => pc[c] # "idle"
        BY DEF TrackSyn
      <4> QED BY <1>5, <2>1, <2>3, <4>1, TwoJoined
    <3> QED BY <1>0, <2>2, <3>1
  <2> QED BY <1>2, <2>1, <2>2, <2>3 DEF SynsPast, Key
<1> QED BY <1>2, <1>3, <1>4, <1>5 DEF SynsPast, Key

LEMMA SampleSmallPreserved ==
  ASSUME TypeOK, SynsPast, SampleSmall, NEW c \in Cpus, CpuStep(c)
  PROVE  SampleSmall'
<1>1. clock' = clock /\ clock \in Nat
  BY ClockStands DEF TypeOK
<1>2. ASSUME pc'[c] = "sample", Joined(frame'[c].key) PROVE reg'[c] * NsPerUs <= clock
  <2> DEFINE syn_time == handshake_map[Reverse(Key(c))]
  <2>1. MatchSyn(c) /\ syn_time > 0
    BY <1>2, Comings
  <2>2. reg'[c] = Rtt(now[c], syn_time)
    BY <2>1 DEF MatchSyn, TypeOK
  <2>3. pc[c] = "matchSyn" /\ Key(c) \in Keys /\ frame'[c] = frame[c]
    BY <1>2, <2>1, PacketKeys, FrameKept DEF MatchSyn, TypeOK, Key
  <2>4. syn_time \in Nat /\ now[c] \in Nat /\ syn_time <= now[c] /\ now[c] <= clock
    BY <1>2, <2>3, ReverseTwice DEF SynsPast, TypeOK, Key
  <2> HIDE DEF syn_time
  <2> DEFINE rtt == Rtt(now[c], syn_time)
  <2>5. rtt \in Nat /\ rtt * NsPerUs <= now[c]
    BY <2>4, RttBelow
  <2> HIDE DEF rtt
  <2>6. rtt * NsPerUs \in Nat
    BY <2>5, WidthAssumption, TimesMonotone
  <2>7. rtt * NsPerUs <= clock
    BY <1>1, <2>4, <2>5, <2>6
  <2> QED BY <2>2, <2>7 DEF rtt
<1>3. ASSUME NEW d \in Cpus, d # c, pc'[d] = "sample", Joined(frame'[d].key)
      PROVE  reg'[d] * NsPerUs <= clock
  BY <1>3, OtherLocals DEF SampleSmall, Key
<1> QED BY <1>1, <1>2, <1>3 DEF SampleSmall, Key

LEMMA ElemLatency ==
  ASSUME elem \in [Slots -> Stats], NEW s \in Slots, NEW r \in Slots, NEW a, NEW b,
         \/ elem' = [elem EXCEPT ![s].packets = a]
         \/ elem' = [elem EXCEPT ![s].bytes = a]
         \/ elem' = [elem EXCEPT ![s].last_seen = a, ![s].l7 = b]
         \/ elem' = [elem EXCEPT ![s].state = a]
  PROVE  /\ elem'[r].latency_count = elem[r].latency_count
         /\ elem'[r].latency_sum = elem[r].latency_sum
  BY DEF Stats

(* What a step does to the samples in one element.                         *)
LEMMA SamplesStep ==
  ASSUME TypeOK, NEW c \in Cpus, CpuStep(c), ~Insert(c), NEW s \in Slots,
         elem[s].latency_sum * NsPerUs <= elem[s].latency_count * clock,
         Sample(c) /\ s = stats[c] => reg[c] * NsPerUs <= clock
  PROVE  elem'[s].latency_sum * NsPerUs <= elem'[s].latency_count * clock
<1> SharedTypes /\ LocalTypes
  BY TypeHalves
<1>1. clock \in Nat /\ NsPerUs \in Nat /\ U32 \in Nat \ {0}
  BY WidthAssumption DEF SharedTypes
<1>2. /\ elem[s].latency_sum \in Nat /\ elem[s].latency_count \in Nat
      /\ elem[s].latency_sum * NsPerUs <= elem[s].latency_count * clock
  BY <1>1 DEF SharedTypes, Stats
<1>3. CASE /\ elem'[s].latency_sum = elem[s].latency_sum
           /\ elem'[s].latency_count = elem[s].latency_count
  BY <1>2, <1>3
<1>5. CASE Sample(c)
  <2>1. /\ stats[c] \in Slots /\ reg[c] \in Nat
    BY <1>5 DEF Sample, LocalTypes, Unheld
  <2>2. CASE s # stats[c]
    BY <1>3, <1>5, <2>1, <2>2 DEF Sample, SharedTypes
  <2>3. CASE s = stats[c]
    <3> DEFINE a == elem[s].latency_sum
               n == elem[s].latency_count
               b == (a + reg[c]) % U32
    <3>1. elem'[s].latency_sum = b /\ elem'[s].latency_count = n + 1
      <4>1. elem' = [elem EXCEPT ![s] = [elem[s] EXCEPT !.latency_sum = b, !.latency_count = n + 1]]
        BY <1>5, <2>3 DEF Sample, SharedTypes, Stats
      <4>2. elem'[s] = [elem[s] EXCEPT !.latency_sum = b, !.latency_count = n + 1]
        BY <4>1 DEF SharedTypes
      <4>3. elem[s] \in Stats
        BY DEF SharedTypes
      <4> HIDE DEF a, n, b
      <4> QED BY <4>2, <4>3 DEF Stats
    <3>2. a \in Nat /\ n \in Nat /\ a * NsPerUs <= n * clock /\ reg[c] * NsPerUs <= clock
      BY <1>2, <1>5, <2>3
    <3>3. b \in Nat /\ b <= a + reg[c] /\ a + reg[c] \in Nat
      <4> DEFINE sum == a + reg[c]
      <4>1. sum \in Nat
        BY <2>1, <3>2
      <4> HIDE DEF sum
      <4>2. sum % U32 \in Nat /\ sum % U32 <= sum
        BY <1>1, <4>1, ModBelow
      <4> QED BY <4>1, <4>2 DEF sum
    <3> HIDE DEF a, n, b
    <3>4. b * NsPerUs <= (a + reg[c]) * NsPerUs /\ b * NsPerUs \in Nat
      BY <1>1, <3>3, TimesMonotone
    <3>5. (a + reg[c]) * NsPerUs = a * NsPerUs + reg[c] * NsPerUs /\ (n + 1) * clock = n * clock + clock
      BY <1>1, <2>1, <3>2, TimesSum
    <3>6. /\ a * NsPerUs \in Nat /\ reg[c] * NsPerUs \in Nat /\ n * clock \in Nat
      BY <1>1, <2>1, <3>2, TimesMonotone
    <3>7. b * NsPerUs <= (n + 1) * clock
      BY <1>1, <2>1, <3>2, <3>4, <3>5, <3>6
    <3> QED BY <3>1, <3>7
  <2> QED BY <2>2, <2>3
<1>6. CASE ~Sample(c)
  <2>1. elem'[s].latency_count = elem[s].latency_count /\ elem'[s].latency_sum = elem[s].latency_sum
    <3>1. CASE elem' = elem
      BY <3>1
    <3>2. CASE StorePackets(c) \/ StoreBytes(c) \/ Touch(c) \/ Establish(c) \/ Fin(c)
      <4>1. stats[c] \in Slots
        BY <3>2 DEF StorePackets, StoreBytes, Touch, Establish, Fin, LocalTypes, Unheld
      <4>2. PICK a, b :
              \/ elem' = [elem EXCEPT ![stats[c]].packets = a]
              \/ elem' = [elem EXCEPT ![stats[c]].bytes = a]
              \/ elem' = [elem EXCEPT ![stats[c]].last_seen = a, ![stats[c]].l7 = b]
              \/ elem' = [elem EXCEPT ![stats[c]].state = a]
        <5>1. CASE StorePackets(c)
          BY <5>1 DEF StorePackets
        <5>2. CASE StoreBytes(c)
          BY <5>2 DEF StoreBytes
        <5>3. CASE Touch(c)
          BY <5>3 DEF Touch
        <5>4. CASE Establish(c) \/ Fin(c)
          BY <5>4 DEF Establish, Fin
        <5> QED BY <3>2, <5>1, <5>2, <5>3, <5>4
      <4>3. elem \in [Slots -> Stats]
        BY DEF SharedTypes
      <4>4. CASE elem' = [elem EXCEPT ![stats[c]].packets = a]
        BY <4>1, <4>3, <4>4, ElemLatency
      <4>5. CASE elem' = [elem EXCEPT ![stats[c]].bytes = a]
        BY <4>1, <4>3, <4>5, ElemLatency
      <4>6. CASE elem' = [elem EXCEPT ![stats[c]].last_seen = a, ![stats[c]].l7 = b]
        BY <4>1, <4>3, <4>6, ElemLatency
      <4>7. CASE elem' = [elem EXCEPT ![stats[c]].state = a]
        BY <4>1, <4>3, <4>7, ElemLatency
      <4> QED BY <4>2, <4>4, <4>5, <4>6, <4>7
    <3>3. ASSUME NEW p \in Packets, Receive(c, p) PROVE elem' = elem
      BY <3>3 DEF Receive, maps
    <3>4. CASE Lookup(c) \/ TrackSyn(c) \/ SendEvent(c) \/ LoadPackets(c) \/ LoadBytes(c) \/ MatchSyn(c)
      BY <3>1, <3>4 DEF Lookup, TrackSyn, SendEvent, LoadPackets, LoadBytes, MatchSyn, maps
    <3> QED BY <1>6, <3>1, <3>2, <3>3, <3>4 DEF CpuStep, Run
  <2> QED BY <1>3, <2>1
<1> QED BY <1>5, <1>6

LEMMA LatencyWithinPreserved ==
  ASSUME IInv, SampleSmall, LatencyWithinUptime, NEW c \in Cpus, CpuStep(c)
  PROVE  LatencyWithinUptime'
<1> TypeOK /\ Held /\ Injective
  BY DEF IInv
<1>1. clock' = clock /\ clock \in Nat /\ NsPerUs \in Nat
  BY ClockStands, WidthAssumption DEF TypeOK
<1> SUFFICES ASSUME NEW k \in Keys, k \in Tracked', Joined(k)
             PROVE  elem'[flow_map'[k]].latency_sum * NsPerUs
                      <= elem'[flow_map'[k]].latency_count * clock
  BY <1>1 DEF LatencyWithinUptime, Tracked
<1>2. CASE Insert(c)
  <2>1. CASE k \in Tracked /\ elem'[flow_map'[k]] = elem[flow_map[k]]
    BY <2>1 DEF LatencyWithinUptime
  <2>2. CASE elem'[flow_map'[k]] = NewStats(frame[c], now[c])
    <3>1. elem'[flow_map'[k]].latency_sum = 0 /\ elem'[flow_map'[k]].latency_count = 0
      BY <2>2 DEF NewStats, NoStats
    <3>2. 0 * NsPerUs = 0 /\ 0 * clock = 0
      BY <1>1
    <3> QED BY <3>1, <3>2
  <2> QED BY <1>2, <2>1, <2>2, InsertEffect
<1>3. CASE ~Insert(c)
  <2>1. flow_map' = flow_map /\ k \in Tracked /\ flow_map[k] \in Slots
    BY <1>3, SameFlows, TrackedElem
  <2>2. ASSUME Sample(c), flow_map[k] = stats[c] PROVE reg[c] * NsPerUs <= clock
    <3>1. pc[c] = "sample" /\ Key(c) \in Keys /\ stats[c] = flow_map[Key(c)]
      BY <2>2, PacketKeys DEF Sample, Held, Unheld, TypeOK, Key
    <3>2. Key(c) = k
      BY <2>1, <2>2, <3>1 DEF Injective, Tracked
    <3> QED BY <3>1, <3>2 DEF SampleSmall
  <2>3. elem[flow_map[k]].latency_sum * NsPerUs <= elem[flow_map[k]].latency_count * clock
    BY <2>1 DEF LatencyWithinUptime
  <2> QED BY <1>3, <2>1, <2>2, <2>3, SamplesStep
<1> QED BY <1>2, <1>3

LEMMA LatencyPreserved ==
  ASSUME IInv, IInv', Steered, LatencyInv, [TcNext]_tcVars
  PROVE  LatencyInv'
<1> TypeOK /\ TypeOK'
  BY DEF IInv
<1>1. ASSUME NEW c \in Cpus, CpuStep(c) PROVE LatencyInv'
  BY <1>1, SynsPastPreserved, SampleSmallPreserved, LatencyWithinPreserved DEF LatencyInv
<1>2. CASE TakeEvent \/ Tick \/ UNCHANGED tcVars
  <2>1. clock' \in {clock, clock + 1} /\ UNCHANGED <<flow_map, elem, handshake_map, locals>>
    BY <1>2 DEF TakeEvent, Tick, tcVars, maps
  <2> QED BY <2>1, LatencyTicks
<1> QED BY <1>1, <1>2 DEF TcNext, CpuStep

(* When both directions of a flow go to one CPU, its latency never exceeds *)
(* the time the machine is up, however narrow the counters are: no sample  *)
(* is a wrapped-around difference.                                         *)
THEOREM LatencyBelowUptime == TcSpec => []LatencyWithinUptime
<1>1. IInv /\ IInv' /\ ExactInv /\ LatencyInv /\ [TcNext]_tcVars => LatencyInv'
  BY LatencyPreserved DEF ExactInv
<1>2. LatencyInv => LatencyWithinUptime
  BY DEF LatencyInv
<1>3. Init /\ [][TcNext]_tcVars /\ []IInv /\ []ExactInv => []LatencyInv
  BY <1>1, LatencyStarts, PTL
<1> QED BY <1>2, <1>3, InvariantHolds, ExactInvariant, PTL DEF TcSpec
=============================================================================
