----------------------------- MODULE TcMonitor ------------------------------
(***************************************************************************)
(* The traffic classifier that runs in the kernel for every frame of the   *)
(* monitored interface (ebpf/tc-monitor.c).  It keeps per-flow statistics  *)
(* in flow_map, pending TCP handshakes in handshake_map, and announces new *)
(* flows on a ring buffer.                                                 *)
(*                                                                         *)
(* Several CPUs run the program at once and share the maps.  A lookup      *)
(* returns a pointer into the map, and the increments through it compile   *)
(* to a load and a store that are not atomic together, so every access to  *)
(* shared memory is a step of its own.                                     *)
(*                                                                         *)
(* flow_map is a preallocated hash map: a key names one of a fixed pool of *)
(* elements (Slots), a lookup hands out the element, and an element whose  *)
(* key is deleted may be given to another key while a CPU still holds it.  *)
(***************************************************************************)
EXTENDS Integers, Sequences, FiniteSets

CONSTANTS
  Cpus,          \* the CPUs that run the program
  Packets,       \* the frames that may arrive: [key, size, syn, ack, fin]
  Steer,         \* the CPUs that the frames of every key are steered to
  Slots,         \* the elements of flow_map, MAX_FLOWS of them
  MaxHandshakes, \* max_entries of handshake_map
  RingSlots,     \* events the ring buffer has room for
  U64, U32,      \* 2^64 and 2^32
  NsPerUs,       \* 1000
  MaxPackets,    \* bound: frames that arrive in a behaviour
  MaxClock,      \* bound: last value of the clock
  NoSlot, NoFrame

IsKey(k) == k = [f \in {"src", "dst", "src_port", "dst_port", "protocol"} |-> k[f]]

Reverse(k) == [src |-> k.dst, dst |-> k.src, src_port |-> k.dst_port,
               dst_port |-> k.src_port, protocol |-> k.protocol]

Keys == {p.key : p \in Packets} \cup {Reverse(p.key) : p \in Packets}

(* Frames that carry no flow - not IPv4, truncated, or of another protocol *)
(* - leave every map alone and are not modelled.  Only TCP has flags.      *)
ASSUME PacketsAssumption ==
  \A p \in Packets :
    /\ IsKey(p.key)
    /\ p.size \in Nat \ {0}
    /\ {p.syn, p.ack, p.fin} \subseteq BOOLEAN
    /\ p.key.protocol # "TCP" => ~p.syn /\ ~p.fin
(* The network card picks the CPU that takes a frame: always the same one  *)
(* for a flow, or any of several (packet steering, several queues).        *)
ASSUME SteerAssumption == Steer \in [Keys -> SUBSET Cpus]
ASSUME SentinelAssumption == NoSlot \notin Slots /\ NoFrame \notin Packets
ASSUME FiniteAssumption == IsFiniteSet(Slots) /\ Slots # {}
ASSUME WidthAssumption ==
  /\ {U64, U32, NsPerUs} \subseteq Nat \ {0}
  /\ {MaxHandshakes, RingSlots, MaxPackets, MaxClock} \subseteq Nat

VARIABLES
  flow_map,      \* the element of every key, or NoSlot
  elem,          \* the statistics in every element
  handshake_map, \* the time of the tracked SYN of every key, 0 if none
  events,        \* the ring buffer, oldest event first
  clock,         \* bpf_ktime_get_ns
  arrived,       \* frames received so far
  \* locals of the program on every CPU
  pc, frame, now, stats, reg,
  \* history
  tally          \* per key, what atomic counters would hold and the SYNs tracked

maps == <<flow_map, elem, handshake_map, events>>
locals == <<pc, frame, now, stats, reg>>
tcVars == <<maps, clock, arrived, locals, tally>>

-----------------------------------------------------------------------------
(* Helpers.  Those named after a mistake (swapped, unchecked, ...) are      *)
(* variants of the one that follows them; no behaviour uses them.          *)

IsSyn(p) == p.syn /\ ~p.ack
IsSynAck(p) == p.syn /\ p.ack

(* The application protocol is read off the destination port, ICMP having  *)
(* none (its type and code stand in for ports).                            *)
L7(k) ==
  IF k.protocol = "ICMP" THEN "UNKNOWN"
  ELSE CASE k.dst_port = 80  -> "HTTP"
         [] k.dst_port = 443 -> "HTTPS"
         [] k.dst_port = 53  -> "DNS"
         [] k.dst_port = 22  -> "SSH"
         [] OTHER -> "UNKNOWN"

InitialState(p) == IF IsSyn(p) THEN "NEW" ELSE "ESTABLISHED"

NoStats == [packets |-> 0, bytes |-> 0, last_seen |-> 0, first_seen |-> 0,
            latency_sum |-> 0, latency_count |-> 0, state |-> "NEW", l7 |-> "UNKNOWN"]

NewStatsSwapped(p, t) ==
  [NoStats EXCEPT !.packets = p.size, !.bytes = 1, !.last_seen = t,
                  !.first_seen = t, !.state = InitialState(p), !.l7 = L7(p.key)]
NewStatsUncounted(p, t) ==
  [NoStats EXCEPT !.last_seen = t, !.first_seen = t, !.state = InitialState(p), !.l7 = L7(p.key)]
NewStats(p, t) ==
  [NoStats EXCEPT !.packets = 1, !.bytes = p.size, !.last_seen = t,
                  !.first_seen = t, !.state = InitialState(p), !.l7 = L7(p.key)]

Tracked == {k \in Keys : flow_map[k] # NoSlot}
FreeSlots == {s \in Slots : \A k \in Keys : flow_map[k] # s}
Handshakes == {k \in Keys : handshake_map[k] > 0}

Key(c) == frame[c].key

Goto(c, l) == pc' = [pc EXCEPT ![c] = l]

(* Where a frame goes after the lookup; a SYN is tracked only if its flow  *)
(* is new.                                                                 *)
AfterLookupUnchecked(c) == "loadPackets"
AfterLookup(c) ==
  IF flow_map[Key(c)] # NoSlot THEN "loadPackets"
  ELSE IF IsSyn(frame[c]) THEN "trackSyn" ELSE "insert"

(* The program returns TC_ACT_OK and its locals are gone. *)
Return(c) ==
  /\ Goto(c, "idle")
  /\ frame' = [frame EXCEPT ![c] = NoFrame]
  /\ now' = [now EXCEPT ![c] = 0]
  /\ stats' = [stats EXCEPT ![c] = NoSlot]
  /\ reg' = [reg EXCEPT ![c] = 0]

(* After the SYN-ACK part of the update comes the FIN test, then the end. *)
ToFin(c) ==
  IF frame[c].fin
    THEN Goto(c, "fin") /\ UNCHANGED <<frame, now, stats, reg>>
    ELSE Return(c)

Init ==
  /\ flow_map = [k \in Keys |-> NoSlot]
  /\ elem = [s \in Slots |-> NoStats]
  /\ handshake_map = [k \in Keys |-> 0]
  /\ events = << >>
  /\ clock = 1
  /\ arrived = 0
  /\ pc = [c \in Cpus |-> "idle"]
  /\ frame = [c \in Cpus |-> NoFrame]
  /\ now = [c \in Cpus |-> 0]
  /\ stats = [c \in Cpus |-> NoSlot]
  /\ reg = [c \in Cpus |-> 0]
  /\ tally = [k \in Keys |-> [packets |-> 0, bytes |-> 0, syns |-> 0]]

-----------------------------------------------------------------------------
(* A frame arrives and its flow is looked up *)

Receive(c, p) ==
  /\ pc[c] = "idle"
  /\ c \in Steer[p.key]
  /\ arrived < MaxPackets
  /\ arrived' = arrived + 1
  /\ Goto(c, "lookup")
  /\ frame' = [frame EXCEPT ![c] = p]
  /\ now' = [now EXCEPT ![c] = clock]
  /\ UNCHANGED <<maps, clock, stats, reg, tally>>

Lookup(c) ==
  /\ pc[c] = "lookup"
  /\ stats' = [stats EXCEPT ![c] = flow_map[Key(c)]]
  /\ Goto(c, AfterLookup(c))
  /\ UNCHANGED <<maps, clock, arrived, frame, now, reg, tally>>

-----------------------------------------------------------------------------
(* The flow is new *)

(* An update of a full map fails, and the program ignores the failure. *)
TrackSyn(c) ==
  /\ pc[c] = "trackSyn"
  /\ IF Key(c) \in Handshakes \/ Cardinality(Handshakes) < MaxHandshakes
       THEN /\ handshake_map' = [handshake_map EXCEPT ![Key(c)] = now[c]]
            /\ tally' = [tally EXCEPT ![Key(c)].syns = @ + 1]
       ELSE UNCHANGED <<handshake_map, tally>>
  /\ Goto(c, "insert")
  /\ UNCHANGED <<flow_map, elem, events, clock, arrived, frame, now, stats, reg>>

(* BPF_NOEXIST: if another CPU created the flow meanwhile, or the map is   *)
(* full, the update fails and this frame goes uncounted.                   *)
CanInsertExisting(k) == flow_map[k] # NoSlot /\ FreeSlots # {}
CanInsert(k) == flow_map[k] = NoSlot /\ FreeSlots # {}

Insert(c) ==
  /\ pc[c] = "insert"
  /\ IF CanInsert(Key(c))
       THEN \E s \in FreeSlots :
              /\ flow_map' = [flow_map EXCEPT ![Key(c)] = s]
              /\ elem' = [elem EXCEPT ![s] = NewStats(frame[c], now[c])]
       ELSE UNCHANGED <<flow_map, elem>>
  /\ tally' = [tally EXCEPT ![Key(c)].packets = @ + 1, ![Key(c)].bytes = @ + frame[c].size]
  /\ Goto(c, "event")
  /\ UNCHANGED <<handshake_map, events, clock, arrived, frame, now, stats, reg>>

(* The event is sent whether or not the insertion succeeded; it is dropped *)
(* when the ring buffer has no room.                                       *)
SendEvent(c) ==
  /\ pc[c] = "event"
  /\ events' =
       IF Len(events) < RingSlots
         THEN Append(events, [key |-> Key(c), state |-> InitialState(frame[c]),
                              l7 |-> L7(Key(c)), timestamp |-> now[c]])
         ELSE events
  /\ Return(c)
  /\ UNCHANGED <<flow_map, elem, handshake_map, clock, arrived, tally>>

-----------------------------------------------------------------------------
(* The flow exists: update it through the pointer *)

LoadPackets(c) ==
  /\ pc[c] = "loadPackets"
  /\ reg' = [reg EXCEPT ![c] = elem[stats[c]].packets]
  /\ Goto(c, "storePackets")
  /\ UNCHANGED <<maps, clock, arrived, frame, now, stats, tally>>

StorePackets(c) ==
  /\ pc[c] = "storePackets"
  /\ elem' = [elem EXCEPT ![stats[c]].packets = reg[c] + 1]
  /\ tally' = [tally EXCEPT ![Key(c)].packets = @ + 1]
  /\ Goto(c, "loadBytes")
  /\ UNCHANGED <<flow_map, handshake_map, events, clock, arrived, frame, now, stats, reg>>

LoadBytes(c) ==
  /\ pc[c] = "loadBytes"
  /\ reg' = [reg EXCEPT ![c] = elem[stats[c]].bytes]
  /\ Goto(c, "storeBytes")
  /\ UNCHANGED <<maps, clock, arrived, frame, now, stats, tally>>

StoreBytes(c) ==
  /\ pc[c] = "storeBytes"
  /\ elem' = [elem EXCEPT ![stats[c]].bytes = reg[c] + frame[c].size]
  /\ tally' = [tally EXCEPT ![Key(c)].bytes = @ + frame[c].size]
  /\ Goto(c, "touch")
  /\ UNCHANGED <<flow_map, handshake_map, events, clock, arrived, frame, now, stats, reg>>

Touch(c) ==
  /\ pc[c] = "touch"
  /\ elem' = [elem EXCEPT ![stats[c]].last_seen = now[c],
                          ![stats[c]].l7 = IF @ = "UNKNOWN" THEN L7(Key(c)) ELSE @]
  /\ IF IsSynAck(frame[c])
       THEN Goto(c, "matchSyn") /\ UNCHANGED <<frame, now, stats, reg>>
       ELSE ToFin(c)
  /\ UNCHANGED <<flow_map, handshake_map, events, clock, arrived, tally>>

(* The 64-bit difference, in microseconds, cut to 32 bits. *)
RttSwapped(t, syn_time) == (((syn_time - t) % U64) \div NsPerUs) % U32
Rtt(t, syn_time) == (((t - syn_time) % U64) \div NsPerUs) % U32

MatchSyn(c) ==
  /\ pc[c] = "matchSyn"
  /\ LET syn_time == handshake_map[Reverse(Key(c))] IN
       IF syn_time > 0
         THEN /\ reg' = [reg EXCEPT ![c] = Rtt(now[c], syn_time)]
              /\ Goto(c, "sample")
              /\ UNCHANGED <<frame, now, stats>>
         ELSE ToFin(c)
  /\ UNCHANGED <<maps, clock, arrived, tally>>

Sample(c) ==
  /\ pc[c] = "sample"
  /\ elem' = [elem EXCEPT ![stats[c]].latency_sum = (@ + reg[c]) % U32,
                          ![stats[c]].latency_count = @ + 1]
  /\ Goto(c, "establish")
  /\ UNCHANGED <<flow_map, handshake_map, events, clock, arrived, frame, now, stats, reg, tally>>

HandshakesAfterOwnKey(c) == [handshake_map EXCEPT ![Key(c)] = 0]
HandshakesAfter(c) == [handshake_map EXCEPT ![Reverse(Key(c))] = 0]

Establish(c) ==
  /\ pc[c] = "establish"
  /\ elem' = [elem EXCEPT ![stats[c]].state = "ESTABLISHED"]
  /\ handshake_map' = HandshakesAfter(c)
  /\ ToFin(c)
  /\ UNCHANGED <<flow_map, events, clock, arrived, tally>>

Fin(c) ==
  /\ pc[c] = "fin"
  /\ elem' = [elem EXCEPT ![stats[c]].state = "CLOSING"]
  /\ Return(c)
  /\ UNCHANGED <<flow_map, handshake_map, events, clock, arrived, tally>>

-----------------------------------------------------------------------------

(* The collector's readEvents goroutine takes the oldest event. *)
TakeEvent ==
  /\ events # << >>
  /\ events' = Tail(events)
  /\ UNCHANGED <<flow_map, elem, handshake_map, clock, arrived, locals, tally>>

Tick ==
  /\ clock < MaxClock
  /\ clock' = clock + 1
  /\ UNCHANGED <<maps, arrived, locals, tally>>

Run(c) ==
  \/ Lookup(c) \/ TrackSyn(c) \/ Insert(c) \/ SendEvent(c)
  \/ LoadPackets(c) \/ StorePackets(c) \/ LoadBytes(c) \/ StoreBytes(c)
  \/ Touch(c) \/ MatchSyn(c) \/ Sample(c) \/ Establish(c) \/ Fin(c)

TcNext ==
  \/ \E c \in Cpus, p \in Packets : Receive(c, p)
  \/ \E c \in Cpus : Run(c)
  \/ TakeEvent
  \/ Tick

TcSpec == Init /\ [][TcNext]_tcVars

-----------------------------------------------------------------------------
(* Properties *)

Locations == {"idle", "lookup", "trackSyn", "insert", "event", "loadPackets", "storePackets",
              "loadBytes", "storeBytes", "touch", "matchSyn", "sample", "establish", "fin"}

L7Protocols == {"UNKNOWN", "HTTP", "HTTPS", "DNS", "SSH"}

Stats == [packets : Nat, bytes : Nat, last_seen : Nat, first_seen : Nat,
          latency_sum : 0 .. U32 - 1, latency_count : Nat,
          state : {"NEW", "ESTABLISHED", "CLOSING"}, l7 : L7Protocols]

Events == [key : Keys, state : {"NEW", "ESTABLISHED"}, l7 : L7Protocols, timestamp : Nat]

(* A CPU past its lookup holds an element, one that runs holds a frame. *)
TypeOK ==
  /\ flow_map \in [Keys -> Slots \cup {NoSlot}]
  /\ elem \in [Slots -> Stats]
  /\ handshake_map \in [Keys -> Nat]
  /\ events \in Seq(Events)
  /\ clock \in Nat /\ arrived \in Nat
  /\ pc \in [Cpus -> Locations]
  /\ frame \in [Cpus -> Packets \cup {NoFrame}]
  /\ now \in [Cpus -> Nat]
  /\ stats \in [Cpus -> Slots \cup {NoSlot}]
  /\ reg \in [Cpus -> Nat]
  /\ tally \in [Keys -> [packets : Nat, bytes : Nat, syns : Nat]]
  /\ \A c \in Cpus :
       /\ pc[c] # "idle" => frame[c] \in Packets
       /\ pc[c] \notin {"idle", "lookup", "trackSyn", "insert", "event"} => stats[c] \in Slots

(* However the CPUs interleave, their unsynchronised increments can lose   *)
(* frames but never invent any: the counters of a flow stay at or below    *)
(* the frames and bytes the program handled for it.                        *)
NoOvercount ==
  \A k \in Tracked :
    /\ elem[flow_map[k]].packets <= tally[k].packets
    /\ elem[flow_map[k]].bytes <= tally[k].bytes

(* An event reaches userspace only for a flow that can be found in         *)
(* flow_map, unless the map had no room left for it.                       *)
EventsFollowInsertion ==
  \A i \in DOMAIN events : events[i].key \in Tracked \/ FreeSlots = {}

(* The frames of a key go to one CPU; those of both directions of a flow do. *)
Alone(k) == \A c, d \in Steer[k] : c = d
Joined(k) == \A c, d \in Steer[k] \cup Steer[Reverse(k)] : c = d

(* A flow whose frames go to one CPU loses no increment, whatever other    *)
(* CPUs do to other flows meanwhile: its counters are exact, also between  *)
(* the two increments.                                                     *)
CountsExact ==
  \A k \in Tracked : Alone(k) =>
    /\ elem[flow_map[k]].packets = tally[k].packets
    /\ elem[flow_map[k]].bytes = tally[k].bytes

(* When both directions of a flow go to one CPU, one tracked SYN gives at  *)
(* most one latency sample, however often its SYN-ACK is retransmitted,    *)
(* and the round trip is counted from the SYN that opened the flow:        *)
(* retransmitted ones do not restart it.                                   *)
SampledOnceFromFirstSyn ==
  \A k \in Tracked : Joined(k) => LET flow == elem[flow_map[k]] IN
    /\ flow.latency_count <= tally[Reverse(k)].syns
    /\ handshake_map[k] \in {0, flow.first_seen}

(* When both directions of a flow go to one CPU, its latency never exceeds *)
(* the time the machine is up: no sample is a wrapped-around difference.   *)
LatencyWithinUptime ==
  \A k \in Tracked : Joined(k) => LET flow == elem[flow_map[k]] IN
    flow.latency_sum * NsPerUs <= flow.latency_count * clock
=============================================================================
