---------------------------- MODULE MCTcMonitor ----------------------------
(* TcMonitor on a small instance: the frames of a TCP connection, all      *)
(* steered to one CPU, and of a query, which two CPUs share.               *)
EXTENDS TcMonitor, TLC

CONSTANTS c1, c2, s1, s2

Flow(src, sport, dst, dport, proto) ==
  [src |-> src, dst |-> dst, src_port |-> sport, dst_port |-> dport, protocol |-> proto]

Segment(k, flags, size) ==
  [key |-> k, size |-> size, syn |-> "syn" \in flags, ack |-> "ack" \in flags,
   fin |-> "fin" \in flags]

ToServer == Flow("client", 5000, "server", 443, "TCP")
ToClient == Reverse(ToServer)
Query == Flow("client", 5000, "server", 53, "UDP")

Syn == Segment(ToServer, {"syn"}, 2)
SynAck == Segment(ToClient, {"syn", "ack"}, 2)
FinAck == Segment(ToClient, {"fin", "ack"}, 2)

MCPackets == {Syn, SynAck, FinAck, Segment(ToServer, {"ack"}, 3), Segment(Query, {}, 2)}

MCSteer == [k \in Keys |-> IF k.protocol = "TCP" THEN {c1} ELSE {c1, c2}]

Symmetry == Permutations(Slots)
=============================================================================
