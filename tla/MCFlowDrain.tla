---------------------------- MODULE MCFlowDrain ----------------------------
(* FlowDrain on small instances: a flow of the host and one that only      *)
(* passes through it.                                                      *)
EXTENDS FlowDrain

CONSTANTS c1, c2, s1, s2

Flow(src, sport, dst, dport, proto) ==
  [src |-> src, dst |-> dst, src_port |-> sport, dst_port |-> dport, protocol |-> proto]

Datagram(k, size) == [key |-> k, size |-> size, syn |-> FALSE, ack |-> FALSE, fin |-> FALSE]

Query == Flow("client", 5000, "server", 53, "UDP")
Transit == Flow("client", 5000, "elsewhere", 53, "UDP")

MCDatagrams == {Datagram(Query, 2), Datagram(Transit, 3)}
MCOneFlow == {Datagram(Query, 2)}

(* Any CPU takes any frame. *)
MCSteer == [k \in Keys |-> Cpus]
=============================================================================
