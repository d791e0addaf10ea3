----------------------------- MODULE MCGeoView ------------------------------
(* GeoView on a small instance: two collectors, one address the database   *)
(* of places knows nothing about.                                          *)
EXTENDS GeoView

CONSTANTS h1, h2

FlowRecord(addr, dir, packets, timestamp) ==
  [address |-> addr, direction |-> dir, packets |-> packets, timestamp |-> timestamp]

MCPlaceOf == [a |-> "Oslo", b |-> "Lima", c |-> Nowhere]

MCPosts ==
  {[agent |-> "x", records |-> <<FlowRecord("a", "egress", 2, 0), FlowRecord("b", "egress", 3, 0),
                                   FlowRecord("a", "egress", 2, 0)>>],
   [agent |-> "x", records |-> <<FlowRecord("a", "egress", 2, 1), FlowRecord("c", "ingress", 1, 1)>>],
   [agent |-> "x", records |-> << >>],
   [agent |-> "y", records |-> <<FlowRecord("c", "egress", 2, 1)>>]}

Symmetry == Permutations(Handlers)
=============================================================================
