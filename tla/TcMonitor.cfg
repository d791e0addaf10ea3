\* Two CPUs: a TCP connection steered to the first of them - handshake,
\* retransmissions, data and close, in any order of arrival - and a query that
\* both take.  Three flows, a flow map with room for two of them.
SPECIFICATION TcSpec
CONSTANTS
  c1 = c1  c2 = c2  s1 = s1  s2 = s2
  Cpus = {c1, c2}
  Packets <- MCPackets
  Steer <- MCSteer
  Slots = {s1, s2}
  MaxHandshakes = 1
  RingSlots = 1
  U64 = 64
  U32 = 32
  NsPerUs = 1
  MaxPackets = 5
  MaxClock = 2
  NoSlot = NoSlot
  NoFrame = NoFrame
SYMMETRY Symmetry
CHECK_DEADLOCK FALSE
INVARIANTS
  TypeOK NoOvercount EventsFollowInsertion CountsExact
  SampledOnceFromFirstSyn LatencyWithinUptime
