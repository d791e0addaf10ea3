\* Two CPUs count one flow without synchronisation.
SPECIFICATION Spec
CONSTANTS
  c1 = c1  c2 = c2  s1 = s1  s2 = s2
  Cpus = {c1, c2}
  Packets <- MCOneFlow
  Steer <- MCSteer
  Slots = {s1}
  MaxHandshakes = 1
  RingSlots = 1
  U64 = 64
  U32 = 32
  NsPerUs = 1
  MaxPackets = 4
  MaxClock = 1
  LocalIPs = {"server"}
  CValueSize = 44
  GoValueSize = 44
  SyscallsMayFail = FALSE
  NoSlot = NoSlot
  NoFrame = NoFrame
CHECK_DEADLOCK FALSE
INVARIANT LowerReadingMeansReset
