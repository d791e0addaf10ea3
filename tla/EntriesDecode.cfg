\* The sizes of the entry in the two languages, as declared.
SPECIFICATION Spec
CONSTANTS
  c1 = c1  c2 = c2  s1 = s1  s2 = s2
  Cpus = {c1}
  Packets <- MCOneFlow
  Steer <- MCSteer
  Slots = {s1}
  MaxHandshakes = 1
  RingSlots = 1
  U64 = 64
  U32 = 32
  NsPerUs = 1
  MaxPackets = 1
  MaxClock = 1
  LocalIPs = {"server"}
  CValueSize = 50
  GoValueSize = 44
  SyscallsMayFail = FALSE
  NoSlot = NoSlot
  NoFrame = NoFrame
CHECK_DEADLOCK FALSE
INVARIANT EntriesDecode
