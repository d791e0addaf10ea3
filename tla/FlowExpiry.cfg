\* One CPU, a flow of the host and a transit flow; reads may fail, flows are deleted.
SPECIFICATION FairSpec
CONSTANTS
  c1 = c1  s1 = s1  s2 = s2
  Cpus = {c1}
  Packets <- MCDatagrams
  Steer <- MCSteer
  Slots = {s1, s2}
  MaxHandshakes = 1
  RingSlots = 1
  U64 = 64
  U32 = 32
  NsPerUs = 1
  MaxPackets = 2
  MaxClock = 2
  LocalIPs = {"server"}
  CValueSize = 44
  GoValueSize = 44
  SyscallsMayFail = TRUE
  Timeout = 0
  NoSlot = NoSlot
  NoFrame = NoFrame
CHECK_DEADLOCK FALSE
INVARIANTS DrainTypeOK DeltasTelescope NoDoubleCount
PROPERTY CatchesUp
