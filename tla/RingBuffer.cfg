\* Two pushers and two viewers; a batch longer than the buffer, and enough
\* records to wrap around it twice.
SPECIFICATION FairSpec
CONSTANTS
  w1 = w1  w2 = w2  r1 = r1  r2 = r2
  Writers = {w1, w2}
  Readers = {r1, r2}
  Capacity = 2
  Records = {"a", "b", "c"}
  ZeroRecord = "zero"
  MaxPushed = 4
  Batches <- MCBatches
INVARIANTS TypeOK SnapshotIsWindow
PROPERTIES ImplementsRecentFlows CallsReturn
