\* Ticks, failures and a restart around two posted batches.
SPECIFICATION FairSpec
CONSTANTS
  Flows = {"public"}
  PublicFlows = {"public"}
  MaxClock = 3
  MaxCounted = 2
  MaxBatches = 2
  MaxRuns = 2
CHECK_DEADLOCK FALSE
INVARIANTS TypeOK AtMostOnce NoTrafficSkipped BucketsTile OutOfOrderOnlyIfGivenUp AcceptedIsShown
PROPERTY TicksAreServed
