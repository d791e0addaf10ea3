\* Two hosts, one of which runs two collectors on the same file; requests
\* that are given up on and made again.
SPECIFICATION Spec
CONSTANTS
  alone = alone  eth0 = eth0  eth1 = eth1  small = small  big = big
  Collectors = {alone, eth0, eth1}
  Hosts = {small, big}
  HostOf <- MCHostOf
  MaxRequests = 3
CHECK_DEADLOCK FALSE
INVARIANTS TypeOK CredentialsAreKnown NoSharedIdentity StableIdentity RunningIsSaved
