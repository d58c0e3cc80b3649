\* Three pods, two at one address in turn; watches break off.
SPECIFICATION FairSpec
CONSTANTS
  p1 = p1
  p2 = p2
  p3 = p3
  ip1 = ip1
  ip2 = ip2
  Pods <- ThreePods
  IPOf <- ReusedIPs
  Hashes = {0, 1, 2, 3}
  MaxUpdates = 1
  MaxLag = 3
  MaxClosures = 1
  MaxErrors = 1
INVARIANTS ClientsForEveryPath OneLivePodSuffices
PROPERTIES RunningPodsJoin
CHECK_DEADLOCK FALSE
