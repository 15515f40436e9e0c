SPECIFICATION Spec
CONSTANTS
  k1 = k1
  k2 = k2
  k3 = k3
  k4 = k4
  s1 = s1
  s2 = s2
  t1 = t1
  t2 = t2
  None = None
  Kernels = {k1, k2, k3, k4}
  Parent <- Families
  Streams = {s1, s2, t1, t2}
  StreamOf <- FamilyStreams
  NumCtas <- One
  MaxCta <- One
  TBLatency = 0
  NClusters = 2
  CoresPerCluster = 1
  MaxCtaPerCore = 2
  MaxConcurrent = 2
  ConcurrentSm = TRUE
  CycleLimit = TRUE
  MaxCtaOpt = 0
  MaxCompletedOpt = 0
CHECK_DEADLOCK FALSE
INVARIANTS NeverWaitsForItself
