SPECIFICATION FairSpec
CONSTANTS
  k1 = k1
  k2 = k2
  k3 = k3
  k4 = k4
  s1 = s1
  s2 = s2
  t1 = t1
  t2 = t2
  None = None
  Kernels = {k1, k2, k3, k4}
  Parent <- Chain
  Streams = {s1, s2, t1, t2}
  StreamOf <- ChainStreams
  NumCtas <- Two
  MaxCta <- Two
  TBLatency = 0
  NClusters = 2
  CoresPerCluster = 1
  MaxCtaPerCore = 2
  MaxConcurrent = 2
  ConcurrentSm = FALSE
  CycleLimit = FALSE
  MaxCtaOpt = 0
  MaxCompletedOpt = 0
CHECK_DEADLOCK FALSE
INVARIANTS TypeOK OneKernelPerCore CoresHoldLiveKernels SelectsUnexecuted TableHoldsNoDone ParentsAwaitChildren NeverWaitsForItself
PROPERTIES AcceptedKernelsRetire
