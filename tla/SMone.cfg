SPECIFICATION FairSpec
CONSTANTS
  h1 = h1
  h2 = h2
  s1 = s1
  s2 = s2
  s3 = s3
  e1 = e1
  Zero = Zero
  None = None
  Hosts = {h1}
  Streams = {s1, s2}
  Events = {e1}
  StreamsOf <- OneHost
  RecordedOn <- OneStream
  Calls = {"create", "kernel", "record", "wait", "waitall", "sync", "eventsync", "syncstream", "destroy", "exit"}
  MaxCalls = 3
  MaxRunning = 2
  LaunchLatency = 0
  LaunchBlocking = FALSE
  Limits = TRUE
CHECK_DEADLOCK FALSE
INVARIANTS KernelBookkeeping LastStreamValid DefaultStreamExclusive DestroyFindsStreamEmpty
PROPERTIES OperationsComplete CallsReturn WaitSeesItsRecord BlockingCallsWait ImplementsStreamOrder
