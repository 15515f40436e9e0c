SPECIFICATION Spec
CONSTANTS
  h1 = h1
  h2 = h2
  s1 = s1
  s2 = s2
  s3 = s3
  e1 = e1
  Zero = Zero
  None = None
  Hosts = {h1, h2}
  Streams = {s1, s2}
  Events = {e1}
  StreamsOf <- TwoHosts
  RecordedOn <- OneStream
  Calls = {"create", "memcpy", "kernel"}
  MaxCalls = 2
  MaxRunning = 1
  LaunchLatency = 0
  LaunchBlocking = FALSE
  Limits = FALSE
CHECK_DEADLOCK FALSE
INVARIANTS DefaultStreamExclusive
