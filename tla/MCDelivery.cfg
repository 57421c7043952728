SPECIFICATION Spec
CONSTANTS
  ke = ke
  ka = ka
  k1 = k1
  d1 = d1
  d2 = d2
  a1 = a1
  a2 = a2
  a3 = a3
  None = None
  Kinds = {ke, ka}
  Expiring = ke
  Announcement = ka
  Defaults <- MCDefaults
  RetryTicks <- MCTicks
  Choices <- MCChoices
  MaxRows = 3
  MaxNCrashes = 1
  MaxLost = 1
  MaxPrefs = 1
  Callbacks = {k1}
  Dispatchers = {d1, d2}
  MaxAttempts = 3
  Delays <- MCDelays
  MaxCrashes = 1
  Checks = {d1, d2}
  MaxLooks = 2
  Streams = {a1, a2, a3}
  MaxStreams = 2
  Procs = {d1, d2}
  Buckets = {None}
  MaxCalls = 3
  MaxFaults = 2
INVARIANTS  CallbacksHold StreamsHold UsageHolds ChecksHold
PROPERTIES Proceeds
CHECK_DEADLOCK FALSE
