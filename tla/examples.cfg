CONSTANTS
  None = None
  Programs = {"helloworld", "latency", "latency_raw", "rpc", "write_bw", "send_bw_raw", "cancellation"}
  Count = 2
  Concurrency = 2
  RecvDepth = 3
  Hosts = {"client", "server"}
  Looping = {"server"}
SPECIFICATION FairSpec
INVARIANT FailsOnlyAfterTheEnd
INVARIANT ChecksHold
INVARIANT ResumedOnce
INVARIANT FreedWhenFinished
INVARIANT ExamplesInv
PROPERTY EndsAsIntended
PROPERTY WokenUnlessTooLate
CHECK_DEADLOCK FALSE
