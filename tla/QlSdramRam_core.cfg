CONSTANTS
  a1 = a1  a2 = a2
  NoAddr = NoAddr
  Junk = Junk
  Addr <- MCAddr
  Lane <- MCLane
  Timeout = 7
  MaxStall = 1
  MaxLatency = 1
  MaxWrites = 2
  MaxResets = 1
SPECIFICATION FairSpec
INVARIANTS AtMostOnce AckMeansDone WatchdogQuiet
PROPERTIES OnlyStrobedBytes CpuAnswered
