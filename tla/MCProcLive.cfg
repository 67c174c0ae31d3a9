CONSTANTS
  NProc = 3
  Cpus = {c1}
  NoCpu = NoCpu
  Channels = {k1}
  MaxPid = 3
  KillArgs = {2}
  MayFail = FALSE
SPECIFICATION FairSpec
 
PROPERTIES RunnableRuns  OrphanReaped
