SPECIFICATION FairSpec
CONSTANTS
  Threads = {t1, t2}
  Hosts <- TwoHosts
  HostBytes <- LongFirst
  StartupHosts <- FirstHost
  LicenseHosts <- LastHost
  Torn = Torn
  Inodes = {i1, i2, i3, i4}
  None = None
  SyncMayFail = TRUE
INVARIANTS
  FilesSound
  BrokerReflectsTable
PROPERTIES
  RevocationReachesBroker
