SPECIFICATION FairSpec
CONSTANTS
  Platforms = {"linux", "solaris"}
  StatFiles <- MCStatFiles
  MemFiles <- MCMemFiles
  Devices <- MCDevices
  MountTables <- MCMountTables
  Faults <- MCFaults
  MaxFailures = 3
  Descriptors = 3
INVARIANTS TypeOK RenderedWhole CountsRight ResourcesReturned
PROPERTY GathersAgain
