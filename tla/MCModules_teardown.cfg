SPECIFICATION Spec
CONSTANTS
  Metric = Metric
  File = File
  Other = Other
  NoPlugin = NoPlugin
  NoFile = NoFile
  Files <- MCFiles
  Plugins = {Metric, File, Other}
  Exports <- MCExports
  WithJob = {Metric, Other}
  WithDestroy = {Metric, File}
  MaxEntries = 2
CHECK_DEADLOCK FALSE
INVARIANTS TypeOK CallsLoaded TableComplete EachUnloadedOnce TerminatesGracefully
