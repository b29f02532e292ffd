SPECIFICATION Spec
CONSTANTS
  Names = {"elan", "vfs", "next"}
  Plugins = {"elan.so", "vfs.so", "next.so"}
  Info <- MCInfo
  Framework <- MCFramework
  IdStart = 100
  IdMax = 100
  None = None
  Empty = Empty
  FirstFiles <- MCFiles
  MaxRuns = 0
  Commands <- MCCommands
  Procs = {systemd, manual}
  Unit = systemd
  StartLimit = 1
  MaxFaults = 0
  MaxMoves = 1
INVARIANTS OneDaemon
CHECK_DEADLOCK FALSE
