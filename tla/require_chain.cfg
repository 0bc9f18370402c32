SPECIFICATION ChainSpec
CHECK_DEADLOCK FALSE
CONSTANTS
  Cwd <- MCCwd
  MainDir <- MCCwd
  Requests <- Usual
  Aliased <- Aliases
  SearchDirs <- Directories
  MaxDepth = 4
  Climbs = FALSE
INVARIANTS Normalized ChunkNamesFile ReadsWhatIsAsked
