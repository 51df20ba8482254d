SPECIFICATION Spec
CONSTANTS
  Trees <- MCTrees
  Configs <- MCConfigs
  Commands <- MCCommands
  Base <- MCBase
INVARIANTS
  FilesExact
  MalformedReported
  FilesAreDefined
CHECK_DEADLOCK FALSE
