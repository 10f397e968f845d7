SPECIFICATION Spec
CONSTANTS
  Names <- MCNames
  Paths <- MCPaths
  Args <- MCArgs
  Points <- MCPoints
  MaxMounts = 2
INVARIANTS
  TypeOK
  CurrentDirExists
  CdMeansWhatCommandsMean
