SPECIFICATION Spec
CONSTANTS
  a = a
  b = b
  pw = pw
  Procs = {p1, p2}
  Slugs <- MCSlugs
  DefaultSlug = a
  Passes <- MCPasses
  Args <- MCArgs
  Envs <- MCEnvs
  ByHand <- MCByHand
  MaxKeys = 2
  MaxStarts = 2
  MaxFails = 1
  None = None
  Torn = Torn
INVARIANTS
  TypeOK
  GenerationIsUsable
  RestartResumes
PROPERTIES
  OnlyCutOrForeignSavesLose
SYMMETRY ProcSymmetry
CHECK_DEADLOCK FALSE
