CONSTANTS
  Day = 2
  Skew = 1
  Invocations <- MCInvocations
  Disks <- MCDisks
  Replacements <- MCReplacements
  OpaArtifacts <- MCOpaArtifacts
  Module = "module"
  Host = "linux"
  Evaluate <- MCEvaluate
  MaxChanges = 1
  StartNow = 3
  MaxNow = 3
SPECIFICATION Spec
INVARIANT ArtifactsNeverInvalidate
CHECK_DEADLOCK FALSE
