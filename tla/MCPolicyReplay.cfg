CONSTANTS
  Day = 2
  Skew = 1
  Invocations <- MCInvocations
  Disks <- MCDisks
  Replacements <- MCReplacements
  OpaArtifacts <- MCOpaArtifacts
  Module = "module"
  Host = "linux"
  Evaluate <- MCEvaluate
  MaxChanges = 1
  StartNow = 2
  MaxNow = 3
SPECIFICATION Spec
INVARIANTS TypeOK MatchIsEarned MismatchIsReal FaithfulArchiveMatches AuthenticatedFirst OnlyPinnedCodeRuns
PROPERTY Terminates
CHECK_DEADLOCK FALSE
