SPECIFICATION Spec
CONSTANTS
  contents = contents
  issues = issues
  app = app
  infra = infra
  other = other
  every = every
  infraOnly = infraOnly
  class = class
  PermName <- MCPermName
  Repo <- MCRepo
  Glob <- MCGlob
  Matches <- MCMatches
  Sample <- MCSample
  PolicyFile <- MCPolicyFile
INVARIANTS
  TypeOK
  GrantWithinCeiling
  DeniedNotClamped
  OverridesOnlyTighten
  FileEntriesApply
  DefaultsHoldAtMint
PROPERTY ImplementsDecision
CHECK_DEADLOCK FALSE
