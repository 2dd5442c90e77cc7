SPECIFICATION Spec
CONSTANTS
  k1 = k1
  k2 = k2
  s1 = s1
  s2 = s2
  contents = contents
  issues = issues
  app = app
  infra = infra
  every = every
  infraOnly = infraOnly
  NoOperation = NoOperation
  NoConn = NoConn
  NoToken = NoToken
  PermName <- MCPermName
  Repo <- MCRepo
  Glob <- MCGlob
  Matches <- MCMatches
  Sample <- MCSample
  Conn <- MCConn
  Policies <- MCPolicies
  DefaultGrant <- MCDefaultGrant
  NoQuestion <- MCNoQuestion
  Caller <- MCCaller
  Operations <- MCGitOperations
  Environments <- MCEnvironments
INVARIANT TokenNeverOnDisk
