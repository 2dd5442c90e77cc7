SPECIFICATION Spec
CONSTANTS
  c1 = c1
  c2 = c2
  contents = contents
  issues = issues
  acme = acme
  beta = beta
  infra = infra
  Infra = Infra
  inst = inst
  acmeInfra = acmeInfra
  betaInfra = betaInfra
  every = every
  acmeOnly = acmeOnly
  AnyOwner = AnyOwner
  NoRepo = NoRepo
  NoToken = NoToken
  PermName <- MCPermName
  Call <- MCCall
  Asks <- MCAsks
  Owner <- MCOwner
  Name <- MCName
  Inst <- MCInst
  Installations <- MCInstallations
  Hosted <- MCHosted
  ConfigDefault <- MCConfigDefault
  Repo <- MCRepo
  Glob <- MCGlob
  Matches <- MCMatches
  Sample <- MCSample
  Requests <- MCRequests
  Lowered <- MCLowered
  Account <- MCAccount
  Policies <- MCPolicies
  TTL = 1
  Slack = 0
  Exchange = 0
  MaxTime = 1
  MaxMint = 2
  MaxRestart = 1
INVARIANT GrantsWithinCeiling
CHECK_DEADLOCK FALSE
