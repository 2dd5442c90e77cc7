SPECIFICATION SpecAuth
CONSTANTS
  contents = contents
  acme = acme
  other = other
  nobody = nobody
  site = site
  gone = gone
  own = own
  legacy = legacy
  acmeSite = acmeSite
  legacySite = legacySite
  AnyOwner = AnyOwner
  NoRepo = NoRepo
  NoToken = NoToken
  c1 = c1
  c2 = c2
  PermName <- MCPermName
  Call <- MCCall
  Asks <- MCAsks
  Owner <- MCOwner
  Name <- MCName
  Inst <- MCInst
  Installations <- MCInstallations
  Hosted <- MCHosted
  ConfigDefault <- MCConfigDefault
  TTL = 3
  Slack = 1
  Exchange = 1
  MaxTime = 3
  MaxMint = 3
SYMMETRY MCSymmetry
INVARIANTS
  AuthTypeOK
  ReturnedForAsk
PROPERTIES
  ForcedIsFresh
  HandedOutUsable
  LateStoreBounded
