SPECIFICATION Spec
CONSTANTS
  s1 = s1
  s2 = s2
  one = one
  two = two
  old = old
  legacy = legacy
  exported = exported
  Unset = Unset
  Broken = Broken
  Setup <- MCSetup
  Value <- MCValue
  Arguments <- MCArguments
  Environment <- MCEnvironment
  Files <- MCFiles
  Tails <- MCTails
  MaxEdit = 2
SYMMETRY MCSymmetry
INVARIANTS
  TypeOK
  RestSurvives
  SetupTakesEffect
  NeverMixed
