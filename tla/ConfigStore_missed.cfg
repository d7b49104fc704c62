SPECIFICATION LiveSpec
CONSTANTS
  d1 = d1
  secret = secret
  blank = blank
  v1 = v1
  p1 = p1
  Defs = {d1}
  Groups <- MCGroups
  Values <- MCValues
  DefaultDef = d1
  DefaultValue = blank
  SecretGroups <- MCGroups
  Blank = blank
  Pollers = {p1}
  DefaultVars = 2
  MaxVariables = 3
  MaxGeneration = 2
  MaxId = 5
  MaxUnsaved = 2
INVARIANTS NoMissedMutation
