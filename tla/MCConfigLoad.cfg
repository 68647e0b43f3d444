SPECIFICATION Spec
CONSTANTS
  NoFile = NoFile
  Damaged = Damaged
  Toml <- MCToml
  Environments <- MCEnvironments
  CommandLines <- MCCommandLines
  ParseNumber <- MCParseNumber
  Lower <- MCLower
INVARIANTS FileConfigLegal Precedence RefusedForCause
CHECK_DEADLOCK FALSE
