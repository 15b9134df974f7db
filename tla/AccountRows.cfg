\* Two accounts, two passes, a provider whose clock is half a minute behind, answers within half a minute.
SPECIFICATION Spec
CONSTANTS
  Ids = {1, 2}
  Imports <- OneImport
  Creates <- MCCreates
  Renewals <- OneRenewal
  Windows = {"primary", "secondary"}
  Period <- MCPeriod
  Spent = {120}
  Unspent <- MCUnspent
  Skew <- MCSkew
  Interval = 4
  MaxDelay = 1
  MaxTime = 4
  ImportLifetime = 10
VIEW View
INVARIANTS RoundTrip ProbesRolling UsageTruthful
