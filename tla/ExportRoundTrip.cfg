\* What the quickstart says of an exported file.
SPECIFICATION Spec
CONSTANTS
  Ids = {1}
  Imports <- MCImports
  Creates <- MCCreates
  Renewals <- MCRenewals
  Windows = {"primary", "secondary"}
  Period <- MCPeriod
  Spent = {7, 120}
  Unspent <- MCUnspent
  Skew <- MCSkew
  Interval = 3
  MaxDelay = 1
  MaxTime = 6
  ImportLifetime = 10
VIEW View
INVARIANT ExportImportable
