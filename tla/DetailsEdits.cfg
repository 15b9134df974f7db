SPECIFICATION Spec
CONSTANTS
  e1 = e1
  e2 = e2
  a1 = a1
  k1 = k1
  k2 = k2
  u1 = u1
  systemone = systemone
  NoUrl = NoUrl
  Keep = Keep
  Editors <- TwoEditors
  Admins <- OneAdmin
  Plain <- TwoKeys
  Urls <- OneUrl
  Capabilities <- Caps
  SystemOne = systemone
SYMMETRY Symmetry
CHECK_DEADLOCK FALSE
INVARIANTS RowValid SavedWasStored
