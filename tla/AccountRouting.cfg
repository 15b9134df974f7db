SPECIFICATION Spec
CONSTANTS
  q1 = q1
  m1 = m1
  m2 = m2
  s1 = s1
  NoModel = NoModel
  NoSession = NoSession
  NoAccount = NoAccount
  Requests = {q1}
  Sessions = {s1}
  Models = {m1, m2}
  Stored = {1, 2}
  Accounts <- ThreeAccounts
  Nodes <- TwoNodes
  Hash <- SmallRing
  KeyHash <- Keys
  Kind <- Kinds
  Rename <- Renames
  Endpoints <- SomeEndpoints
  MaxEdits = 2
  CounterMod = 4
INVARIANTS RightAccount NeverMissed
PROPERTIES Sticky
