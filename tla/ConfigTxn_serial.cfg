SPECIFICATION Spec
CONSTANTS
  Writers = {w1}
  Accounts = {a1, a2}
  NoAccount = NoAccount
  MaxTxn = 3
  Kinds <- AllKinds
  Faults <- AllFaults
INVARIANTS
  TypeOK
  NoStaleReplay
PROPERTIES
  PasswordsGoAfterFiles
  
CHECK_DEADLOCK FALSE
