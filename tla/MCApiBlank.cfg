SPECIFICATION Spec
CONSTANTS
  Users <- MCUsers
  Auditors <- MCAuditors
  Limit <- MCLimit
  Accounts <- MCAccounts
  Owner <- MCOwner
  Frozen <- MCFrozen
  Numbers <- MCNumbers
  Default = 4
  MaxLong = 5
  None = None
  ProbeAmount = 1
INVARIANTS FallbackOnlyWithoutHeader
