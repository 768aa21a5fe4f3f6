SPECIFICATION AuthzSpec
CONSTANTS
  Users <- MCUsers
  Auditors <- MCAuditors
  Limit <- MCLimit
  Accounts <- MCAccounts
  Owner <- MCOwner
  Frozen <- MCFrozen
  Numbers <- MCNumbers
  Default = 4
  MaxLong = 5
  ProbeAmount = 1
  Agents = {a1, a2}
  People = {u1, u2}
  Classes = {0, 1, 2}
  None = None
  Absent = Absent
SYMMETRY Symmetry
INVARIANTS TypeOK PrincipalProved DecisionIsIntended AgentTypeOK ReadsBounded ClassifiedForbidRedundant
PROPERTIES LintDescribesEdge RevocationGrantsNothing
