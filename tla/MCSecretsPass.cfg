SPECIFICATION Spec
CONSTANTS
  Secrets = {s1, s2}
  Keys = {k1, k2, k3}
  Plain = Plain
  None = None
INVARIANTS PassMeansEncrypted
CHECK_DEADLOCK FALSE
