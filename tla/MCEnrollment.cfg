CONSTANTS
  Requests = {r1, r2}
  Users = {alice, bob}
  NoUser = NoUser
  HasSanClaim = TRUE
  Intermediates = 2
  Faults = {"delete", "exit"}
SYMMETRY Symmetry
SPECIFICATION Spec
INVARIANTS
  TypeOK
  InstalledCertificatesAreUsable
  LeftoverKeysAreExplained
  TwoNamesOnlyAfterASwitch
  TwinsComeFromOverlaps
