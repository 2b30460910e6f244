CONSTANTS
  Requests = {r1, r2}
  Removals = {m1}
  Refreshes = {f1}
  OldKey = OldKey
  OldCert = OldCert
  NoKey = NoKey
  NoCert = NoCert
  MaxActive = 2
SPECIFICATION Spec
SYMMETRY Symmetry
INVARIANTS
  TypeOK
  CertificatesKeepTheirKeys
PROPERTIES
  KeysAreNeverOverwritten
  CertificatesAreReplacedOnRequest
  UnrevokedRemovalsAreByOldRows
