CONSTANTS
  Requests = {r1}
  Removals = {m1}
  Refreshes = {f1}
  OldKey = OldKey
  OldCert = OldCert
  NoKey = NoKey
  NoCert = NoCert
  MaxActive = 2
SPECIFICATION Spec
SYMMETRY Symmetry
PROPERTY RemovedCertificatesAreRevoked
