CONSTANTS
  r1 = r1
  r2 = r2
  c1 = c1
  c2 = c2
  other1 = other1
  Roots = {r1, r2}
  Certs = {c1, c2, other1}
  Embedded <- MCEmbedded
  Subject <- MCSubject
  Checks = {k1, k2}
  NoRoot = NoRoot
  NoCert = NoCert
SPECIFICATION Spec
SYMMETRY Symmetry
INVARIANTS
  TypeOK
  GateSawEveryRoot
PROPERTIES
  OnlyConfirmedRootsAreTrusted
  ReportedCommandsAreDone
