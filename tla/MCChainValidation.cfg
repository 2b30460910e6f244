CONSTANTS
  A = A
  B = B
  k1 = k1
  k2 = k2
  Names = {A, B}
  Keys = {k1, k2}
  TrustedRoots <- MCTrustedRoots
  Unreadable = Unreadable
  MaxEntries = 3
SPECIFICATION Spec
INVARIANTS
  TypeOK
  AcceptedChainsAreAnchored
  LoopIsNeverReported
  AnchoredChainsAreAccepted
CHECK_DEADLOCK FALSE
