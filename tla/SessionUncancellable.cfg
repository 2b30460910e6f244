CONSTANTS
  Logins = {l1, l2}
  Identities = {alice}
  NoLogin = NoLogin
  NoIdentity = NoIdentity
  LoginTimeout = 1
  RenewWindow = 1
  MaxLease = 1
SYMMETRY Symmetry
SPECIFICATION Spec
INVARIANT PollsCanBeCancelled
CHECK_DEADLOCK FALSE
