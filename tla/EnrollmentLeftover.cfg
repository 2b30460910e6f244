CONSTANTS
  Requests = {r1, r2}
  Users = {alice}
  NoUser = NoUser
  HasSanClaim = FALSE
  Intermediates = 1
  Faults = {}
SPECIFICATION Spec
INVARIANT FailedIssuanceDeletesItsKey
