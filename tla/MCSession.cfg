CONSTANTS
  Logins = {l1, l2}
  Identities = {alice, bob}
  NoLogin = NoLogin
  NoIdentity = NoIdentity
  LoginTimeout = 2
  RenewWindow = 1
  MaxLease = 2
SPECIFICATION FairSpec
INVARIANTS
  TypeOK
  CancelSlotIsLive
  AttemptsExcludeEachOther
  TokenHasOneHolder
  IdentityIsTheTokensOwner
PROPERTIES
  DroppedTokensAreRevoked
  ImplementsSignIns
  AttemptsEnd
  RenewalIsTried
CHECK_DEADLOCK FALSE
