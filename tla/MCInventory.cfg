CONSTANTS
  alice = alice
  bob = bob
  s1 = s1
  foreign = foreign
  Users <- MCUsers
  Claims <- MCClaims
  Profiles <- DistinctProfiles
  KnownMounts = {"pki_document_signing"}
  Serials = {s1, foreign}
  Strangers <- MCStrangers
  Answers <- MCAnswers
  Removals = {r1, r2}
  Nobody = Nobody
  NoMount = NoMount
  NoClaim = NoClaim
  Unissued = Unissued
  Unlisted = Unlisted
SPECIFICATION Spec
SYMMETRY Symmetry
INVARIANTS
  TypeOK
  AcceptedCertificatesAreFound
  RevocationsGoToTheIssuer
PROPERTY UnrevokedRemovalsAreOfStrangers
