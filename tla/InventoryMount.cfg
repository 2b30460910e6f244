CONSTANTS
  alice = alice
  bob = bob
  s1 = s1
  foreign = foreign
  Users <- MCUsers
  Claims <- MCClaims
  Profiles <- ExampleProfiles
  KnownMounts = {"pki_document_signing"}
  Serials = {s1, foreign}
  Strangers <- MCStrangers
  Answers <- MCAnswers
  Removals = {r1, r2}
  Nobody = Nobody
  NoMount = NoMount
  NoClaim = NoClaim
  Unissued = Unissued
  Unlisted = Unlisted
SPECIFICATION Spec
INVARIANT RevocationsGoToTheIssuer
