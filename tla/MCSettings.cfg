CONSTANTS
  Calls = {c1, c2, c3}
  short = short
  long = long
  invalid = invalid
  Servers <- MCServers
  Valid <- MCValid
  Length <- MCLength
  Embedded = Embedded
  Absent = Absent
  Torn = Torn
  Unknown = Unknown
SPECIFICATION Spec
SYMMETRY Symmetry
INVARIANTS
  TypeOK
  LastAnswerTakesEffect
PROPERTY OnlySurprisedCallsWrite
