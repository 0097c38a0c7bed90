CONSTANTS
  Keys = {1, 2}
  Values = {va}
  Absent = Absent
  Torn = Torn
  Journal = Journal
  Synchronises = TRUE
  StatFailures = TRUE
SPECIFICATION Spec
PROPERTY RecoverySettles
