CONSTANTS
  Keys = {1, 2}
  Values = {va}
  Absent = Absent
  Torn = Torn
  Journal = Journal
  Synchronises = FALSE
  StatFailures = FALSE
SPECIFICATION Spec
PROPERTY NeverTears
