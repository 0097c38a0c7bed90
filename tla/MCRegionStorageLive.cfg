CONSTANTS
  Keys = {1, 2}
  Values = {va}
  Absent = Absent
  Torn = Torn
  Journal = Journal
  Synchronises = TRUE
  StatFailures = FALSE
SPECIFICATION FairSpec
PROPERTIES RecoverySettles LoggedIsEventuallyApplied
