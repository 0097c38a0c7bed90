CONSTANTS
  Keys = {1, 2}
  Values = {va, vb}
  Absent = Absent
  Torn = Torn
  Journal = Journal
  Synchronises = TRUE
  StatFailures = TRUE
SPECIFICATION Spec
PROPERTIES NeverTears IntentOutlivesFaults AcknowledgedIsStored ImplementsAtomicRegions
