SPECIFICATION Spec
CONSTANTS
  w1 = w1
  w2 = w2
  r1 = r1
  s1 = s1
  s2 = s2
  none = none
  torn = torn
  Adders <- MCAdders
  Readers <- MCReaders
  Snapshots <- MCSnapshots
  None = none
  Torn = torn
  Backend = "filesystem"
  Limit = 2
  Base = 2
  Zone = 43
  Events = {"crash", "refused"}
INVARIANTS
  BackupOfDamaged
PROPERTIES
  Register
  WithinLimit
  KeepsItsBackup
