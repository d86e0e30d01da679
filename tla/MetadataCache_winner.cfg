SPECIFICATION Spec
CONSTANTS
  w1 = w1
  w2 = w2
  r1 = r1
  e1 = e1
  Savers <- TwoSavers
  Readers <- OneReader
  Sweepers <- NoSweeper
  Snapshots <- MCSnapshots
  SaneUntil = 5
  MaxSaves = 2
  MaxVisits = 1
  MaxDamage = 0
  NoManifest = NoManifest
  Nobody = Nobody
PROPERTIES
  ReadersSpareWinners
SYMMETRY SaverSymmetry
CHECK_DEADLOCK FALSE
