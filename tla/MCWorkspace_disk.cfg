\* A process is killed before its last save and the next one finds its disk.
SPECIFICATION Spec
CONSTANTS
  Databases = {db}
  Documents = {}
  Turns = {t1}
  MaxWrites = 2
  MaxBoots = 2
  MaxTerms = 0
PROPERTY
  PrimaryStorageKept
CHECK_DEADLOCK FALSE
