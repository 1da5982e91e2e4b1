\* One SIGTERM while a turn and the periodic thread save: the process ends.
SPECIFICATION FairSpec
CONSTANTS
  Databases = {db}
  Documents = {doc}
  Turns = {t1, t2}
  MaxWrites = 1
  MaxBoots = 1
  MaxTerms = 1
PROPERTY
  ShutdownExits
CHECK_DEADLOCK FALSE
