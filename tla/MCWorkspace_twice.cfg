\* A second SIGTERM arrives while the handler of the first is saving.
SPECIFICATION FairSpec
CONSTANTS
  Databases = {db}
  Documents = {doc}
  Turns = {t1}
  MaxWrites = 1
  MaxBoots = 1
  MaxTerms = 2
PROPERTY
  ShutdownExits
CHECK_DEADLOCK FALSE
