\* Periodic save, a turn's save and the handler over two processes.
SPECIFICATION Spec
CONSTANTS
  Databases = {db}
  Documents = {doc}
  Turns = {t1}
  MaxWrites = 2
  MaxBoots = 2
  MaxTerms = 1
INVARIANTS
  TypeOK
  DatabasesIntact
PROPERTIES
  ImplementsStore
  SaveIsComplete
CHECK_DEADLOCK FALSE
