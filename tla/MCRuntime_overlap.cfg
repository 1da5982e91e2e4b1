\* Two turns of one session that overlap: two tabs, or a retry while the first
\* attempt is still running.
SPECIFICATION FairSpec
CONSTANTS
  Turns = {t1, t2}
  Chunks = {a}
  Masked = masked
  MaxDeltas = 1
  Payloads <- GoodPayloads
  Envs <- BusyEnvs
  Assessments <- SomeAnswers
INVARIANTS
  MemoryMatchesConversation
PROPERTIES
  NothingAfterTheEnd
  ImplementsContract
CHECK_DEADLOCK FALSE
