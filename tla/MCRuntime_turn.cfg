\* One turn in every deployment, with every answer of the Guardrail.
SPECIFICATION FairSpec
CONSTANTS
  Turns = {t1}
  Chunks = {a, b}
  Masked = masked
  MaxDeltas = 3
  Payloads <- AllPayloads
  Envs <- AllEnvs
  Assessments <- AllAnswers
INVARIANTS
  TypeOK
  OnlyClearedTextIsHeard
  OnlyClearedMessageIsUsed
  CompleteReply
PROPERTY
  EveryTurnEnds
CHECK_DEADLOCK FALSE
