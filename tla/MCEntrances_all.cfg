\* Small instances of every entrance.
SPECIFICATION EntrancesSpec
CONSTANTS
  Firings = {o, p}
  MaxReruns = 1
  MaxSends = 2
  Budget = 2
  MaxUse = 2
  MaxTotal = 4
  Containers = {k, l}
  Actors = {a}
  MaxVersions = 2
  MaxLen = 2
  MaxText = 5
  CacheTime = 2
  TokenLife = 3
  MaxDeliveries = 3
  Keys <- SampleKeys
  MaxChanges = 2
  MaxStarts = 2
  MaxContainers = 3
  Retries = 3
  MaxSignIns = 3
  MaxLoads = 4
  MaxAsks = 2
  MaxEvents = 2
  MaxBytes = 2
  Messages = {hi, ho}
  MaxAttempts = 2
  MaxDeltas = 1
  MaxSignInClicks = 1
  Cuts = TRUE
  LateBreaks = FALSE
INVARIANTS
  EntrancesTypeOK
  FiringIsAccounted
  AlarmIsTrue
  OnlyAdmittedAreServed
  IdentityIsComplete
  AnsweredOnce
  PassedOnHolds
  WorkspaceIsOwn
  SavesComeBack
  ComesUpAsProxy
  AnswerIsWhole
  SignInHolds
  WireIsTransparent
  ChatIsInOrder
  OneAttemptAtATime
PROPERTIES
  UncutSendEnds
CHECK_DEADLOCK FALSE
