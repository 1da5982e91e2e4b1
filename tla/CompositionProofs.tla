-------------------------- MODULE CompositionProofs --------------------------
(***************************************************************************)
(* Proofs about MCEntrances: what runs alone behaves as it does among the  *)
(* other parts, so that each theorem about a part holds of the composition. *)
(***************************************************************************)
EXTENDS MCEntrances, EntrancesProofs, TextProofs, WebChatProofs, TLAPS

-----------------------------------------------------------------------------
(* A step of the composition is a step of one part, and none of the others. *)

LEMMA StepIsOfOnePart ==
  ASSUME [EntrancesNext]_entranceVars
  PROVE  /\ [CronNext]_cronVars /\ [MetricsNext]_metricVars /\ [WebhookNext]_webhookVars
         /\ [RepliesNext]_replyVars /\ [ChunksNext]_chunkVars /\ [PathsNext]_pathVars
         /\ [StartNext]_startVars /\ [SignInNext]_signInVars /\ [WireNext]_wireVars
         /\ [WebChatNext]_webChatVars
<1>1. CASE OnlyCron(CronNext)
  BY <1>1 DEF OnlyCron
<1>2. CASE OnlyMetrics(MetricsNext)
  BY <1>2 DEF OnlyMetrics
<1>3. CASE OnlyWebhook(WebhookNext)
  BY <1>3 DEF OnlyWebhook
<1>4. CASE OnlyReplies(RepliesNext)
  BY <1>4 DEF OnlyReplies
<1>5. CASE OnlyChunks(ChunksNext)
  BY <1>5 DEF OnlyChunks
<1>6. CASE OnlyPaths(PathsNext)
  BY <1>6 DEF OnlyPaths
<1>7. CASE OnlyStart(StartNext)
  BY <1>7 DEF OnlyStart
<1>8. CASE OnlySignIn(SignInNext)
  BY <1>8 DEF OnlySignIn
<1>9. CASE OnlyWire(WireNext)
  BY <1>9 DEF OnlyWire
<1>10. CASE OnlyPage(WebChatNext)
  BY <1>10 DEF OnlyPage
<1>11. CASE UNCHANGED entranceVars
  BY <1>11 DEF entranceVars
<1> QED
  BY <1>1, <1>2, <1>3, <1>4, <1>5, <1>6, <1>7, <1>8, <1>9, <1>10, <1>11 DEF EntrancesNext

LEMMA BeginIsOfEachPart ==
  ASSUME EntrancesInit
  PROVE  /\ CronInit /\ MetricsInit /\ WebhookInit /\ RepliesInit /\ ChunksInit
         /\ PathsInit /\ StartInit /\ SignInInit /\ WireInit /\ WebChatInit
BY DEF EntrancesInit

\* In the composition each way in or out behaves as its own module has it
\* (lambda/cron/index.py, lambda/token_metrics/index.py, lambda/router/index.py,
\* app/hermes/bridge/workspace_sync.py, gateway/main.py, lambda/web_chat, web).
THEOREM PartsBehaveAsAlone ==
  EntrancesSpec =>
    /\ CronSpec /\ MetricsSpec /\ WebhookSpec /\ RepliesSpec /\ ChunksSpec
    /\ PathsSpec /\ GatewayStartSpec /\ SignInSpec /\ WireSpec /\ WebChatSpec
  BY BeginIsOfEachPart, StepIsOfOnePart, PTL
  DEF EntrancesSpec, CronSpec, MetricsSpec, WebhookSpec, RepliesSpec, ChunksSpec,
      PathsSpec, GatewayStartSpec, SignInSpec, WireSpec, WebChatSpec

\* The variables of every part keep their types, whichever part runs.
THEOREM EntrancesAreTyped == EntrancesSpec => []EntrancesTypeOK
<1>1. /\ CronIInv => CronTypeOK
      /\ MetricsIInv => MetricsTypeOK
      /\ WebhookIInv => WebhookTypeOK
      /\ ChunksIInv => ChunksTypeOK
      /\ PathsIInv => PathsTypeOK
      /\ SignInIInv => SignInTypeOK
  BY DEF CronIInv, MetricsIInv, WebhookIInv, ChunksIInv, PathsIInv, SignInIInv
<1> QED
  BY <1>1, PartsBehaveAsAlone, CronInvariance, MetricsInvariance, WebhookInvariance,
     ChunksInvariance, PathsInvariance, SignInInvariance, GatewayComesUpPatched,
     RepliesAreTyped, WireIsTyped, WebChatIsTyped, PTL
  DEF EntrancesTypeOK

\* What each part promises it promises in the composition, for any constants; of
\* the page that is the order of the records and the message of a retry.
THEOREM EntrancesKeepPromises ==
  EntrancesSpec =>
    [](/\ FiringIsAccounted /\ AlarmIsTrue /\ OnlyAdmittedAreServed /\ IdentityIsComplete
       /\ AnsweredOnce /\ PassedOnHolds /\ WorkspaceIsOwn /\ SavesComeBack
       /\ ComesUpAsProxy /\ AnswerIsWhole /\ SignInHolds /\ WireIsTransparent
       /\ RecordsInOrder /\ RetryMeansLastExchange)
  BY PartsBehaveAsAlone, FiringsAreAccounted, AlarmsAreTrue, AdmissionIsRight,
     IdentitiesAreWhole, NoSecondAnswer, PassedOnIsThere, WorkspaceStaysOwn,
     SavedFilesComeBack, GatewayComesUpPatched, AnswerArrivesWhole, SignInIsRight,
     CutsAreNotSeen, RecordsAndRetryHold, PTL

\* As long as no connection breaks after its terminal record, the page of the
\* composition shows each exchange once, has one request at a time (until a sign-in
\* or start() that ends over a message frees its form) and, as long as it shows a
\* message as being sent, waits for one (app.mjs).
THEOREM PageOfEntrancesIsInOrder ==
  ASSUME LateBreaks = FALSE
  PROVE  EntrancesSpec => [](ChatIsInOrder /\ OneAttemptAtATime /\ WaitsForSomething)
<1>1. WebChatSpec => []ChatIsInOrder
  BY ChatStaysInOrder
<1>2. WebChatSpec => []OneAttemptAtATime
  BY OneRequestAtATime
<1>3. WebChatSpec => []WaitsForSomething
  BY NeverWaitsForNothing
<1> QED
  BY <1>1, <1>2, <1>3, PartsBehaveAsAlone, PTL
=============================================================================
