------------------------------ MODULE MCEntrances ------------------------------
(* The ways into the system and out of it, which share no state with each    *)
(* other, checked together: a behaviour is one of these parts, and the       *)
(* others stay as they begin.                                                *)
EXTENDS Cron, TokenMetrics, Webhook, Replies, Chunks, Paths, GatewayStart, SignIn, Wire, WebChat

VARIABLE part  \* the part that runs

entranceVars == <<part, cronVars, metricVars, webhookVars, replyVars, chunkVars,
                  pathVars, startVars, signInVars, wireVars, webChatVars>>

\* Paths below a workspace: files, one in a directory of the name of another, a
\* left-over, a way out, and files of skills.
SampleKeys ==
  {<<"a">>, <<"a", "b">>, <<"x.tmp">>, <<"..", "a">>, <<"skills">>,
   <<"skills", "plan", "SKILL.md">>, <<"skills", "plan", "run.py">>,
   <<"skills", "node_modules", "SKILL.md">>}

\* A part that does not run begins in one state only.
EntrancesInit ==
  /\ part \in {"cron", "metrics", "webhook", "replies", "chunks", "paths", "start",
               "sign-in", "wire", "page"}
  /\ CronInit /\ (part # "cron" => bodyKey = "payload" /\ \A o \in Firings : event[o] = "silent")
  /\ WebhookInit /\ (part # "webhook" => gated /\ allowed = {})
  /\ ChunksInit /\ (part # "chunks" => whole = <<NL>>)
  /\ WebChatInit /\ (part # "page" => stored = FALSE)
  /\ StartInit /\ (part # "start" => ~arn /\ ~lazy)
  /\ PathsInit /\ (part # "paths" => ~bucket /\ session = "none" /\ root = "file" /\ objects = {})
  /\ MetricsInit /\ RepliesInit /\ SignInInit /\ WireInit

OnlyCron(A) ==
  /\ part = "cron" /\ A
  /\ UNCHANGED <<part, metricVars, webhookVars, replyVars, chunkVars, pathVars,
                 startVars, signInVars, wireVars, webChatVars>>
OnlyMetrics(A) ==
  /\ part = "metrics" /\ A
  /\ UNCHANGED <<part, cronVars, webhookVars, replyVars, chunkVars, pathVars,
                 startVars, signInVars, wireVars, webChatVars>>
OnlyWebhook(A) ==
  /\ part = "webhook" /\ A
  /\ UNCHANGED <<part, cronVars, metricVars, replyVars, chunkVars, pathVars,
                 startVars, signInVars, wireVars, webChatVars>>
OnlyReplies(A) ==
  /\ part = "replies" /\ A
  /\ UNCHANGED <<part, cronVars, metricVars, webhookVars, chunkVars, pathVars,
                 startVars, signInVars, wireVars, webChatVars>>
OnlyChunks(A) ==
  /\ part = "chunks" /\ A
  /\ UNCHANGED <<part, cronVars, metricVars, webhookVars, replyVars, pathVars,
                 startVars, signInVars, wireVars, webChatVars>>
OnlyPaths(A) ==
  /\ part = "paths" /\ A
  /\ UNCHANGED <<part, cronVars, metricVars, webhookVars, replyVars, chunkVars,
                 startVars, signInVars, wireVars, webChatVars>>
OnlyStart(A) ==
  /\ part = "start" /\ A
  /\ UNCHANGED <<part, cronVars, metricVars, webhookVars, replyVars, chunkVars,
                 pathVars, signInVars, wireVars, webChatVars>>
OnlySignIn(A) ==
  /\ part = "sign-in" /\ A
  /\ UNCHANGED <<part, cronVars, metricVars, webhookVars, replyVars, chunkVars,
                 pathVars, startVars, wireVars, webChatVars>>
OnlyWire(A) ==
  /\ part = "wire" /\ A
  /\ UNCHANGED <<part, cronVars, metricVars, webhookVars, replyVars, chunkVars,
                 pathVars, startVars, signInVars, webChatVars>>
OnlyPage(A) ==
  /\ part = "page" /\ A
  /\ UNCHANGED <<part, cronVars, metricVars, webhookVars, replyVars, chunkVars,
                 pathVars, startVars, signInVars, wireVars>>

EntrancesNext ==
  \/ OnlyCron(CronNext) \/ OnlyMetrics(MetricsNext)
  \/ OnlyWebhook(WebhookNext) \/ OnlyReplies(RepliesNext) \/ OnlyChunks(ChunksNext)
  \/ OnlyPaths(PathsNext) \/ OnlyStart(StartNext)
  \/ OnlySignIn(SignInNext) \/ OnlyWire(WireNext) \/ OnlyPage(WebChatNext)

\* Of these parts the page alone is asked to get anywhere.
EntrancesSpec ==
  /\ EntrancesInit /\ [][EntrancesNext]_entranceVars
  /\ \A n \in Attempts : /\ WF_entranceVars(OnlyPage(Receive(n)))
                         /\ WF_entranceVars(OnlyPage(Respond(n)))

\* The variables of every part keep their types.
EntrancesTypeOK ==
  /\ CronTypeOK /\ MetricsTypeOK /\ WebhookTypeOK /\ RepliesTypeOK
  /\ ChunksTypeOK /\ PathsTypeOK /\ StartTypeOK /\ SignInTypeOK /\ WireTypeOK
  /\ WebChatTypeOK
=============================================================================
