----------------------------- MODULE GatewayStart -----------------------------
(***************************************************************************)
(* How the gateway's process starts (gateway/main.py): the health server,  *)
(* the two patches of the vendored hermes-agent (agentcore_proxy.py:       *)
(* patch_aiagent, weixin_file_patch.py: patch_weixin_send) and its         *)
(* gateway, with the container's health check (gateway/Dockerfile) and ECS *)
(* starting a new container for one that ended.  What the proxy does with  *)
(* a message is module Gateway.                                            *)
(***************************************************************************)
EXTENDS Naturals

CONSTANTS
  MaxContainers,  \* bound: containers started
  Retries         \* failed health checks that make a container unhealthy

ASSUME GatewayStartAssumption == MaxContainers \in Nat /\ Retries \in Nat \ {0}

\* What main does next, then what has become of it.
StartSteps == <<"health", "class", "import", "resolver", "weixin", "run">>
Standing == {"serving", "exited", "killed"}

VARIABLES
  doing,       \* a step of StartSteps, or a member of Standing
  arn,         \* AGENTCORE_RUNTIME_ARN is set
  lazy,        \* gateway.run looks AIAgent up when it needs it, or when imported
  agentClass,  \* run_agent.AIAgent: "real" or "proxy"
  bound,       \* AIAgent in gateway.run if it is not lazy: "none", "real", "proxy"
  resolver,    \* _resolve_runtime_agent_kwargs: "none" before import, "real", "dummy"
  weixin,      \* WeixinAdapter.send: "original" or "patched"
  listening,   \* the health server runs
  failures,    \* failed health checks in a row
  containers,  \* containers started so far
  made         \* history: agents the gateway made: class, credentials

startVars == <<doing, arn, lazy, agentClass, bound, resolver, weixin, listening,
               failures, containers, made>>
patchVars == <<agentClass, bound, resolver, weixin>>

Unpatched ==
  agentClass = "real" /\ bound = "none" /\ resolver = "none" /\ weixin = "original"

StartInit ==
  /\ doing = "health" /\ arn \in BOOLEAN /\ lazy \in BOOLEAN
  /\ Unpatched
  /\ listening = FALSE /\ failures = 0 /\ containers = 1 /\ made = {}
-----------------------------------------------------------------------------
(* main.  An exception in any of its steps ends the process.                *)

Does(s, next) == doing = s /\ doing' = next

Raises ==
  /\ doing \in {StartSteps[i] : i \in DOMAIN StartSteps} /\ doing' = "exited"
  /\ listening' = FALSE
  /\ UNCHANGED <<arn, lazy, patchVars, failures, containers, made>>

\* Mutant: the server is not on a thread of its own.
HealthServerBlocks ==
  /\ Does("health", "class")
  /\ UNCHANGED <<arn, lazy, patchVars, listening, failures, containers, made>>

\* start_health_server: a daemon thread.
StartHealthServer ==
  /\ Does("health", "class") /\ listening' = TRUE
  /\ UNCHANGED <<arn, lazy, patchVars, failures, containers, made>>

\* Mutant: gateway.run is imported first.
PatchClassAfterImport ==
  /\ Does("class", "import") /\ arn
  /\ agentClass' = "proxy"
  /\ bound' = IF lazy THEN "none" ELSE "real"
  /\ UNCHANGED <<arn, lazy, resolver, weixin, listening, failures, containers, made>>

\* patch_aiagent: not without a runtime to forward to.
PatchClass ==
  /\ Does("class", "import") /\ arn
  /\ agentClass' = "proxy"
  /\ UNCHANGED <<arn, lazy, bound, resolver, weixin, listening, failures, containers, made>>

\* The first import of gateway.run.
ImportGateway ==
  /\ Does("import", "resolver")
  /\ resolver' = "real"
  /\ bound' = IF lazy \/ bound # "none" THEN bound ELSE agentClass
  /\ UNCHANGED <<arn, lazy, agentClass, weixin, listening, failures, containers, made>>

\* The gateway's look-up of a provider's key is given a dummy.
PatchResolver ==
  /\ Does("resolver", "weixin")
  /\ resolver' = "dummy"
  /\ UNCHANGED <<arn, lazy, agentClass, bound, weixin, listening, failures, containers, made>>

PatchWeixin ==
  /\ Does("weixin", "run")
  /\ weixin' = "patched"
  /\ UNCHANGED <<arn, lazy, agentClass, bound, resolver, listening, failures, containers, made>>

StartGateway ==
  /\ Does("run", "serving")
  /\ UNCHANGED <<arn, lazy, patchVars, listening, failures, containers, made>>

\* start_gateway returns, with or without success: the process ends, and the
\* daemon thread with it.
GatewayReturns ==
  /\ Does("serving", "exited") /\ listening' = FALSE
  /\ UNCHANGED <<arn, lazy, patchVars, failures, containers, made>>
-----------------------------------------------------------------------------
\* A message needs an agent.
MakeProxy ==
  /\ doing = "serving"
  /\ made' = made \union {[class |-> IF lazy THEN agentClass ELSE bound,
                           credentials |-> resolver, send |-> weixin]}
  /\ UNCHANGED <<doing, arn, lazy, patchVars, listening, failures, containers>>

\* do_GET: _healthy is true and nothing sets it.
Healthy == listening

\* The health check; those of the start period, before main, do not count.
Probe ==
  /\ doing \notin {"health", "exited", "killed"}
  /\ IF Healthy THEN failures' = 0 /\ UNCHANGED <<doing, listening>>
     ELSE /\ failures' = failures + 1
          /\ doing' = IF failures' = Retries THEN "killed" ELSE doing
          /\ UNCHANGED listening
  /\ UNCHANGED <<arn, lazy, patchVars, containers, made>>

\* ECS starts another container in place of one that ended.
Replace ==
  /\ doing \in {"exited", "killed"}
  /\ containers < MaxContainers /\ containers' = containers + 1
  /\ doing' = "health" /\ arn' \in BOOLEAN
  /\ agentClass' = "real" /\ bound' = "none" /\ resolver' = "none" /\ weixin' = "original"
  /\ listening' = FALSE /\ failures' = 0
  /\ UNCHANGED <<lazy, made>>

StartNext ==
  \/ Raises \/ StartHealthServer \/ PatchClass \/ ImportGateway \/ PatchResolver
  \/ PatchWeixin \/ StartGateway \/ GatewayReturns \/ MakeProxy \/ Probe \/ Replace

GatewayStartSpec == StartInit /\ [][StartNext]_startVars
-----------------------------------------------------------------------------
StartTypeOK ==
  /\ doing \in {StartSteps[i] : i \in DOMAIN StartSteps} \union Standing
  /\ agentClass \in {"real", "proxy"} /\ bound \in {"none", "real", "proxy"}
  /\ resolver \in {"none", "real", "dummy"} /\ failures \in 0..Retries

\* Whenever the gateway makes an agent it is the proxy, with the dummy
\* credentials, and long answers go out as files, whether AIAgent is looked up
\* late or when gateway.run is imported ("Must be called before the gateway
\* imports AIAgent", agentcore_proxy.py:247; main.py:41-47).
OnlyProxies ==
  \A m \in made : m = [class |-> "proxy", credentials |-> "dummy", send |-> "patched"]

\* No process that is alive is replaced for its health: the server is there before
\* the patches and the gateway, which take long (main.py:37-39).
NotKilledAlive == doing # "killed"

\* Whatever fails and however long the start takes, the gateway comes up patched.
ComesUpAsProxy == OnlyProxies /\ NotKilledAlive
=============================================================================
