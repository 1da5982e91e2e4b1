--------------------------------- MODULE Cron ---------------------------------
(***************************************************************************)
(* The Cron Lambda (lambda/cron/index.py): EventBridge Scheduler fires it  *)
(* asynchronously, which runs it again when it raised or died; it invokes  *)
(* AgentCore and delivers the output to a chat.  The agent's run is a side *)
(* effect nothing takes back.                                              *)
(***************************************************************************)
EXTENDS Naturals

CONSTANTS
  Firings,     \* occurrences of schedules
  MaxReruns,   \* times Lambda runs a failed asynchronous event again
  MaxSends     \* times botocore sends a request that times out

ASSUME CronAssumption == MaxReruns \in Nat /\ MaxSends \in Nat \ {0}

VARIABLES
  event,     \* event[o]: what the schedule's input is
  bodyKey,   \* where AgentCore puts the body of its answer
  cronAt,    \* cronAt[o]: "due", "invoking", "reading", "secret", "sending", "sent", "raised", "ended"
  crashes,   \* crashes[o]: attempts that raised or died
  sends,     \* sends[o]: requests this attempt sent
  runs,      \* runs[o]: times the agent ran the prompt
  cached,    \* _secrets_cache holds the channel's token
  tellings,  \* tellings[o]: messages the chat was sent
  repeats,   \* history: repeats[o]: requests sent again by botocore
  deaths     \* history: deaths[o]: attempts that died or got no token

cronVars == <<event, bodyKey, cronAt, crashes, sends, runs, cached, tellings, repeats, deaths>>

\* userId or prompt is missing; no delivery is configured; or there is one.
Events == {"invalid", "silent", "deliver"}

CronInit ==
  /\ event \in [Firings -> Events]
  /\ bodyKey \in {"payload", "response"}
  /\ cronAt = [o \in Firings |-> "due"]
  /\ crashes = [o \in Firings |-> 0] /\ sends = [o \in Firings |-> 0]
  /\ runs = [o \in Firings |-> 0] /\ tellings = [o \in Firings |-> 0]
  /\ repeats = [o \in Firings |-> 0] /\ deaths = [o \in Firings |-> 0]
  /\ cached = FALSE

Goto(o, from, to) == cronAt[o] = from /\ cronAt' = [cronAt EXCEPT ![o] = to]
-----------------------------------------------------------------------------
Refuse(o) ==
  /\ event[o] = "invalid" /\ Goto(o, "due", "ended")
  /\ UNCHANGED <<event, bodyKey, crashes, sends, runs, cached, tellings, repeats, deaths>>

Invoke(o) ==
  /\ event[o] # "invalid" /\ Goto(o, "due", "invoking")
  /\ sends' = [sends EXCEPT ![o] = 1]
  /\ UNCHANGED <<event, bodyKey, crashes, runs, cached, tellings, repeats, deaths>>

\* The agent runs the prompt and AgentCore answers.
Answer(o) ==
  /\ Goto(o, "invoking", "reading")
  /\ runs' = [runs EXCEPT ![o] = @ + 1]
  /\ UNCHANGED <<event, bodyKey, crashes, sends, cached, tellings, repeats, deaths>>

\* No answer within botocore's 60 s: the request is sent again, while the run it
\* started goes on.
SendAgain(o) ==
  /\ cronAt[o] = "invoking" /\ sends[o] < MaxSends
  /\ sends' = [sends EXCEPT ![o] = @ + 1]
  /\ runs' = [runs EXCEPT ![o] = @ + 1]
  /\ repeats' = [repeats EXCEPT ![o] = @ + 1]
  /\ UNCHANGED <<event, bodyKey, cronAt, crashes, cached, tellings, deaths>>

\* Mutant: the handler lets the exception through.
RaiseFailure(o) ==
  /\ Goto(o, "invoking", "raised")
  /\ runs' \in {runs, [runs EXCEPT ![o] = @ + 1]}
  /\ UNCHANGED <<event, bodyKey, crashes, sends, cached, tellings, repeats, deaths>>

\* except Exception: agent_response = "", and the status is ok, whether the
\* prompt was run or not.
InvokeFails(o) ==
  /\ Goto(o, "invoking", "ended")
  /\ runs' \in {runs, [runs EXCEPT ![o] = @ + 1]}
  /\ UNCHANGED <<event, bodyKey, crashes, sends, cached, tellings, repeats, deaths>>

\* response["payload"].read(): there may be none, or no text in it.
ReadNothing(o) ==
  /\ Goto(o, "reading", "ended")
  /\ UNCHANGED <<event, bodyKey, crashes, sends, runs, cached, tellings, repeats, deaths>>

ReadOutput(o) ==
  /\ bodyKey = "payload"
  /\ Goto(o, "reading", IF event[o] = "deliver" THEN "secret" ELSE "ended")
  /\ UNCHANGED <<event, bodyKey, crashes, sends, runs, cached, tellings, repeats, deaths>>

\* _deliver reads the token, outside of any try.
GetSecret(o) ==
  /\ \/ Goto(o, "secret", "sending") /\ cached' = TRUE
        /\ UNCHANGED deaths
     \/ ~cached /\ Goto(o, "secret", "raised") /\ UNCHANGED cached
        /\ deaths' = [deaths EXCEPT ![o] = @ + 1]
  /\ UNCHANGED <<event, bodyKey, crashes, sends, runs, tellings, repeats>>

\* Mutant: what goes wrong with a message is raised.
DeliverOrRaise(o) ==
  /\ \E to \in {"sent", "raised"} : Goto(o, "sending", to)
  /\ tellings' = [tellings EXCEPT ![o] = @ + 1]
  /\ UNCHANGED <<event, bodyKey, crashes, sends, runs, cached, repeats, deaths>>

\* The message is sent; what goes wrong is logged.
Deliver(o) ==
  /\ Goto(o, "sending", "sent")
  /\ tellings' \in {tellings, [tellings EXCEPT ![o] = @ + 1]}
  /\ UNCHANGED <<event, bodyKey, crashes, sends, runs, cached, repeats, deaths>>

ReturnOk(o) ==
  /\ Goto(o, "sent", "ended")
  /\ UNCHANGED <<event, bodyKey, crashes, sends, runs, cached, tellings, repeats, deaths>>
-----------------------------------------------------------------------------
\* Lambda's time limit, or the end of its process, which takes the cache along.
Dies(o) ==
  /\ cronAt[o] \notin {"due", "raised", "ended"}
  /\ cronAt' = [cronAt EXCEPT ![o] = "raised"]
  /\ cached' = FALSE /\ deaths' = [deaths EXCEPT ![o] = @ + 1]
  /\ UNCHANGED <<event, bodyKey, crashes, sends, runs, tellings, repeats>>

\* Lambda runs the event again, a bounded number of times.
Again(o) ==
  /\ Goto(o, "raised", IF crashes[o] < MaxReruns THEN "due" ELSE "ended")
  /\ crashes' = [crashes EXCEPT ![o] = @ + 1]
  /\ UNCHANGED <<event, bodyKey, sends, runs, cached, tellings, repeats, deaths>>

Handle(o) ==
  Refuse(o) \/ Invoke(o) \/ InvokeFails(o) \/ ReadNothing(o) \/ ReadOutput(o)
    \/ GetSecret(o) \/ Deliver(o) \/ ReturnOk(o)

CronNext ==
  \E o \in Firings : Handle(o) \/ Answer(o) \/ SendAgain(o) \/ Dies(o) \/ Again(o)

CronSpec == CronInit /\ [][CronNext]_cronVars
-----------------------------------------------------------------------------
CronTypeOK ==
  /\ event \in [Firings -> Events] /\ bodyKey \in {"payload", "response"}
  /\ cronAt \in [Firings -> {"due", "invoking", "reading", "secret", "sending",
                             "sent", "raised", "ended"}]
  /\ crashes \in [Firings -> 0..(MaxReruns + 1)] /\ sends \in [Firings -> 0..MaxSends]
  /\ runs \in [Firings -> Nat] /\ tellings \in [Firings -> Nat]
  /\ repeats \in [Firings -> Nat] /\ deaths \in [Firings -> Nat] /\ cached \in BOOLEAN

\* A prompt is run again only because an attempt died, or got no token to
\* deliver with, or because botocore sent it again: never because AgentCore
\* answered with an error (cron/index.py:98-110).
RunsAreAccounted == \A o \in Firings : runs[o] <= 1 + repeats[o] + deaths[o]

\* The chat is told of a firing again only because an attempt died after it
\* had sent the message, and of every run at most once (cron/index.py:142-146).
ToldAgainOnlyAfterDeath ==
  \A o \in Firings : tellings[o] <= 1 + deaths[o] /\ tellings[o] <= runs[o]

\* What happens more than once for a firing is owed to something that went wrong.
FiringIsAccounted == RunsAreAccounted /\ ToldAgainOnlyAfterDeath
=============================================================================
