------------------------------- MODULE Contract -------------------------------
(***************************************************************************)
(* The legacy contract server (bridge/contract.py) with its warm-up agent  *)
(* (bridge/warmup_agent.py): the start-up phases, the thread that loads    *)
(* the full agent, the single thread that serves one keep-alive            *)
(* connection after another, the periodic save and the SIGTERM handler.    *)
(*                                                                         *)
(* The workspace is the set of the agent's writes it holds; a save that    *)
(* finds no file uploads nothing.                                          *)
(***************************************************************************)
EXTENDS Naturals, FiniteSets

CONSTANTS
  Callers,      \* connections AgentCore opens
  MaxRequests,  \* bound: requests sent in all
  MaxTurns      \* bound: writes of the agent

ASSUME ContractAssumption == MaxRequests \in Nat /\ MaxTurns \in Nat

\* "other": a blank chat message, a status or an unknown action, which no agent
\* sees.  "malformed": one whose handler raises.
Invocations == {"chat", "warmup", "cron", "other", "malformed"}
\* Requests that do_GET and do_POST deal with before they count anything: the
\* last one is JSON that is no object, whose body.get raises.
Uncounted == {"ping", "not found", "bad json", "no object"}
Requests == Invocations \union Uncounted

\* Who answers an invocation, and with what.
Runners == {"full agent", "warm-up agent", "starting up", "not ready", "warming", "ready"}
             \union {"other", "malformed"}
Replies == Runners \union {"400", "404", "500", "Healthy", "HealthyBusy", "none"}

Nil == "none"
Stored == 1..MaxTurns

VARIABLES
  main,      \* main thread: "syncing", "lightweight", "loader", "serving", "saving", "exited"
  sync,      \* "none", "restored", "periodic" (thread started) or "set" (S.workspace_sync)
  saver,     \* what the periodic save is uploading, {} when it does not hold _save_lock
  disk,      \* writes of this process in the workspace
  bucket,    \* those of them in S3
  lost,      \* the final save failed
  loader,    \* _full_agent_thread: "none", "loading", "made", "done", "failed"
  agent,     \* S.agent is set
  ready,     \* S.agent_ready
  light,     \* S.lightweight_ready
  busy,      \* S.busy_count
  conn,      \* the connection the main thread is bound to
  link,      \* link[c]: "closed", "open" or "gone" (closed by c, unnoticed so far)
  request,   \* request[c]: what c asked and waits for
  reply,     \* reply[c]: the last answer to c
  runner,    \* who answers the invocation in progress
  sent,      \* requests so far
  promised   \* history: a warm-up was answered "ready"

syncVars == <<sync, saver, disk, bucket, lost>>
loadVars == <<loader, agent, ready, light>>
callVars == <<conn, link, request, reply, runner, sent, promised, busy>>
contractVars == <<main, syncVars, loadVars, callVars>>

ContractInit ==
  /\ main = "syncing" /\ sync = "none" /\ saver = {} /\ lost = FALSE
  /\ disk = {} /\ bucket = {}
  /\ loader = "none" /\ agent = FALSE /\ ready = FALSE /\ light = FALSE
  /\ busy = 0 /\ conn = Nil /\ runner = Nil
  /\ link = [c \in Callers |-> "closed"]
  /\ request = [c \in Callers |-> Nil]
  /\ reply = [c \in Callers |-> Nil]
  /\ sent = 0 /\ promised = FALSE
-----------------------------------------------------------------------------
(* Start-up (main, _init_workspace_sync, _init_lightweight_agent).          *)

\* Configured and valid; what restore brings is the subject of Workspace.
Restore ==
  /\ main = "syncing" /\ sync = "none"
  /\ sync' = "restored"
  /\ UNCHANGED <<main, saver, disk, bucket, lost, loadVars, callVars>>

\* Persistence is not configured, or the constructor or the validation of the
\* namespace raises: the server runs without persistence.
NoPersistence ==
  /\ main = "syncing" /\ sync = "none"
  /\ main' = "lightweight"
  /\ UNCHANGED <<syncVars, loadVars, callVars>>

StartPeriodicSave ==
  /\ main = "syncing" /\ sync = "restored"
  /\ sync' = "periodic"
  /\ UNCHANGED <<main, saver, disk, bucket, lost, loadVars, callVars>>

PublishSync ==
  /\ main = "syncing" /\ sync = "periodic"
  /\ sync' = "set" /\ main' = "lightweight"
  /\ UNCHANGED <<saver, disk, bucket, lost, loadVars, callVars>>

\* The constructor of WarmupAgent may raise.
InitLightweight ==
  /\ main = "lightweight"
  /\ light' \in BOOLEAN /\ main' = "loader"
  /\ UNCHANGED <<syncVars, loader, agent, ready, callVars>>

EnsureFullAgentStarted ==
  loader' = IF loader = "none" THEN "loading" ELSE loader

StartServer ==
  /\ main = "loader"
  /\ EnsureFullAgentStarted
  /\ main' = "serving"
  /\ UNCHANGED <<syncVars, agent, ready, light, callVars>>
-----------------------------------------------------------------------------
(* The loader thread (_init_full_agent).                                    *)

\* Mutant: the flag is raised before the agent is made.
AnnounceAgentFirst ==
  /\ loader = "loading" /\ ~ready
  /\ ready' = TRUE /\ UNCHANGED <<loader, agent>>

\* S.agent = AIAgent(...)
MakeAgent ==
  /\ loader = "loading"
  /\ loader' = "made" /\ agent' = TRUE /\ UNCHANGED ready

\* S.agent_ready = True
AnnounceAgent ==
  /\ loader = "made"
  /\ loader' = "done" /\ ready' = TRUE /\ UNCHANGED agent

\* Nothing starts the thread again.
LoadFails ==
  /\ loader = "loading"
  /\ loader' = "failed" /\ UNCHANGED <<agent, ready>>

Load ==
  /\ main # "exited"
  /\ MakeAgent \/ AnnounceAgent \/ LoadFails
  /\ UNCHANGED <<main, syncVars, light, callVars>>
-----------------------------------------------------------------------------
(* The other side: AgentCore's connections.                                 *)

Send(c) ==
  /\ main # "exited" /\ sent < MaxRequests
  /\ link[c] # "gone" /\ request[c] = Nil
  /\ link' = [link EXCEPT ![c] = "open"]
  /\ \E k \in Requests : request' = [request EXCEPT ![c] = k]
  /\ reply' = [reply EXCEPT ![c] = Nil]
  /\ sent' = sent + 1
  /\ UNCHANGED <<main, syncVars, loadVars, conn, runner, promised, busy>>

\* The caller closes its connection, perhaps while it waits.
Leave(c) ==
  /\ link[c] = "open"
  /\ link' = [link EXCEPT ![c] = "gone"]
  /\ UNCHANGED <<main, syncVars, loadVars, conn, request, reply, runner, sent,
                 promised, busy>>
-----------------------------------------------------------------------------
(* The server: one thread, one connection at a time.                        *)

Accept(c) ==
  /\ main = "serving" /\ conn = Nil /\ link[c] # "closed"
  /\ conn' = c
  /\ UNCHANGED <<main, syncVars, loadVars, link, request, reply, runner, sent,
                 promised, busy>>

\* c's request is answered with r; the connection stays.
AnswerOnly(c, r) ==
  /\ reply' = [reply EXCEPT ![c] = IF link[c] = "open" THEN r ELSE Nil]
  /\ request' = [request EXCEPT ![c] = Nil]

\* The connection is closed by either side.
Hangup(c) ==
  /\ link' = [link EXCEPT ![c] = "closed"]
  /\ conn' = Nil

\* The caller closed its connection and has nothing left to be read.
EndOfConnection ==
  /\ main = "serving" /\ conn # Nil /\ runner = Nil
  /\ link[conn] = "gone" /\ request[conn] = Nil
  /\ Hangup(conn)
  /\ UNCHANGED <<main, syncVars, loadVars, request, reply, runner, sent,
                 promised, busy>>

PingStatus == IF busy > 0 \/ ~ready THEN "HealthyBusy" ELSE "Healthy"

\* do_GET, and what do_POST answers before it counts. send_error closes the
\* connection, and so does an exception.
ServeUncounted ==
  /\ main = "serving" /\ conn # Nil /\ runner = Nil
  /\ request[conn] \in Uncounted
  /\ LET k == request[conn] IN
       /\ AnswerOnly(conn, IF k = "ping" THEN PingStatus
                           ELSE IF k = "bad json" THEN "400"
                           ELSE IF k = "not found" THEN "404" ELSE Nil)
       /\ IF k \in {"not found", "no object"} \/ link[conn] = "gone"
            THEN Hangup(conn) ELSE UNCHANGED <<link, conn>>
  /\ UNCHANGED <<main, syncVars, loadVars, runner, sent, promised, busy>>

\* Mutant: whatever ended the loader made the agent ready.
WarmupStatusByThread == IF loader \in {"done", "failed"} THEN "ready" ELSE "warming"

WarmupStatus == IF ready THEN "ready" ELSE "warming"

\* _handle_chat, _handle_cron, _handle_warmup.
Runner(k) ==
  IF k = "chat" THEN
    IF ready THEN "full agent" ELSE IF light THEN "warm-up agent" ELSE "starting up"
  ELSE IF k = "cron" THEN IF ready THEN "full agent" ELSE "not ready"
  ELSE IF k = "warmup" THEN WarmupStatus
  ELSE k

\* Mutant: a chat waits for the full agent.
ChatWaitsForAgent(k) == k = "chat" => ready

\* _dispatch waits for nothing.
MayBegin(k) == k \in Invocations

\* do_POST counts the request and dispatches it.
Begin ==
  /\ main = "serving" /\ conn # Nil /\ runner = Nil
  /\ request[conn] \in Invocations /\ MayBegin(request[conn])
  /\ busy' = busy + 1
  /\ runner' = Runner(request[conn])
  /\ IF request[conn] = "warmup" THEN EnsureFullAgentStarted ELSE UNCHANGED loader
  /\ promised' = (promised \/ runner' = "ready")
  /\ UNCHANGED <<main, syncVars, agent, ready, light, conn, link, request, reply,
                 sent>>

\* The agent's turn changes the workspace.
AgentWrites ==
  /\ main = "serving" /\ runner = "full agent"
  /\ \E w \in Stored : w \notin disk /\ disk' = disk \union {w}
  /\ UNCHANGED <<main, sync, saver, bucket, lost, loadVars, callVars>>

\* Mutant: the count is taken back only when the answer was written.
CountDownOnSuccess == IF link[conn] = "open" THEN busy - 1 ELSE busy

\* finally
CountDown == busy - 1

\* Both agents turn an exception into a text; another one is a 500.  Writing
\* to a connection that is gone raises, twice: it is dropped.
Finish ==
  /\ main = "serving" /\ runner # Nil
  /\ AnswerOnly(conn, IF runner = "malformed" THEN "500" ELSE runner)
  /\ busy' = CountDown
  /\ runner' = Nil
  /\ IF link[conn] = "gone" THEN Hangup(conn) ELSE UNCHANGED <<link, conn>>
  /\ UNCHANGED <<main, syncVars, loadVars, sent, promised>>
-----------------------------------------------------------------------------
(* The periodic save and shutdown.                                          *)

\* The thread takes _save_lock and reads the files.
PeriodicSaveBegins ==
  /\ main # "exited" /\ sync \in {"periodic", "set"}
  /\ saver = {} /\ disk # {}
  /\ saver' = disk
  /\ UNCHANGED <<main, sync, disk, bucket, lost, loadVars, callVars>>

\* An upload that fails changes nothing.
PeriodicSaveEnds ==
  /\ main # "exited" /\ saver # {}
  /\ saver' = {}
  /\ bucket' \in {bucket, saver}
  /\ UNCHANGED <<main, sync, disk, lost, loadVars, callVars>>

\* The handler runs on the main thread, wherever that is; what it interrupts
\* is never resumed.
Sigterm ==
  /\ main \notin {"saving", "exited"}
  /\ main' = "saving"
  /\ UNCHANGED <<syncVars, loadVars, callVars>>

\* Mutant: the final save does not take the lock.
SaveLockIgnored == TRUE

SaveLockFree == saver = {}

FinalSave ==
  /\ main = "saving" /\ sync = "set" /\ SaveLockFree
  /\ \/ bucket' = (IF disk = {} THEN bucket ELSE disk) /\ lost' = FALSE
     \/ bucket' = bucket /\ lost' = TRUE
  /\ sync' = "saved"
  /\ UNCHANGED <<main, saver, disk, loadVars, callVars>>

\* sys.exit passes every "except Exception"; the finally of do_POST counts down.
Exit ==
  /\ main = "saving" /\ sync # "set"
  /\ main' = "exited"
  /\ busy' = IF runner # Nil THEN busy - 1 ELSE busy
  /\ runner' = Nil /\ conn' = Nil
  /\ link' = [c \in Callers |-> "closed"]
  /\ request' = [c \in Callers |-> Nil]
  /\ UNCHANGED <<syncVars, loadVars, reply, sent, promised>>

Startup == Restore \/ NoPersistence \/ StartPeriodicSave \/ PublishSync
             \/ InitLightweight \/ StartServer
Serve == EndOfConnection \/ ServeUncounted \/ Begin \/ Finish \/ (\E c \in Callers : Accept(c))
Shutdown == FinalSave \/ Exit

ContractNext ==
  \/ Startup \/ Load \/ Serve \/ AgentWrites
  \/ \E c \in Callers : Send(c) \/ Leave(c)
  \/ PeriodicSaveBegins \/ PeriodicSaveEnds
  \/ Sigterm \/ Shutdown

\* The threads run; callers, the agent's writes and signals are free.  The
\* periodic thread sleeps between its saves, so the lock reaches the handler.
ContractFairness ==
  /\ WF_contractVars(Startup) /\ WF_contractVars(Load)
  /\ WF_contractVars(Serve) /\ SF_contractVars(Shutdown)
  /\ WF_contractVars(PeriodicSaveEnds)

ContractSpec == ContractInit /\ [][ContractNext]_contractVars /\ ContractFairness
-----------------------------------------------------------------------------
ContractTypeOK ==
  /\ main \in {"syncing", "lightweight", "loader", "serving", "saving", "exited"}
  /\ sync \in {"none", "restored", "periodic", "set", "saved"}
  /\ saver \subseteq Stored /\ disk \subseteq Stored /\ bucket \subseteq Stored
  /\ loader \in {"none", "loading", "made", "done", "failed"}
  /\ agent \in BOOLEAN /\ ready \in BOOLEAN /\ light \in BOOLEAN /\ lost \in BOOLEAN
  /\ busy \in Nat /\ conn \in Callers \union {Nil}
  /\ link \in [Callers -> {"closed", "open", "gone"}]
  /\ request \in [Callers -> Requests \union {Nil}]
  /\ reply \in [Callers -> Replies]
  /\ runner \in Runners \union {Nil}
  /\ sent \in 0..MaxRequests /\ promised \in BOOLEAN

\* The count of requests in progress is exact whatever ended them: an answer,
\* an error, a caller that left (do_POST's finally, contract.py:106).
BusyCountsInvocations == busy = IF runner # Nil THEN 1 ELSE 0

\* A request sent to the full agent finds it, although flag and agent are set
\* one after the other by another thread (contract.py:201, 264-265).
AgentBehindReady == runner = "full agent" => agent

\* Who was told "ready" by a warm-up is not answered by the warm-up agent, or
\* "not ready", from then on (contract.py:148; module docstring, step 4).
ReadyIsKept == promised => runner \notin {"warm-up agent", "starting up", "not ready"}

\* What the server says of itself is true: how busy it is, whose answer it gives,
\* and that it is ready.
ServerTellsTruth == BusyCountsInvocations /\ AgentBehindReady /\ ReadyIsKept

\* A process that ends on SIGTERM leaves the whole workspace in S3, unless the
\* last upload failed, whatever the periodic save was doing (contract.py:307).
SavedAtExit == main = "exited" /\ sync = "saved" /\ ~lost /\ disk # {} => bucket = disk

\* Every request is answered, or its connection is closed, unless the single
\* thread sits for ever on another caller's idle connection (contract.py:344).
EveryRequestServed ==
  \A c \in Callers :
    <>[](request[c] # Nil) => <>[](conn \notin {Nil, c} /\ request[conn] = Nil)
=============================================================================
