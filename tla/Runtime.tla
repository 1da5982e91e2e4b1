------------------------------- MODULE Runtime -------------------------------
(***************************************************************************)
(* The hosted AgentCore entrypoint (app/hermes/main.py: invoke) with the   *)
(* parts it calls in the course of a turn: the Guardrail evaluator         *)
(* (bridge/guardrails.py), the callback-to-generator bridge                *)
(* (bridge/streaming.py) and AgentCore Memory (bridge/memory.py).          *)
(*                                                                         *)
(* One process serves several invocations ("turns") of one AgentCore       *)
(* session.  invoke is an async generator: between two awaits or yields it *)
(* runs without interruption on the event loop, so every action below is   *)
(* one such stretch, and turns interleave at the awaits.  The agent itself *)
(* is synchronous and runs in a worker thread, one per turn, all of them   *)
(* on the one cached AIAgent.                                              *)
(***************************************************************************)
EXTENDS Naturals, Sequences

CONSTANTS
  Turns,        \* invocations the process receives
  Chunks,       \* pieces of text the agent can emit
  Masked,       \* the piece that stands for Guardrail's sanitised output
  MaxDeltas,    \* bound: callback deltas of one agent run
  Payloads,     \* payloads an invocation may carry
  Envs,         \* deployment settings the process may have been started with
  Assessments   \* answers of ApplyGuardrail

\* What a client can put into the payload: a well-formed message, an empty
\* one, or a value that is not a string.
Messages == {"raw", "blank", "malformed"}
\* The binding fields of the payload: the namespace of this session, another
\* namespace (or none), or a runtime session that only the context may supply.
Bindings == {"bound", "unbound", "sessionInPayload"}

ASSUME RuntimeAssumption ==
  /\ Masked \notin Chunks
  /\ MaxDeltas \in Nat
  /\ Payloads \subseteq [message : Messages, binding : Bindings]
  /\ Envs \subseteq [guard : {"off", "on", "invalid"}, memory : BOOLEAN, bucket : BOOLEAN]
  /\ Assessments \subseteq [intervened : BOOLEAN, anonymized : BOOLEAN,
                             blocked : BOOLEAN, output : BOOLEAN]

Text == Seq(Chunks \union {Masked})

VARIABLES
  env,        \* settings of this process, fixed at start
  payload,    \* payload[t]: what invocation t carries
  pc,         \* pc[t]: where the generator of turn t is suspended
  message,    \* message[t]: the text invoke goes on with
  bridge,     \* bridge[t]: the invocation has a MemoryBridge
  worker,     \* worker[t]: the thread that runs run_conversation
  queue,      \* queue[t]: deltas put on the asyncio queue and not yet taken
  final,      \* final[t]: final_response of the finished run
  reply,      \* reply[t]: assistant_parts, then assistant_text
  heard,      \* heard[t]: text of the delta events the client received
  notice,     \* notice[t]: the last event that is not a delta
  synced,     \* the WorkspaceSync singleton exists (restored, periodic save on)
  agentBuilt, \* the AIAgent singleton exists
  bridgeBuilt,\* the MemoryBridge singleton exists
  ready,      \* MemoryBridge._ready
  memStatus,  \* status of the AgentCore Memory resource
  memory,     \* conversational events created, oldest first
  adrift,     \* adrift[t]: the call on a MemoryBridge that a cancelled turn left behind
  saved,      \* saved[t]: the save in finally was started
  inCheck,    \* history: what Guardrail said of the input of t
  outCheck,   \* history: what Guardrail said of the reply of t
  prompt,     \* history: the message run_conversation was called with
  said        \* history: the answer of the agent, as it emitted it

turnVars == <<pc, message, bridge, reply, heard, notice, saved>>
checkVars == <<inCheck, outCheck>>
workVars == <<worker, queue, final, prompt, said, agentBuilt>>
memVars == <<bridgeBuilt, ready, memory, adrift>>
vars == <<env, payload, turnVars, checkVars, workVars, memVars, synced, memStatus>>

\* No assessment was made, or the call to the service failed.
NoAnswer == [intervened |-> FALSE, anonymized |-> FALSE, blocked |-> FALSE, output |-> FALSE]
Check(kind, a) == [kind |-> kind, answer |-> a]
NoCheck == Check("none", NoAnswer)
CheckFailed == Check("failed", NoAnswer)
Checks == {NoCheck, CheckFailed} \union {Check("made", a) : a \in Assessments}

Init ==
  /\ env \in Envs
  /\ payload \in [Turns -> Payloads]
  /\ pc = [t \in Turns |-> "new"]
  /\ message = [t \in Turns |-> payload[t].message]
  /\ bridge = [t \in Turns |-> FALSE]
  /\ worker = [t \in Turns |-> "none"]
  /\ queue = [t \in Turns |-> << >>]
  /\ final = [t \in Turns |-> << >>]
  /\ reply = [t \in Turns |-> << >>]
  /\ heard = [t \in Turns |-> << >>]
  /\ notice = [t \in Turns |-> "none"]
  /\ synced = FALSE
  /\ agentBuilt = FALSE
  /\ bridgeBuilt = FALSE
  /\ ready = FALSE
  /\ memStatus = "CREATING"
  /\ memory = << >>
  /\ adrift = [t \in Turns |-> "none"]
  /\ saved = [t \in Turns |-> FALSE]
  /\ inCheck = [t \in Turns |-> NoCheck]
  /\ outCheck = [t \in Turns |-> NoCheck]
  /\ prompt = [t \in Turns |-> "none"]
  /\ said = [t \in Turns |-> << >>]

-----------------------------------------------------------------------------
(* Guardrail decisions (GuardrailEvaluator.evaluate).                       *)

\* Mutant: a BLOCK finding among the assessments is not looked for.
BlockedIgnoresBlock(a) == a.intervened /\ (~a.output \/ ~a.anonymized)

\* An intervention blocks unless every finding was anonymised into a text.
Blocked(a) == a.intervened /\ (~a.output \/ ~a.anonymized \/ a.blocked)

\* The text of the decision: the service's output when it intervened.
Screened(a, text, masked) == IF a.intervened THEN masked ELSE text

\* Mutant: deltas are forwarded although the reply is yet to be checked.
StreamsAlways == TRUE

\* Deltas go straight to the client only when no Guardrail is configured.
Streams == env.guard = "off"
-----------------------------------------------------------------------------
(* Steps the actions share.                                                 *)

Goto(t, label) == pc' = [pc EXCEPT ![t] = label]

\* Yields a terminal event and leaves the try block.
Close(t, event) ==
  /\ notice' = [notice EXCEPT ![t] = event]
  /\ Goto(t, "closing")

\* Mutant: no return after the guardrail_intervened event of the input.
InterveneAndGoOn(t, event) ==
  /\ notice' = [notice EXCEPT ![t] = event]
  /\ Goto(t, "recalling")

\* Yields guardrail_intervened and returns.
Intervene(t, event) == Close(t, event)

\* get_or_create_agent, then stream_conversation starts the worker thread.
\* Construction can only fail while there is no agent yet.
StartAgent(t) ==
  \/ /\ agentBuilt' = TRUE
     /\ worker' = [worker EXCEPT ![t] = "running"]
     /\ prompt' = [prompt EXCEPT ![t] = message'[t]]
     /\ Goto(t, "streaming")
     /\ UNCHANGED notice
  \/ /\ ~agentBuilt
     /\ Close(t, "runtimeFailure")
     /\ UNCHANGED <<agentBuilt, worker, prompt>>

\* _memory_for_invocation: with a bridge the turn awaits retrieve_context,
\* without one (not configured, or its constructor failed) it goes straight on.
Recall(t) ==
  \/ /\ env.memory
     /\ bridgeBuilt' = TRUE
     /\ bridge' = [bridge EXCEPT ![t] = TRUE]
     /\ Goto(t, "recalling")
     /\ UNCHANGED <<notice, agentBuilt, worker, prompt>>
  \/ /\ env.memory => ~bridgeBuilt
     /\ StartAgent(t)
     /\ UNCHANGED <<bridgeBuilt, bridge>>

\* The generator goes on until its first await: straight to the finally block
\* for an empty message, to the input check, or past it.
Begin(t) ==
  \/ /\ payload[t].message = "blank"
     /\ Close(t, "empty")
     /\ UNCHANGED <<bridge, bridgeBuilt, agentBuilt, worker, prompt>>
  \/ /\ payload[t].message = "malformed" \/ (payload[t].message = "raw" /\ env.guard = "invalid")
     /\ Close(t, "runtimeFailure")
     /\ UNCHANGED <<bridge, bridgeBuilt, agentBuilt, worker, prompt>>
  \/ /\ payload[t].message = "raw" /\ env.guard = "on"
     /\ Goto(t, "screening")
     /\ UNCHANGED <<notice, bridge, bridgeBuilt, agentBuilt, worker, prompt>>
  \/ /\ payload[t].message = "raw" /\ env.guard = "off"
     /\ Recall(t)
-----------------------------------------------------------------------------
(* The generator.                                                           *)

\* _workspace_for_invocation raises: the call fails before any event.  A
\* first call can also fail to set persistence up.
Refuse(t) ==
  /\ pc[t] = "new"
  /\ \/ payload[t].binding = "sessionInPayload"
     \/ env.bucket /\ (payload[t].binding = "unbound" \/ ~synced)
  /\ Goto(t, "refused")
  /\ UNCHANGED <<env, payload, message, bridge, reply, heard, notice, saved,
                 checkVars, workVars, memVars, synced, memStatus>>

\* _workspace_for_invocation binds the session (restoring it the first time)
\* or runs without persistence.
Admit(t) ==
  /\ pc[t] = "new"
  /\ payload[t].binding # "sessionInPayload"
  /\ env.bucket => payload[t].binding = "bound"
  /\ synced' = (synced \/ env.bucket)
  /\ message' = message
  /\ Begin(t)
  /\ UNCHANGED <<env, payload, reply, heard, saved, checkVars, queue, final, said,
                 ready, memory, adrift, memStatus>>

\* The INPUT evaluation returns.
ScreenInput(t) ==
  /\ pc[t] = "screening"
  /\ \/ /\ inCheck' = [inCheck EXCEPT ![t] = CheckFailed]
        /\ Close(t, "guardrailUnavailable")
        /\ UNCHANGED <<message, bridge, bridgeBuilt, agentBuilt, worker, prompt>>
     \/ \E a \in Assessments :
          /\ inCheck' = [inCheck EXCEPT ![t] = Check("made", a)]
          /\ \/ /\ Blocked(a)
                /\ Intervene(t, "inputBlocked")
                /\ UNCHANGED <<message, bridge, bridgeBuilt, agentBuilt, worker, prompt>>
             \/ /\ ~Blocked(a)
                /\ message' = [message EXCEPT ![t] = Screened(a, message[t], "masked")]
                /\ Recall(t)
  /\ UNCHANGED <<env, payload, reply, heard, saved, outCheck, queue, final, said,
                 ready, memory, adrift, synced, memStatus>>

\* ensure_ready: sticky once the resource was seen ACTIVE; a failed call, any
\* other status or the deadline leave it unset for a later invocation.
EnsureReady == ready' \in {ready, ready \/ memStatus = "ACTIVE"}

\* retrieve_context returns, with or without context, or raised.
Retrieve(t) ==
  /\ pc[t] = "recalling"
  /\ EnsureReady
  /\ message' = message
  /\ StartAgent(t)
  /\ UNCHANGED <<env, payload, bridge, reply, heard, saved, checkVars, queue,
                 final, said, bridgeBuilt, memory, adrift, synced, memStatus>>

\* The next delta arrives; without a Guardrail it is yielded at once.
TakeDelta(t) ==
  /\ pc[t] = "streaming"
  /\ queue[t] # << >>
  /\ queue' = [queue EXCEPT ![t] = Tail(@)]
  /\ reply' = [reply EXCEPT ![t] = Append(@, Head(queue[t]))]
  /\ heard' = [heard EXCEPT ![t] = IF Streams THEN Append(@, Head(queue[t])) ELSE @]
  /\ UNCHANGED <<env, payload, pc, message, bridge, notice, saved, checkVars,
                 worker, final, prompt, said, agentBuilt, memVars, synced, memStatus>>

\* Mutant: the final response is appended although deltas were streamed.
NeedsFallbackAlways(t) == final[t] # << >>

\* stream_conversation yields the final response only if nothing was streamed.
NeedsFallback(t) == reply[t] = << >> /\ final[t] # << >>

\* The finished marker arrives and there were no deltas: the final response
\* becomes the only one.
FallBack(t) ==
  /\ pc[t] = "streaming"
  /\ queue[t] = << >> /\ worker[t] = "done" /\ NeedsFallback(t)
  /\ queue' = [queue EXCEPT ![t] = final[t]]
  /\ final' = [final EXCEPT ![t] = << >>]
  /\ UNCHANGED <<env, payload, turnVars, checkVars, worker, prompt, said,
                 agentBuilt, memVars, synced, memStatus>>

\* The finished marker carries the agent's exception.
AgentFailed(t) ==
  /\ pc[t] = "streaming"
  /\ queue[t] = << >> /\ worker[t] = "failed"
  /\ Close(t, "runtimeFailure")
  /\ UNCHANGED <<env, payload, message, bridge, reply, heard, saved, checkVars,
                 workVars, memVars, synced, memStatus>>

\* The condition in front of record_turn.
Remembers(t) == bridge[t] /\ reply'[t] # << >> /\ ready

\* Past the last delta: record the turn, or leave the try block.
Conclude(t) == Goto(t, IF Remembers(t) THEN "recording" ELSE "closing")

\* The stream is exhausted.
EndStream(t) ==
  /\ pc[t] = "streaming"
  /\ queue[t] = << >> /\ worker[t] = "done" /\ ~NeedsFallback(t)
  /\ reply' = reply
  /\ IF env.guard = "off" THEN Conclude(t) ELSE Goto(t, "reviewing")
  /\ UNCHANGED <<env, payload, message, bridge, heard, notice, saved, checkVars,
                 workVars, memVars, synced, memStatus>>

\* The client is sent the checked reply as one delta.
Deliver(t) ==
  /\ heard' = [heard EXCEPT ![t] = reply'[t]]
  /\ Goto(t, IF reply'[t] = << >> THEN "closing" ELSE "delivered")
  /\ UNCHANGED notice

\* The OUTPUT evaluation returns.  An empty reply is passed without a call.
ScreenOutput(t) ==
  /\ pc[t] = "reviewing"
  /\ \/ /\ reply[t] = << >>
        /\ reply' = reply /\ outCheck' = outCheck
        /\ Deliver(t)
     \/ /\ reply[t] # << >>
        /\ outCheck' = [outCheck EXCEPT ![t] = CheckFailed]
        /\ Close(t, "guardrailUnavailable")
        /\ UNCHANGED <<reply, heard>>
     \/ /\ reply[t] # << >>
        /\ \E a \in Assessments :
             /\ outCheck' = [outCheck EXCEPT ![t] = Check("made", a)]
             /\ \/ /\ Blocked(a)
                   /\ Intervene(t, "outputBlocked")
                   /\ UNCHANGED <<reply, heard>>
                \/ /\ ~Blocked(a)
                   /\ reply' = [reply EXCEPT ![t] = Screened(a, @, <<Masked>>)]
                   /\ Deliver(t)
  /\ UNCHANGED <<env, payload, message, bridge, saved, inCheck, workVars,
                 memVars, synced, memStatus>>

\* The generator is resumed after it yielded the checked reply.
Resume(t) ==
  /\ pc[t] = "delivered"
  /\ reply' = reply
  /\ Conclude(t)
  /\ UNCHANGED <<env, payload, message, bridge, heard, notice, saved, checkVars,
                 workVars, memVars, synced, memStatus>>

\* Mutant: the client's own text is recorded instead of the screened one.
EventOfPayload(t) == [turn |-> t, user |-> payload[t].message, assistant |-> reply[t]]

\* Mutant: the event has the answer only.
EventOfAnswer(t) == [turn |-> t, assistant |-> reply[t]]

\* create_event of record_turn.
EventOf(t) == [turn |-> t, user |-> message[t], assistant |-> reply[t]]

\* Mutant: a call that got no answer is repeated.
AfterRecordRetries(answered) == IF answered THEN "closing" ELSE "recording"

\* A failure of record_turn is logged and the turn ends.
AfterRecord(answered) == "closing"

\* record_turn returns or raises; create_event may have been carried out in
\* either case.
Record(t) ==
  /\ pc[t] = "recording"
  /\ memory' \in {memory, Append(memory, EventOf(t))}
  /\ \E answered \in BOOLEAN : Goto(t, AfterRecord(answered))
  /\ UNCHANGED <<env, payload, message, bridge, reply, heard, notice, saved,
                 checkVars, workVars, bridgeBuilt, ready, adrift, synced, memStatus>>

\* Mutant: only a turn that went well is saved.
SavesGoodTurns(t) == env.bucket /\ notice[t] = "none"

\* The finally block saves whenever there is a WorkspaceSync.
Saves(t) == env.bucket

\* finally: the workspace is saved in a thread when there is one.
Save(t) ==
  /\ pc[t] = "closing"
  /\ saved' = [saved EXCEPT ![t] = Saves(t)]
  /\ Goto(t, "closed")
  /\ UNCHANGED <<env, payload, message, bridge, reply, heard, notice, checkVars,
                 workVars, memVars, synced, memStatus>>

\* Cancelling the generator does not stop the thread of an asyncio.to_thread it
\* awaits.  Those of a Guardrail evaluation change nothing any more.
LeftBehind(t) ==
  CASE pc[t] = "recalling" -> "retrieving"
    [] pc[t] = "recording" -> "recording"
    [] OTHER -> "none"

\* The client goes away: the generator is closed or cancelled where it is
\* suspended and only finally runs.
Disconnect(t) ==
  /\ pc[t] \in {"screening", "recalling", "streaming", "reviewing", "delivered", "recording"}
  /\ Close(t, "disconnected")
  /\ adrift' = [adrift EXCEPT ![t] = LeftBehind(t)]
  /\ UNCHANGED <<env, payload, message, bridge, reply, heard, saved, checkVars,
                 workVars, bridgeBuilt, ready, memory, synced, memStatus>>
-----------------------------------------------------------------------------
(* Calls on the MemoryBridge whose turn is gone: they go on in their thread *)
(* and end at any time, if the process lives that long.                     *)

\* ensure_ready of a lost client's retrieve_context comes to an end.
LateReady(t) ==
  /\ adrift[t] = "retrieving"
  /\ EnsureReady
  /\ adrift' = [adrift EXCEPT ![t] = "none"]
  /\ UNCHANGED <<env, payload, turnVars, checkVars, workVars, bridgeBuilt, memory,
                 synced, memStatus>>

\* create_event of a lost client's record_turn is carried out, or is not.
LateRecord(t) ==
  /\ adrift[t] = "recording"
  /\ memory' \in {memory, Append(memory, EventOf(t))}
  /\ adrift' = [adrift EXCEPT ![t] = "none"]
  /\ UNCHANGED <<env, payload, turnVars, checkVars, workVars, bridgeBuilt, ready,
                 synced, memStatus>>

Late(t) == LateReady(t) \/ LateRecord(t)
-----------------------------------------------------------------------------
(* The worker thread (run in stream_conversation) and the Memory service.   *)

\* The agent calls stream_callback with a non-empty text.
Emit(t) ==
  /\ worker[t] = "running"
  /\ Len(said[t]) < MaxDeltas
  /\ \E c \in Chunks :
       /\ queue' = [queue EXCEPT ![t] = Append(@, c)]
       /\ said' = [said EXCEPT ![t] = Append(@, c)]
  /\ UNCHANGED <<env, payload, turnVars, checkVars, worker, final, prompt,
                 agentBuilt, memVars, synced, memStatus>>

\* run_conversation returns, with or without a final_response.
Finish(t) ==
  /\ worker[t] = "running"
  /\ worker' = [worker EXCEPT ![t] = "done"]
  /\ \E text \in {<< >>} \union {<<c>> : c \in Chunks} :
       /\ final' = [final EXCEPT ![t] = text]
       /\ said' = [said EXCEPT ![t] = IF @ = << >> THEN text ELSE @]
  /\ UNCHANGED <<env, payload, turnVars, checkVars, queue, prompt, agentBuilt,
                 memVars, synced, memStatus>>

\* run_conversation raises.
Crash(t) ==
  /\ worker[t] = "running"
  /\ worker' = [worker EXCEPT ![t] = "failed"]
  /\ UNCHANGED <<env, payload, turnVars, checkVars, queue, final, prompt, said,
                 agentBuilt, memVars, synced, memStatus>>

\* The Memory resource leaves CREATING.
Provision ==
  /\ env.memory
  /\ memStatus = "CREATING"
  /\ memStatus' \in {"ACTIVE", "FAILED"}
  /\ UNCHANGED <<env, payload, turnVars, checkVars, workVars, memVars, synced>>
-----------------------------------------------------------------------------
\* What turn t does by itself.
Proceed(t) ==
  \/ Refuse(t) \/ Admit(t) \/ ScreenInput(t) \/ Retrieve(t)
  \/ TakeDelta(t) \/ FallBack(t) \/ AgentFailed(t) \/ EndStream(t)
  \/ ScreenOutput(t) \/ Resume(t) \/ Record(t) \/ Save(t)

RunAgent(t) == Emit(t) \/ Finish(t) \/ Crash(t)

Next ==
  \/ \E t \in Turns : Proceed(t) \/ RunAgent(t) \/ Disconnect(t) \/ Late(t)
  \/ Provision

Spec == Init /\ [][Next]_vars

\* The event loop resumes every generator whose awaited call returned, the
\* calls return (they have timeouts), and an agent run ends.
FairSpec == Spec /\ \A t \in Turns : WF_vars(Proceed(t)) /\ WF_vars(RunAgent(t))
-----------------------------------------------------------------------------
(* Properties.                                                              *)

Labels == {"new", "refused", "screening", "recalling", "streaming", "reviewing",
           "delivered", "recording", "closing", "closed"}
Notices == {"none", "empty", "runtimeFailure", "guardrailUnavailable", "inputBlocked",
            "outputBlocked", "disconnected"}

\* Every variable has the values the code can give it.
TypeOK ==
  /\ env \in Envs
  /\ payload \in [Turns -> Payloads]
  /\ pc \in [Turns -> Labels]
  /\ message \in [Turns -> Messages \union {"masked"}]
  /\ bridge \in [Turns -> BOOLEAN]
  /\ worker \in [Turns -> {"none", "running", "done", "failed"}]
  /\ queue \in [Turns -> Text]
  /\ final \in [Turns -> Text]
  /\ reply \in [Turns -> Text]
  /\ heard \in [Turns -> Text]
  /\ notice \in [Turns -> Notices]
  /\ synced \in BOOLEAN
  /\ agentBuilt \in BOOLEAN
  /\ bridgeBuilt \in BOOLEAN
  /\ ready \in BOOLEAN
  /\ memStatus \in {"CREATING", "ACTIVE", "FAILED"}
  /\ memory \in Seq([turn : Turns, user : Messages \union {"masked"}, assistant : Text])
  /\ adrift \in [Turns -> {"none", "retrieving", "recording"}]
  /\ saved \in [Turns -> BOOLEAN]
  /\ inCheck \in [Turns -> Checks]
  /\ outCheck \in [Turns -> Checks]
  /\ prompt \in [Turns -> Messages \union {"masked", "none"}]
  /\ said \in [Turns -> Text]

\* A check whose answer lets text pass: no intervention, or one in which
\* everything found was anonymised.
Cleared(check) ==
  /\ check.kind = "made"
  /\ check.answer.intervened =>
       check.answer.anonymized /\ check.answer.output /\ ~check.answer.blocked

\* With a Guardrail configured no text of the agent reaches the client before
\* the OUTPUT evaluation of the whole reply let it pass, and text the service
\* intervened on arrives only in its sanitised form (runbook: "an output is
\* accumulated and checked before any browser delta is emitted").
OnlyClearedTextIsHeard ==
  \A t \in Turns : heard[t] # << >> /\ env.guard # "off" =>
    /\ Cleared(outCheck[t])
    /\ heard[t] = IF outCheck[t].answer.intervened THEN <<Masked>> ELSE said[t]

\* With a Guardrail configured the agent runs, and Memory is written, only for
\* a message the INPUT evaluation let pass, in the form it let pass; a failing
\* Guardrail service or a bad configuration never lets one through.
OnlyClearedMessageIsUsed ==
  \A t \in Turns : worker[t] # "none" /\ env.guard # "off" =>
    /\ Cleared(inCheck[t])
    /\ prompt[t] = IF inCheck[t].answer.intervened THEN "masked" ELSE payload[t].message

\* What Memory keeps of a turn is what the client was sent, whole, in answer to
\* the message the agent was given, from a run that ended well, and it keeps it
\* once (runbook: "A successful turn is written once [...] after the response
\* stream completes"): never a prefix, a duplicate, an unscreened text, or a
\* turn that was refused or failed.
MemoryMatchesConversation ==
  /\ \A i \in 1..Len(memory) : LET t == memory[i].turn IN
       /\ memory[i].assistant = heard[t]
       /\ memory[i].user = prompt[t]
       /\ worker[t] = "done"
       /\ notice[t] \in {"none", "disconnected"}
  /\ \A i, j \in 1..Len(memory) : memory[i].turn = memory[j].turn => i = j

\* A client that stayed and got no notice has the agent's whole answer, each
\* piece once and in order, whether it was streamed or came at the end.
CompleteReply ==
  \A t \in Turns : pc[t] \in {"recording", "closing", "closed"} /\ notice[t] = "none" =>
    \/ heard[t] = said[t]
    \/ env.guard = "on" /\ outCheck[t].answer.intervened /\ heard[t] = <<Masked>>

\* Once a turn ended with an error, an intervention or a lost client it is over:
\* no text, second event or agent run follows, although the worker of the turn may
\* still be running and emitting, and no Memory record, unless the client was lost
\* while the record was being written.
NothingAfterTheEnd ==
  [][\A t \in Turns : notice[t] # "none" =>
        /\ UNCHANGED <<heard[t], notice[t], prompt[t]>>
        /\ \/ adrift[t] = "recording"
           \/ \A i \in 1..Len(memory') : i > Len(memory) => memory'[i].turn # t]_vars

\* Every turn that was admitted ends, and with a bucket its workspace is saved
\* afterwards, whatever failed in between and whether or not the client stayed.
EveryTurnEnds ==
  \A t \in Turns : pc[t] = "new" ~>
    (pc[t] = "refused" \/ (pc[t] = "closed" /\ (env.bucket => saved[t])))

\* Runtime implements the contract of TurnContract: the ledger is Memory.
Phase(t) ==
  IF adrift[t] = "recording" THEN "left"
  ELSE IF pc[t] \in {"closing", "closed", "refused"} THEN "ended"
  ELSE IF pc[t] \in {"delivered", "recording"} THEN "final" ELSE "open"

Contract == INSTANCE TurnContract WITH
  Pieces <- Chunks \union {Masked},
  phase <- [t \in Turns |-> Phase(t)],
  told <- heard,
  ledger <- [i \in 1..Len(memory) |-> <<memory[i].turn, memory[i].assistant>>]

\* Every behaviour of the runtime is one the contract allows, its liveness
\* (every turn ends) included.
ImplementsContract == Contract!FairSpec
=============================================================================
