----------------------------- MODULE RuntimeProofs -----------------------------
(***************************************************************************)
(* Proofs about Runtime, for any number of turns, any text the agent emits *)
(* and any answers of the Guardrail service.                               *)
(***************************************************************************)
EXTENDS Runtime, SequenceTheorems, TLAPS

-----------------------------------------------------------------------------
(* The inductive invariant.                                                 *)

\* The message invoke goes on with passed the INPUT evaluation, if there is one.
MessageCleared(t) ==
  \/ env.guard = "off" /\ message[t] = payload[t].message
  \/ /\ env.guard = "on"
     /\ Cleared(inCheck[t])
     /\ message[t] = IF inCheck[t].answer.intervened THEN "masked" ELSE payload[t].message

\* The client has the whole answer, cleared by the OUTPUT evaluation.
ReplyCleared(t) ==
  \/ env.guard = "off" /\ heard[t] = said[t]
  \/ /\ env.guard = "on"
     /\ Cleared(outCheck[t])
     /\ heard[t] = IF outCheck[t].answer.intervened THEN <<Masked>> ELSE said[t]

\* Every piece the agent emitted was taken or waits in the queue, except a
\* final response that nothing was streamed before.
NothingLost(t) ==
  \/ /\ said[t] = reply[t] \o queue[t]
     /\ worker[t] = "done" /\ said[t] = << >> => final[t] = << >>
  \/ /\ worker[t] = "done"
     /\ reply[t] = << >> /\ queue[t] = << >> /\ final[t] = said[t] /\ final[t] # << >>

BeforeAgent(t) ==
  pc[t] \in {"new", "refused", "screening", "recalling"} =>
    worker[t] = "none" /\ reply[t] = << >> /\ heard[t] = << >> /\ notice[t] = "none"

Started(t) ==
  /\ pc[t] \in {"new", "screening"} => message[t] = payload[t].message
  /\ pc[t] = "screening" => env.guard = "on"
  /\ pc[t] = "recalling" => MessageCleared(t)
  /\ worker[t] = "none" => queue[t] = << >> /\ final[t] = << >> /\ said[t] = << >>
  /\ worker[t] # "none" => MessageCleared(t) /\ prompt[t] = message[t]

Streaming(t) ==
  /\ pc[t] = "streaming" =>
       /\ worker[t] # "none" /\ notice[t] = "none" /\ NothingLost(t)
       /\ heard[t] = IF env.guard = "off" THEN reply[t] ELSE << >>
  /\ pc[t] = "reviewing" =>
       /\ worker[t] = "done" /\ notice[t] = "none"
       /\ env.guard = "on" /\ heard[t] = << >> /\ reply[t] = said[t]

Replied(t) ==
  /\ pc[t] \in {"delivered", "recording"} =>
       /\ worker[t] = "done" /\ notice[t] = "none"
       /\ heard[t] = reply[t] /\ reply[t] # << >> /\ ReplyCleared(t)
  /\ pc[t] \in {"closing", "closed"} /\ notice[t] = "none" =>
       /\ worker[t] = "done"
       /\ ReplyCleared(t) \/ (heard[t] = << >> /\ said[t] = << >>)
  /\ heard[t] # << >> /\ env.guard # "off" => worker[t] = "done" /\ ReplyCleared(t)

TurnInv(t) == BeforeAgent(t) /\ Started(t) /\ Streaming(t) /\ Replied(t)

\* A record on its way after the end of its turn will be the first of it and true.
Unrecorded(t) ==
  adrift[t] = "recording" =>
    /\ pc[t] \in {"closing", "closed"} /\ worker[t] = "done"
    /\ notice[t] = "disconnected"
    /\ heard[t] = reply[t] /\ prompt[t] = message[t]
    /\ \A i \in 1..Len(memory) : memory[i].turn # t

\* A recorded turn has ended and its record is frozen with it.
MemoryInv ==
  /\ \A t \in Turns : Unrecorded(t)
  /\ \A i \in 1..Len(memory) : LET t == memory[i].turn IN
       /\ pc[t] \in {"closing", "closed"}
       /\ memory[i].assistant = heard[t]
       /\ memory[i].user = prompt[t]
       /\ worker[t] = "done"
       /\ notice[t] \in {"none", "disconnected"}
  /\ \A i, j \in 1..Len(memory) : memory[i].turn = memory[j].turn => i = j

IInv == TypeOK /\ (\A t \in Turns : TurnInv(t)) /\ MemoryInv
-----------------------------------------------------------------------------
(* Facts about sequences.                                                   *)

\* Taking the head of the queue to the end of the reply loses nothing.
LEMMA TakeKeeps ==
  ASSUME NEW S, NEW q \in Seq(S), NEW r \in Seq(S), q # << >>
  PROVE  /\ Head(q) \in S /\ Tail(q) \in Seq(S) /\ Append(r, Head(q)) \in Seq(S)
         /\ Append(r, Head(q)) # << >>
         /\ Append(r, Head(q)) \o Tail(q) = r \o q
<1>1. Head(q) \in S /\ Tail(q) \in Seq(S)
  BY HeadTailProperties
<1>2. Append(r, Head(q)) \in Seq(S) /\ Append(r, Head(q)) # << >>
  BY <1>1, AppendProperties
<1>3. Append(r, Head(q)) = r \o <<Head(q)>> /\ <<Head(q)>> \in Seq(S)
  BY <1>1, AppendIsConcat
<1>4. q = <<Head(q)>> \o Tail(q)
  <2>1. q = SubSeq(q, 1, Len(q)) /\ Tail(q) = SubSeq(q, 2, Len(q)) /\ Head(q) = q[1]
    BY SubSeqFull, TailIsSubSeq
  <2>2. Len(q) \in Nat \ {0}
    BY EmptySeq
  <2>3. SubSeq(q, 1, Len(q)) = <<q[1]>> \o SubSeq(q, 1 + 1, Len(q))
    BY <2>2, SubSeqRecursiveFirst
  <2>. QED  BY <2>1, <2>3
<1>5. (r \o <<Head(q)>>) \o Tail(q) = r \o (<<Head(q)>> \o Tail(q))
  BY <1>1, <1>3, ConcatAssociative
<1>. QED  BY <1>1, <1>2, <1>3, <1>4, <1>5

\* A concatenation is empty only if both its parts are.
LEMMA ConcatEmpty ==
  ASSUME NEW S, NEW q \in Seq(S), NEW r \in Seq(S), r \o q = << >>
  PROVE  r = << >> /\ q = << >>
<1>1. Len(r \o q) = Len(r) + Len(q)
  BY ConcatProperties
<1>2. Len(r) = 0 /\ Len(q) = 0
  BY <1>1, EmptySeq, LenProperties
<1>. QED  BY <1>2, EmptySeq

\* A piece put on the queue is at the end of reply and queue together.
LEMMA ConcatAppend ==
  ASSUME NEW S, NEW q \in Seq(S), NEW r \in Seq(S), NEW c \in S
  PROVE  r \o Append(q, c) = Append(r \o q, c)
<1>1. Append(q, c) = q \o <<c>> /\ <<c>> \in Seq(S)
  BY AppendIsConcat
<1>2. Append(r \o q, c) = (r \o q) \o <<c>>
  BY ConcatProperties, AppendIsConcat
<1>. QED  BY <1>1, <1>2, ConcatAssociative

-----------------------------------------------------------------------------
(* Type correctness.                                                        *)

\* What Text offers the proofs below, which never expand it.
LEMMA TextFacts ==
  /\ << >> \in Text /\ <<Masked>> \in Text
  /\ \A c \in Chunks : <<c>> \in Text
  /\ \A q \in Text, c \in Chunks : Append(q, c) \in Text
  /\ \A q, r \in Text : q # << >> => Tail(q) \in Text /\ Append(r, Head(q)) \in Text
BY TakeKeeps DEF Text

\* Every check the actions record is one of Checks.
LEMMA CheckFacts ==
  NoCheck \in Checks /\ CheckFailed \in Checks /\ \A a \in Assessments : Check("made", a) \in Checks
BY DEF Checks

Words == Messages \union {"masked"}

\* The initial states are of the declared types.
LEMMA TypeInit == Init => TypeOK
<1> SUFFICES ASSUME Init PROVE TypeOK
  OBVIOUS
<1>1. ASSUME NEW t \in Turns PROVE payload[t].message \in Messages
  <2>1. payload[t] \in Payloads
    BY DEF Init
  <2>. QED  BY <2>1, RuntimeAssumption
<1>2. message \in [Turns -> Words]
  BY <1>1 DEF Init, Words
<1>3. memory \in Seq([turn : Turns, user : Words, assistant : Text])
  BY EmptySeq DEF Init
<1>. QED  BY <1>2, <1>3, TextFacts, CheckFacts DEF Init, TypeOK, Labels, Notices, Words

\* The variables StartAgent, Recall and Begin assign.
ControlOK ==
  /\ pc \in [Turns -> Labels]
  /\ notice \in [Turns -> Notices]
  /\ worker \in [Turns -> {"none", "running", "done", "failed"}]
  /\ prompt \in [Turns -> Words \union {"none"}]
  /\ agentBuilt \in BOOLEAN
  /\ bridge \in [Turns -> BOOLEAN]
  /\ bridgeBuilt \in BOOLEAN

\* Starting the agent (get_or_create_agent, stream_conversation) keeps types.
LEMMA StartTypes ==
  ASSUME ControlOK, NEW t \in Turns, message' \in [Turns -> Words], StartAgent(t)
  PROVE  /\ pc' \in [Turns -> Labels]
         /\ notice' \in [Turns -> Notices]
         /\ worker' \in [Turns -> {"none", "running", "done", "failed"}]
         /\ prompt' \in [Turns -> Words \union {"none"}]
         /\ agentBuilt' \in BOOLEAN
<1> USE DEF ControlOK, Goto, Close, Labels, Notices
<1>1. CASE agentBuilt' = TRUE
  <2>1. message'[t] \in Words
    OBVIOUS
  <2>. QED  BY <1>1, <2>1 DEF StartAgent
<1>2. CASE agentBuilt' # TRUE
  BY <1>2 DEF StartAgent
<1>. QED  BY <1>1, <1>2

\* Asking for a MemoryBridge (_memory_for_invocation) keeps types.
LEMMA RecallTypes ==
  ASSUME ControlOK, NEW t \in Turns, message' \in [Turns -> Words], Recall(t)
  PROVE  ControlOK'
<1>1. CASE StartAgent(t) /\ UNCHANGED <<bridgeBuilt, bridge>>
  BY <1>1, StartTypes DEF ControlOK
<1>2. CASE ~(StartAgent(t) /\ UNCHANGED <<bridgeBuilt, bridge>>)
  BY <1>2 DEF Recall, ControlOK, Goto, Labels
<1>. QED  BY <1>1, <1>2

\* The first stretch of invoke, before its first await, keeps types.
LEMMA BeginTypes ==
  ASSUME ControlOK, NEW t \in Turns, message' \in [Turns -> Words], Begin(t)
  PROVE  ControlOK'
<1>1. CASE Recall(t)
  BY <1>1, RecallTypes
<1>2. CASE ~Recall(t)
  BY <1>2 DEF Begin, ControlOK, Goto, Close, Labels, Notices
<1>. QED  BY <1>1, <1>2

\* What record_turn sends is a record of the type of memory.
LEMMA EventTypes ==
  ASSUME TypeOK, NEW t \in Turns
  PROVE  /\ EventOf(t) \in [turn : Turns, user : Words, assistant : Text]
         /\ Append(memory, EventOf(t)) \in Seq([turn : Turns, user : Words, assistant : Text])
<1>1. EventOf(t) \in [turn : Turns, user : Words, assistant : Text]
  BY DEF TypeOK, EventOf, Words
<1>. QED  BY <1>1, AppendProperties DEF TypeOK, Words

\* Every step keeps types, one step of the proof per action.
LEMMA TypeNext == TypeOK /\ [Next]_vars => TypeOK'
<1> SUFFICES ASSUME TypeOK, [Next]_vars PROVE TypeOK'
  OBVIOUS
<1> USE RuntimeAssumption
<1> USE DEF TypeOK, Labels, Notices, Goto, Close
<1>1. ASSUME NEW t \in Turns, Refuse(t) PROVE TypeOK'
  BY <1>1 DEF Refuse, checkVars, workVars, memVars
<1>2. ASSUME NEW t \in Turns, Admit(t) PROVE TypeOK'
  <2>1. ControlOK /\ message' \in [Turns -> Words]
    BY <1>2 DEF Admit, ControlOK, Words
  <2>2. ControlOK'
    BY <1>2, <2>1, BeginTypes DEF Admit
  <2>. QED  BY <1>2, <2>2 DEF Admit, ControlOK, Words, checkVars
<1>3. ASSUME NEW t \in Turns, ScreenInput(t) PROVE TypeOK'
  <2>1. ControlOK
    BY DEF ControlOK, Words
  <2>2. inCheck' \in [Turns -> Checks]
    BY <1>3, CheckFacts DEF ScreenInput
  <2>3. message' \in [Turns -> Words]
    BY <1>3 DEF ScreenInput, Screened, Words
  <2>4. ControlOK'
    <3>1. CASE Recall(t)
      BY <2>1, <2>3, <3>1, RecallTypes
    <3>2. CASE ~Recall(t)
      BY <1>3, <2>1, <3>2 DEF ScreenInput, Intervene, ControlOK
    <3>. QED  BY <3>1, <3>2
  <2>. QED  BY <1>3, <2>2, <2>3, <2>4 DEF ScreenInput, ControlOK, Words
<1>4. ASSUME NEW t \in Turns, Retrieve(t) PROVE TypeOK'
  <2>1. ControlOK /\ message' \in [Turns -> Words]
    BY <1>4 DEF Retrieve, ControlOK, Words
  <2>2. ready' \in BOOLEAN
    BY <1>4 DEF Retrieve, EnsureReady
  <2>. QED  BY <1>4, <2>1, <2>2, StartTypes DEF Retrieve, Words, checkVars
<1>5. ASSUME NEW t \in Turns, TakeDelta(t) PROVE TypeOK'
  BY <1>5, TextFacts DEF TakeDelta, checkVars, memVars
<1>6. ASSUME NEW t \in Turns, FallBack(t) PROVE TypeOK'
  BY <1>6 DEF FallBack, turnVars, checkVars, memVars
<1>7. ASSUME NEW t \in Turns, AgentFailed(t) PROVE TypeOK'
  BY <1>7 DEF AgentFailed, checkVars, workVars, memVars
<1>8. ASSUME NEW t \in Turns, EndStream(t) PROVE TypeOK'
  BY <1>8 DEF EndStream, Conclude, checkVars, workVars, memVars
<1>9. ASSUME NEW t \in Turns, ScreenOutput(t) PROVE TypeOK'
  <2>1. reply[t] \in Text
    OBVIOUS
  <2>2. CASE reply' = reply /\ outCheck' = outCheck /\ Deliver(t)
    BY <1>9, <2>1, <2>2 DEF ScreenOutput, Deliver, workVars, memVars
  <2>3. CASE outCheck' = [outCheck EXCEPT ![t] = CheckFailed] /\ Close(t, "guardrailUnavailable")
             /\ UNCHANGED <<reply, heard>>
    BY <1>9, <2>3, CheckFacts DEF ScreenOutput, workVars, memVars
  <2>4. ASSUME NEW a \in Assessments, outCheck' = [outCheck EXCEPT ![t] = Check("made", a)],
               Intervene(t, "outputBlocked"), UNCHANGED <<reply, heard>>
        PROVE  TypeOK'
    BY <1>9, <2>4, CheckFacts DEF ScreenOutput, Intervene, workVars, memVars
  <2>5. ASSUME NEW a \in Assessments, outCheck' = [outCheck EXCEPT ![t] = Check("made", a)],
               reply' = [reply EXCEPT ![t] = Screened(a, @, <<Masked>>)], Deliver(t)
        PROVE  TypeOK'
    <3>1. Screened(a, reply[t], <<Masked>>) \in Text
      BY <2>1, TextFacts DEF Screened
    <3>2. reply' \in [Turns -> Text] /\ outCheck' \in [Turns -> Checks]
      BY <2>5, <3>1, CheckFacts
    <3>. QED  BY <1>9, <2>5, <3>2 DEF ScreenOutput, Deliver, workVars, memVars
  <2>. QED  BY <1>9, <2>2, <2>3, <2>4, <2>5 DEF ScreenOutput
<1>10. ASSUME NEW t \in Turns, Resume(t) PROVE TypeOK'
  BY <1>10 DEF Resume, Conclude, checkVars, workVars, memVars
<1>11. ASSUME NEW t \in Turns, Record(t) PROVE TypeOK'
  <2>1. memory' \in Seq([turn : Turns, user : Words, assistant : Text])
    BY <1>11, EventTypes DEF Record, Words
  <2>. QED  BY <1>11, <2>1 DEF Record, AfterRecord, Words, checkVars, workVars
<1>12. ASSUME NEW t \in Turns, Save(t) PROVE TypeOK'
  BY <1>12 DEF Save, Saves, checkVars, workVars, memVars
<1>13. ASSUME NEW t \in Turns, Disconnect(t) PROVE TypeOK'
  BY <1>13 DEF Disconnect, LeftBehind, checkVars, workVars
<1>14. ASSUME NEW t \in Turns, Emit(t) PROVE TypeOK'
  BY <1>14, TextFacts DEF Emit, turnVars, checkVars, memVars
<1>15. ASSUME NEW t \in Turns, Finish(t) PROVE TypeOK'
  BY <1>15, TextFacts DEF Finish, turnVars, checkVars, memVars
<1>16. ASSUME NEW t \in Turns, Crash(t) PROVE TypeOK'
  BY <1>16 DEF Crash, turnVars, checkVars, memVars
<1>17. CASE Provision
  BY <1>17 DEF Provision, turnVars, checkVars, workVars, memVars
<1>18. ASSUME NEW t \in Turns, LateReady(t) PROVE TypeOK'
  BY <1>18 DEF LateReady, EnsureReady, turnVars, checkVars, workVars
<1>19. ASSUME NEW t \in Turns, LateRecord(t) PROVE TypeOK'
  <2>1. memory' \in Seq([turn : Turns, user : Words, assistant : Text])
    BY <1>19, EventTypes DEF LateRecord, Words
  <2>. QED  BY <1>19, <2>1 DEF LateRecord, Words, turnVars, checkVars, workVars
<1>20. CASE UNCHANGED vars
  BY <1>20 DEF vars, turnVars, checkVars, workVars, memVars
<1>. QED  BY <1>1, <1>2, <1>3, <1>4, <1>5, <1>6, <1>7, <1>8, <1>9, <1>10, <1>11, <1>12, <1>13,
             <1>14, <1>15, <1>16, <1>17, <1>18, <1>19, <1>20 DEF Next, Proceed, RunAgent, Late
-----------------------------------------------------------------------------
(* A step of one turn leaves the others alone.                              *)

SameTurn(u) ==
  /\ pc'[u] = pc[u] /\ message'[u] = message[u] /\ worker'[u] = worker[u]
  /\ queue'[u] = queue[u] /\ final'[u] = final[u] /\ reply'[u] = reply[u]
  /\ heard'[u] = heard[u] /\ notice'[u] = notice[u] /\ said'[u] = said[u]
  /\ inCheck'[u] = inCheck[u] /\ outCheck'[u] = outCheck[u] /\ prompt'[u] = prompt[u]

Step(t) == Proceed(t) \/ RunAgent(t) \/ Disconnect(t)

\* A step of turn t leaves what the invariant says of another turn u alone.
LEMMA OthersUnchanged ==
  ASSUME TypeOK, NEW t \in Turns, Step(t), NEW u \in Turns, u # t
  PROVE  SameTurn(u)
<1> USE DEF SameTurn, turnVars, checkVars, workVars
<1>1. CASE Refuse(t)
  BY <1>1 DEF TypeOK, Refuse, Goto
<1>2. CASE Admit(t)
  BY <1>2 DEF TypeOK, Admit, Begin, Recall, StartAgent, Goto, Close
<1>3. CASE ScreenInput(t)
  BY <1>3 DEF TypeOK, ScreenInput, Intervene, Recall, StartAgent, Goto, Close
<1>4. CASE Retrieve(t)
  BY <1>4 DEF TypeOK, Retrieve, StartAgent, Goto, Close
<1>5. CASE TakeDelta(t)
  BY <1>5 DEF TypeOK, TakeDelta
<1>6. CASE FallBack(t)
  BY <1>6 DEF TypeOK, FallBack
<1>7. CASE AgentFailed(t)
  BY <1>7 DEF TypeOK, AgentFailed, Goto, Close
<1>8. CASE EndStream(t)
  BY <1>8 DEF TypeOK, EndStream, Conclude, Goto
<1>9. CASE ScreenOutput(t)
  BY <1>9 DEF TypeOK, ScreenOutput, Deliver, Intervene, Goto, Close
<1>10. CASE Resume(t)
  BY <1>10 DEF TypeOK, Resume, Conclude, Goto
<1>11. CASE Record(t)
  BY <1>11 DEF TypeOK, Record, Goto
<1>12. CASE Save(t)
  BY <1>12 DEF TypeOK, Save, Goto
<1>13. CASE Disconnect(t)
  BY <1>13 DEF TypeOK, Disconnect, Goto, Close
<1>14. CASE Emit(t)
  BY <1>14 DEF TypeOK, Emit
<1>15. CASE Finish(t)
  BY <1>15 DEF TypeOK, Finish
<1>16. CASE Crash(t)
  BY <1>16 DEF TypeOK, Crash
<1>. QED  BY <1>1, <1>2, <1>3, <1>4, <1>5, <1>6, <1>7, <1>8, <1>9, <1>10, <1>11, <1>12, <1>13, <1>14, <1>15, <1>16 DEF Step, Proceed, RunAgent

\* A call left behind by another turn stays as it is, and only a client that goes away
\* while its turn is recorded leaves such a record behind.
LEMMA CallsLeft ==
  ASSUME TypeOK, NEW t \in Turns, Step(t)
  PROVE  /\ \A u \in Turns : u # t => adrift'[u] = adrift[u]
         /\ adrift' = adrift \/ Disconnect(t)
         /\ adrift'[t] = "recording" =>
              adrift[t] = "recording" \/ (Disconnect(t) /\ pc[t] = "recording")
<1>1. adrift' = adrift \/ Disconnect(t)
  BY DEF Step, Proceed, RunAgent, Refuse, Admit, ScreenInput, Retrieve, TakeDelta, FallBack,
         AgentFailed, EndStream, ScreenOutput, Resume, Record, Save, Emit, Finish, Crash, memVars
<1>2. CASE Disconnect(t)
  BY <1>2 DEF TypeOK, Disconnect, LeftBehind
<1>. QED  BY <1>1, <1>2

\* A call that ends after its turn changes no turn.
LEMMA LateLeavesTurns ==
  ASSUME NEW t \in Turns, Late(t)
  PROVE  /\ \A u \in Turns : SameTurn(u)
         /\ UNCHANGED <<pc, heard, prompt, worker, notice, reply, message, saved>>
BY DEF Late, LateReady, LateRecord, SameTurn, turnVars, checkVars, workVars

\* The settings and the payloads of a process do not change.
LEMMA SettingsFixed == [Next]_vars => UNCHANGED <<env, payload>>
BY DEF Next, vars, Proceed, RunAgent, Refuse, Admit, ScreenInput, Retrieve, TakeDelta, FallBack,
       AgentFailed, EndStream, ScreenOutput, Resume, Record, Save, Disconnect, Emit, Finish,
       Crash, Late, LateReady, LateRecord, Provision

\* A turn whose variables a step leaves alone keeps its invariant.
LEMMA Frame ==
  ASSUME NEW u \in Turns, TurnInv(u), SameTurn(u), UNCHANGED <<env, payload>>
  PROVE  TurnInv(u)'
BY DEF SameTurn, TurnInv, BeforeAgent, Started, Streaming, Replied, MessageCleared,
       ReplyCleared, NothingLost
-----------------------------------------------------------------------------
(* A step of a turn keeps the invariant of that turn.                       *)

\* A refused call (_workspace_for_invocation raises) keeps the invariant of its turn.
LEMMA RefuseKeeps ==
  ASSUME TypeOK, NEW t \in Turns, TurnInv(t), Refuse(t)
  PROVE  TurnInv(t)'
BY DEF TypeOK, TurnInv, BeforeAgent, Started, Streaming, Replied, MessageCleared, ReplyCleared,
       NothingLost, Cleared, Check, Refuse, Goto, checkVars, workVars

\* Admitting a call keeps the invariant of its turn.
LEMMA AdmitKeeps ==
  ASSUME TypeOK, NEW t \in Turns, TurnInv(t), Admit(t)
  PROVE  TurnInv(t)'
BY DEF TypeOK, TurnInv, BeforeAgent, Started, Streaming, Replied, MessageCleared, ReplyCleared,
       NothingLost, Cleared, Check, Admit, Begin, Recall, StartAgent, Goto, Close, checkVars

\* The answer to the INPUT evaluation keeps the invariant of its turn.
LEMMA ScreenInputKeeps ==
  ASSUME TypeOK, NEW t \in Turns, TurnInv(t), ScreenInput(t)
  PROVE  TurnInv(t)'
BY DEF TypeOK, TurnInv, BeforeAgent, Started, Streaming, Replied, MessageCleared, ReplyCleared,
       NothingLost, Cleared, Check, ScreenInput, Intervene, Recall, StartAgent, Goto, Close, Screened, Blocked

\* The return of retrieve_context keeps the invariant of its turn.
LEMMA RetrieveKeeps ==
  ASSUME TypeOK, NEW t \in Turns, TurnInv(t), Retrieve(t)
  PROVE  TurnInv(t)'
BY DEF TypeOK, TurnInv, BeforeAgent, Started, Streaming, Replied, MessageCleared, ReplyCleared,
       NothingLost, Cleared, Check, Retrieve, StartAgent, Goto, Close, checkVars

\* Taking a delta from the queue keeps the invariant of its turn: nothing is lost.
LEMMA TakeDeltaKeeps ==
  ASSUME TypeOK, NEW t \in Turns, TurnInv(t), TakeDelta(t)
  PROVE  TurnInv(t)'
<1>0. reply[t] \in Seq(Chunks \union {Masked}) /\ queue[t] \in Seq(Chunks \union {Masked})
      /\ queue[t] # << >>
  BY DEF TypeOK, Text, TakeDelta
<1>1. /\ Append(reply[t], Head(queue[t])) \o Tail(queue[t]) = reply[t] \o queue[t]
      /\ Append(reply[t], Head(queue[t])) # << >>
  BY <1>0, TakeKeeps
<1>2. reply'[t] \o queue'[t] = reply[t] \o queue[t] /\ said' = said
  BY <1>1 DEF TypeOK, TakeDelta
<1>. QED  BY <1>0, <1>1, <1>2
     DEF TypeOK, TurnInv, BeforeAgent, Started, Streaming, Replied, MessageCleared,
         ReplyCleared, NothingLost, TakeDelta, Streams, checkVars

\* The final response as the only delta keeps the invariant of its turn.
LEMMA FallBackKeeps ==
  ASSUME TypeOK, NEW t \in Turns, TurnInv(t), FallBack(t)
  PROVE  TurnInv(t)'
<1>0. final[t] \in Seq(Chunks \union {Masked}) /\ reply[t] \in Seq(Chunks \union {Masked})
  BY DEF TypeOK, Text
<1>1. final[t] \o << >> = final[t] /\ << >> \o final[t] = final[t]
  BY <1>0, ConcatEmptySeq
<1>2. reply[t] \o << >> = reply[t]
  BY <1>0, ConcatEmptySeq
<1>3. final[t] = said[t] /\ reply[t] = << >> /\ said[t] # << >>
  BY <1>2 DEF TurnInv, Streaming, NothingLost, FallBack, NeedsFallback
<1>4. said[t] = reply'[t] \o queue'[t]
  BY <1>1, <1>3 DEF TypeOK, FallBack, turnVars
<1>. QED  BY <1>3, <1>4
     DEF TypeOK, TurnInv, BeforeAgent, Started, Streaming, Replied, MessageCleared,
         ReplyCleared, NothingLost, FallBack, turnVars, checkVars

\* An exception of the agent keeps the invariant of its turn.
LEMMA AgentFailedKeeps ==
  ASSUME TypeOK, NEW t \in Turns, TurnInv(t), AgentFailed(t)
  PROVE  TurnInv(t)'
BY DEF TypeOK, TurnInv, BeforeAgent, Started, Streaming, Replied, MessageCleared, ReplyCleared,
       NothingLost, Cleared, Check, AgentFailed, Goto, Close, checkVars, workVars

\* The end of the stream keeps the invariant of its turn: the reply is whole.
LEMMA EndStreamKeeps ==
  ASSUME TypeOK, NEW t \in Turns, TurnInv(t), EndStream(t)
  PROVE  TurnInv(t)'
BY DEF TypeOK, TurnInv, BeforeAgent, Started, Streaming, Replied, MessageCleared, ReplyCleared,
       NothingLost, Cleared, Check, EndStream, NeedsFallback, Conclude, Remembers, Goto, checkVars, workVars

\* The answer to the OUTPUT evaluation keeps the invariant of its turn.
LEMMA ScreenOutputKeeps ==
  ASSUME TypeOK, NEW t \in Turns, TurnInv(t), ScreenOutput(t)
  PROVE  TurnInv(t)'
BY DEF TypeOK, TurnInv, BeforeAgent, Started, Streaming, Replied, MessageCleared, ReplyCleared,
       NothingLost, Cleared, Check, ScreenOutput, Deliver, Intervene, Goto, Close, Screened, Blocked, workVars

\* Resuming after the checked reply keeps the invariant of its turn.
LEMMA ResumeKeeps ==
  ASSUME TypeOK, NEW t \in Turns, TurnInv(t), Resume(t)
  PROVE  TurnInv(t)'
BY DEF TypeOK, TurnInv, BeforeAgent, Started, Streaming, Replied, MessageCleared, ReplyCleared,
       NothingLost, Cleared, Check, Resume, Conclude, Remembers, Goto, checkVars, workVars

\* record_turn keeps the invariant of its turn.
LEMMA RecordKeeps ==
  ASSUME TypeOK, NEW t \in Turns, TurnInv(t), Record(t)
  PROVE  TurnInv(t)'
BY DEF TypeOK, TurnInv, BeforeAgent, Started, Streaming, Replied, MessageCleared, ReplyCleared,
       NothingLost, Cleared, Check, Record, AfterRecord, Goto, checkVars, workVars

\* The finally block keeps the invariant of its turn.
LEMMA SaveKeeps ==
  ASSUME TypeOK, NEW t \in Turns, TurnInv(t), Save(t)
  PROVE  TurnInv(t)'
BY DEF TypeOK, TurnInv, BeforeAgent, Started, Streaming, Replied, MessageCleared, ReplyCleared,
       NothingLost, Cleared, Check, Save, Goto, checkVars, workVars

\* A client that goes away keeps the invariant of its turn.
LEMMA DisconnectKeeps ==
  ASSUME TypeOK, NEW t \in Turns, TurnInv(t), Disconnect(t)
  PROVE  TurnInv(t)'
BY DEF TypeOK, TurnInv, BeforeAgent, Started, Streaming, Replied, MessageCleared, ReplyCleared,
       NothingLost, Cleared, Check, Disconnect, Goto, Close, checkVars, workVars

\* A callback of the agent keeps the invariant of its turn, also after the turn ended.
LEMMA EmitKeeps ==
  ASSUME TypeOK, NEW t \in Turns, TurnInv(t), Emit(t)
  PROVE  TurnInv(t)'
<1>1. PICK c \in Chunks : /\ queue' = [queue EXCEPT ![t] = Append(@, c)]
                          /\ said' = [said EXCEPT ![t] = Append(@, c)]
  BY DEF Emit
<1>0. reply[t] \in Seq(Chunks \union {Masked}) /\ queue[t] \in Seq(Chunks \union {Masked})
  BY DEF TypeOK, Text
<1>2. reply[t] \o Append(queue[t], c) = Append(reply[t] \o queue[t], c)
  <2>1. c \in Chunks \union {Masked}
    OBVIOUS
  <2>. QED  BY <1>0, <2>1, ConcatAppend
<1>3. said[t] = reply[t] \o queue[t] => said'[t] = reply'[t] \o queue'[t]
  BY <1>1, <1>2 DEF TypeOK, Emit, turnVars
<1>. QED  BY <1>1, <1>3
     DEF TypeOK, TurnInv, BeforeAgent, Started, Streaming, Replied, MessageCleared,
         ReplyCleared, NothingLost, Cleared, Emit, turnVars, checkVars

\* The return of run_conversation keeps the invariant of its turn.
LEMMA FinishKeeps ==
  ASSUME TypeOK, NEW t \in Turns, TurnInv(t), Finish(t)
  PROVE  TurnInv(t)'
<1>1. PICK text \in {<< >>} \union {<<c>> : c \in Chunks} :
         /\ final' = [final EXCEPT ![t] = text]
         /\ said' = [said EXCEPT ![t] = IF @ = << >> THEN text ELSE @]
  BY DEF Finish
<1>0. reply[t] \in Seq(Chunks \union {Masked}) /\ queue[t] \in Seq(Chunks \union {Masked})
  BY DEF TypeOK, Text
<1>2. reply[t] \o queue[t] = << >> => reply[t] = << >> /\ queue[t] = << >>
  BY <1>0, ConcatEmpty
<1>. QED  BY <1>1, <1>2
     DEF TypeOK, TurnInv, BeforeAgent, Started, Streaming, Replied, MessageCleared,
         ReplyCleared, NothingLost, Cleared, Finish, turnVars, checkVars

\* An exception in run_conversation keeps the invariant of its turn.
LEMMA CrashKeeps ==
  ASSUME TypeOK, NEW t \in Turns, TurnInv(t), Crash(t)
  PROVE  TurnInv(t)'
BY DEF TypeOK, TurnInv, BeforeAgent, Started, Streaming, Replied, MessageCleared, ReplyCleared,
       NothingLost, Cleared, Check, Crash, turnVars, checkVars

\* Every step keeps the invariant of every turn.
LEMMA TurnStep ==
  ASSUME TypeOK, NEW t \in Turns, TurnInv(t), Step(t)
  PROVE  TurnInv(t)'
BY RefuseKeeps, AdmitKeeps, ScreenInputKeeps, RetrieveKeeps, TakeDeltaKeeps, FallBackKeeps,
   AgentFailedKeeps, EndStreamKeeps, ScreenOutputKeeps, ResumeKeeps, RecordKeeps, SaveKeeps,
   DisconnectKeeps, EmitKeeps, FinishKeeps, CrashKeeps
   DEF Step, Proceed, RunAgent

-----------------------------------------------------------------------------
(* Memory.                                                                  *)

\* An ended turn whose worker is done does not change any more.
LEMMA EndedFrozen ==
  ASSUME TypeOK, NEW t \in Turns, Step(t),
         pc[t] \in {"closing", "closed"}, worker[t] = "done"
  PROVE  /\ pc'[t] \in {"closing", "closed"} /\ worker'[t] = "done"
         /\ heard'[t] = heard[t] /\ prompt'[t] = prompt[t] /\ notice'[t] = notice[t]
         /\ reply'[t] = reply[t] /\ message'[t] = message[t]
BY DEF TypeOK, Step, Proceed, RunAgent, Refuse, Admit, ScreenInput, Retrieve, TakeDelta, FallBack,
       AgentFailed, EndStream, ScreenOutput, Resume, Record, Save, Disconnect, Emit, Finish,
       Crash, Goto, checkVars, workVars

\* Only a turn that is recording adds to Memory, and it ends doing so.
LEMMA MemoryStep ==
  ASSUME TypeOK, NEW t \in Turns, Step(t), memory' # memory
  PROVE  /\ pc[t] = "recording" /\ memory' = Append(memory, EventOf(t))
         /\ pc'[t] = "closing" /\ notice'[t] = notice[t] /\ adrift' = adrift
         /\ worker'[t] = worker[t] /\ heard'[t] = heard[t] /\ prompt'[t] = prompt[t]
<1>1. Record(t)
  BY DEF Step, Proceed, RunAgent, Refuse, Admit, ScreenInput, Retrieve, TakeDelta, FallBack,
         AgentFailed, EndStream, ScreenOutput, Resume, Save, Disconnect, Emit, Finish, Crash, memVars
<1>. QED  BY <1>1 DEF TypeOK, Record, AfterRecord, Goto, checkVars, workVars

\* A record that is appended is the last of Memory.
LEMMA RecordAdded ==
  ASSUME TypeOK, NEW t \in Turns, memory' = Append(memory, EventOf(t))
  PROVE  /\ Len(memory) \in Nat /\ Len(memory') = Len(memory) + 1
         /\ memory'[Len(memory) + 1] = EventOf(t) /\ EventOf(t).turn = t
         /\ EventOf(t).assistant = reply[t] /\ EventOf(t).user = message[t]
         /\ \A i \in 1..Len(memory) : memory'[i] = memory[i]
BY DEF TypeOK, EventOf

\* A true record of an ended turn that has none keeps the invariant of Memory.
LEMMA RecordsStayTrue ==
  ASSUME TypeOK, NEW t \in Turns, memory' = Append(memory, EventOf(t)),
         \A i \in 1..Len(memory) : memory[i].turn # t,
         /\ pc'[t] \in {"closing", "closed"} /\ worker'[t] = "done"
         /\ reply[t] = heard'[t] /\ message[t] = prompt'[t]
         /\ notice'[t] \in {"none", "disconnected"},
         \A i \in 1..Len(memory) : LET u == memory[i].turn IN
           /\ pc'[u] \in {"closing", "closed"} /\ worker'[u] = "done"
           /\ memory[i].assistant = heard'[u] /\ memory[i].user = prompt'[u]
           /\ notice'[u] \in {"none", "disconnected"},
         MemoryInv,
         \A u \in Turns : Unrecorded(u)'
  PROVE  MemoryInv'
<1> DEFINE n == Len(memory)
           e == EventOf(t)
<1>1. /\ n \in Nat /\ Len(memory') = n + 1 /\ memory'[n + 1] = e
      /\ e.turn = t /\ e.assistant = reply[t] /\ e.user = message[t]
      /\ \A i \in 1..n : memory'[i] = memory[i]
  BY RecordAdded
<1>2. ASSUME NEW i \in 1..Len(memory')
      PROVE  LET u == memory'[i].turn IN
             /\ pc'[u] \in {"closing", "closed"} /\ worker'[u] = "done"
             /\ memory'[i].assistant = heard'[u] /\ memory'[i].user = prompt'[u]
             /\ notice'[u] \in {"none", "disconnected"}
  <2>1. CASE i = n + 1
    BY <1>1, <2>1
  <2>2. CASE i \in 1..n
    BY <1>1, <2>2
  <2>. QED  BY <1>1, <2>1, <2>2
<1>3. ASSUME NEW i \in 1..Len(memory'), NEW j \in 1..Len(memory'),
             memory'[i].turn = memory'[j].turn
      PROVE  i = j
  BY <1>1, <1>3 DEF MemoryInv
<1>. QED  BY <1>2, <1>3 DEF MemoryInv

\* A step of a turn keeps what is known of a record on its way.
LEMMA UnrecordedKept ==
  ASSUME TypeOK, \A t \in Turns : TurnInv(t), MemoryInv, NEW t \in Turns, Step(t), NEW u \in Turns
  PROVE  Unrecorded(u)'
<1> SUFFICES ASSUME adrift'[u] = "recording" PROVE Unrecorded(u)'
  BY DEF Unrecorded
<1>1. ASSUME memory' # memory
      PROVE  /\ Len(memory) \in Nat /\ Len(memory') = Len(memory) + 1
             /\ memory'[Len(memory) + 1].turn = t
             /\ \A i \in 1..Len(memory) : memory'[i] = memory[i]
  BY <1>1, MemoryStep, RecordAdded
<1>2. CASE adrift[u] = "recording"
  <2>1. /\ pc[u] \in {"closing", "closed"} /\ worker[u] = "done" /\ notice[u] = "disconnected"
        /\ heard[u] = reply[u] /\ prompt[u] = message[u]
        /\ \A i \in 1..Len(memory) : memory[i].turn # u
    BY <1>2 DEF MemoryInv, Unrecorded
  <2>2. /\ pc'[u] \in {"closing", "closed"} /\ worker'[u] = "done"
        /\ notice'[u] = "disconnected" /\ heard'[u] = reply'[u] /\ prompt'[u] = message'[u]
    <3>1. CASE u = t
      BY <2>1, <3>1, EndedFrozen
    <3>2. CASE u # t
      BY <2>1, <3>2, OthersUnchanged DEF SameTurn
    <3>. QED  BY <3>1, <3>2
  <2>3. \A i \in 1..Len(memory') : memory'[i].turn # u
    <3>1. CASE memory' = memory
      BY <2>1, <3>1
    <3>2. CASE memory' # memory
      <4>1. u # t
        BY <2>1, <3>2, MemoryStep
      <4>. QED  BY <1>1, <2>1, <3>2, <4>1
    <3>. QED  BY <3>1, <3>2
  <2>. QED  BY <2>2, <2>3 DEF Unrecorded
<1>3. CASE adrift[u] # "recording"
  <2>1. u = t /\ Disconnect(t) /\ pc[t] = "recording"
    BY <1>3, CallsLeft
  <2>2. /\ worker[t] = "done" /\ heard[t] = reply[t] /\ prompt[t] = message[t]
    BY <2>1 DEF TurnInv, Replied, Started
  <2>3. \A i \in 1..Len(memory) : memory[i].turn # t
    BY <2>1 DEF MemoryInv
  <2>4. /\ memory' = memory /\ worker'[t] = "done" /\ heard'[t] = reply'[t]
        /\ prompt'[t] = message'[t] /\ pc'[t] = "closing" /\ notice'[t] = "disconnected"
    BY <2>1, <2>2 DEF TypeOK, Disconnect, Close, Goto, workVars
  <2>. QED  BY <2>1, <2>3, <2>4 DEF Unrecorded
<1>. QED  BY <1>2, <1>3

\* Every step keeps the invariant of Memory: records stay true and single.
LEMMA MemoryKept ==
  ASSUME TypeOK, \A t \in Turns : TurnInv(t), MemoryInv, NEW t \in Turns, Step(t)
  PROVE  MemoryInv'
<1>1. ASSUME NEW i \in 1..Len(memory)
      PROVE  LET u == memory[i].turn IN
             /\ pc'[u] \in {"closing", "closed"} /\ worker'[u] = "done"
             /\ memory[i].assistant = heard'[u] /\ memory[i].user = prompt'[u]
             /\ notice'[u] \in {"none", "disconnected"}
  <2> DEFINE u == memory[i].turn
  <2>1. u \in Turns
    <3>1. memory[i] \in [turn : Turns, user : Words, assistant : Text]
      BY ElementOfSeq DEF TypeOK, Words
    <3>. QED  BY <3>1
  <2>2. /\ pc[u] \in {"closing", "closed"} /\ worker[u] = "done"
        /\ memory[i].assistant = heard[u] /\ memory[i].user = prompt[u]
        /\ notice[u] \in {"none", "disconnected"}
    BY DEF MemoryInv
  <2>3. CASE u = t
    BY <2>2, <2>3, EndedFrozen
  <2>4. CASE u # t
    BY <2>1, <2>2, <2>4, OthersUnchanged DEF SameTurn
  <2>. QED  BY <2>3, <2>4
<1>0. \A u \in Turns : Unrecorded(u)'
  BY UnrecordedKept
<1>2. CASE memory' = memory
  BY <1>0, <1>1, <1>2 DEF MemoryInv
<1>3. CASE memory' # memory
  <2>1. /\ pc[t] = "recording" /\ memory' = Append(memory, EventOf(t))
        /\ pc'[t] = "closing" /\ notice'[t] = notice[t]
        /\ worker'[t] = worker[t] /\ heard'[t] = heard[t] /\ prompt'[t] = prompt[t]
    BY <1>3, MemoryStep
  <2>2. /\ worker[t] = "done" /\ notice[t] = "none" /\ heard[t] = reply[t]
        /\ prompt[t] = message[t]
    BY <2>1 DEF TurnInv, Replied, Started
  <2>3. \A i \in 1..Len(memory) : memory[i].turn # t
    BY <2>1 DEF MemoryInv
  <2>. QED  BY <1>0, <1>1, <2>1, <2>2, <2>3, RecordsStayTrue
<1>. QED  BY <1>2, <1>3

\* A call that ends after its turn keeps the invariant of Memory: if it was to record
\* the turn, the record is the first and a true one.
LEMMA LateKept ==
  ASSUME TypeOK, MemoryInv, NEW t \in Turns, Late(t)
  PROVE  MemoryInv'
<1>1. UNCHANGED <<pc, heard, prompt, worker, notice, reply, message>>
  BY LateLeavesTurns
<1>2. adrift' = [adrift EXCEPT ![t] = "none"]
  BY DEF Late, LateReady, LateRecord
<1>3. memory' = memory \/ (memory' = Append(memory, EventOf(t)) /\ adrift[t] = "recording")
  BY DEF Late, LateReady, LateRecord
<1>4. CASE memory' = memory
  BY <1>1, <1>2, <1>4 DEF TypeOK, MemoryInv, Unrecorded
<1>5. CASE memory' = Append(memory, EventOf(t)) /\ adrift[t] = "recording"
  <2>1. /\ pc[t] \in {"closing", "closed"} /\ worker[t] = "done" /\ notice[t] = "disconnected"
        /\ heard[t] = reply[t] /\ prompt[t] = message[t]
        /\ \A i \in 1..Len(memory) : memory[i].turn # t
    BY <1>5 DEF MemoryInv, Unrecorded
  <2>2. ASSUME NEW u \in Turns PROVE Unrecorded(u)'
    <3>1. CASE u = t
      BY <1>2, <3>1 DEF TypeOK, Unrecorded
    <3>2. CASE u # t
      <4>1. adrift'[u] = adrift[u] /\ Unrecorded(u)
        BY <1>2, <3>2 DEF TypeOK, MemoryInv
      <4>2. /\ Len(memory) \in Nat /\ Len(memory') = Len(memory) + 1
            /\ memory'[Len(memory) + 1].turn = t
            /\ \A i \in 1..Len(memory) : memory'[i] = memory[i]
        BY <1>5, RecordAdded
      <4>. QED  BY <1>1, <3>2, <4>1, <4>2 DEF Unrecorded
    <3>. QED  BY <3>1, <3>2
  <2>3. \A i \in 1..Len(memory) : LET u == memory[i].turn IN
           /\ pc'[u] \in {"closing", "closed"} /\ worker'[u] = "done"
           /\ memory[i].assistant = heard'[u] /\ memory[i].user = prompt'[u]
           /\ notice'[u] \in {"none", "disconnected"}
    BY <1>1 DEF MemoryInv
  <2>. QED  BY <1>1, <1>5, <2>1, <2>2, <2>3, RecordsStayTrue
<1>. QED  BY <1>3, <1>4, <1>5

\* A turn with a notice is past its try block.
LEMMA NoticeEnds ==
  ASSUME IInv, NEW t \in Turns, notice[t] # "none"
  PROVE  pc[t] \in {"closing", "closed"}
BY DEF IInv, TypeOK, Labels, TurnInv, BeforeAgent, Streaming, Replied

\* After a notice, nothing of the turn that the client or Memory sees changes.
LEMMA NoticeFrozen ==
  ASSUME TypeOK, NEW t \in Turns, Step(t), pc[t] \in {"closing", "closed"}
  PROVE  UNCHANGED <<heard[t], notice[t], prompt[t]>>
BY DEF TypeOK, Step, Proceed, RunAgent, Refuse, Admit, ScreenInput, Retrieve, TakeDelta, FallBack,
       AgentFailed, EndStream, ScreenOutput, Resume, Record, Save, Disconnect, Emit, Finish,
       Crash, Goto, turnVars, checkVars, workVars

-----------------------------------------------------------------------------
(* The theorems.                                                            *)

\* The invariant holds initially.
LEMMA InvInit == Init => IInv
<1> SUFFICES ASSUME Init PROVE IInv
  OBVIOUS
<1>1. TypeOK
  BY TypeInit
<1>2. ASSUME NEW t \in Turns PROVE TurnInv(t)
  BY DEF Init, TurnInv, BeforeAgent, Started, Streaming, Replied
<1>3. MemoryInv
  BY DEF Init, MemoryInv, Unrecorded
<1>. QED  BY <1>1, <1>2, <1>3 DEF IInv

\* Every step keeps the invariant.
LEMMA InvNext == IInv /\ [Next]_vars => IInv'
<1> SUFFICES ASSUME IInv, [Next]_vars PROVE IInv'
  OBVIOUS
<1>1. TypeOK'
  BY TypeNext DEF IInv
<1>2. UNCHANGED <<env, payload>>
  BY SettingsFixed
<1>3. CASE \E t \in Turns : Step(t)
  <2>1. PICK t \in Turns : Step(t)
    BY <1>3
  <2>2. ASSUME NEW u \in Turns PROVE TurnInv(u)'
    <3>1. CASE u = t
      BY <2>1, <3>1, TurnStep DEF IInv
    <3>2. CASE u # t
      BY <1>2, <2>1, <3>2, OthersUnchanged, Frame DEF IInv
    <3>. QED  BY <3>1, <3>2
  <2>3. MemoryInv'
    BY <2>1, MemoryKept DEF IInv
  <2>. QED  BY <1>1, <2>2, <2>3 DEF IInv
<1>4. CASE Provision \/ UNCHANGED vars
  <2>1. /\ UNCHANGED memory
        /\ \A u \in Turns : SameTurn(u)
        /\ UNCHANGED <<pc, heard, prompt, worker, notice, reply, message, adrift>>
    BY <1>4 DEF Provision, vars, SameTurn, turnVars, checkVars, workVars, memVars
  <2>2. ASSUME NEW u \in Turns PROVE TurnInv(u)'
    BY <1>2, <2>1, Frame DEF IInv
  <2>3. MemoryInv'
    BY <2>1 DEF IInv, MemoryInv, Unrecorded
  <2>. QED  BY <1>1, <2>2, <2>3 DEF IInv
<1>5. CASE \E t \in Turns : Late(t)
  <2>1. PICK t \in Turns : Late(t)
    BY <1>5
  <2>2. ASSUME NEW u \in Turns PROVE TurnInv(u)'
    BY <1>2, <2>1, LateLeavesTurns, Frame DEF IInv
  <2>3. MemoryInv'
    BY <2>1, LateKept DEF IInv
  <2>. QED  BY <1>1, <2>2, <2>3 DEF IInv
<1>. QED  BY <1>3, <1>4, <1>5 DEF Next, Step

\* Every reachable state is of the declared types.
THEOREM TypeCorrect == Spec => []TypeOK
BY TypeInit, TypeNext, PTL DEF Spec

\* The inductive invariant holds of every behaviour.
THEOREM Invariant == Spec => []IInv
BY InvInit, InvNext, PTL DEF Spec

\* With a Guardrail configured only cleared text reaches the client, for any
\* answers of the service and any interleaving of turns (main.py:348-368).
THEOREM ScreenedOutput == Spec => []OnlyClearedTextIsHeard
<1>1. IInv => OnlyClearedTextIsHeard
  BY DEF IInv, TurnInv, Replied, ReplyCleared, OnlyClearedTextIsHeard
<1>. QED  BY <1>1, Invariant, PTL

\* With a Guardrail configured the agent only runs on a cleared message
\* (main.py:297-312).
THEOREM ScreenedInput == Spec => []OnlyClearedMessageIsUsed
<1>1. IInv => OnlyClearedMessageIsUsed
  BY DEF IInv, TurnInv, Started, MessageCleared, OnlyClearedMessageIsUsed
<1>. QED  BY <1>1, Invariant, PTL

\* What is in Memory is what was said, whole and once (main.py:370-378).
THEOREM FaithfulMemory == Spec => []MemoryMatchesConversation
<1>1. IInv => MemoryMatchesConversation
  BY DEF IInv, MemoryInv, MemoryMatchesConversation
<1>. QED  BY <1>1, Invariant, PTL

\* A client that stayed and got no notice has the whole answer (streaming.py).
THEOREM WholeReply == Spec => []CompleteReply
<1>1. IInv => CompleteReply
  BY DEF IInv, TurnInv, Replied, ReplyCleared, Cleared, CompleteReply
<1>. QED  BY <1>1, Invariant, PTL

\* An ended turn stays ended, but for the record of a client lost while it was written
\* (main.py: the returns and the except clauses; memory.py: record_turn).
THEOREM EndIsFinal == Spec => NothingAfterTheEnd
<1>1. ASSUME IInv, [Next]_vars, NEW u \in Turns, notice[u] # "none"
      PROVE  /\ UNCHANGED <<heard[u], notice[u], prompt[u]>>
             /\ \/ adrift[u] = "recording"
                \/ \A i \in 1..Len(memory') : i > Len(memory) => memory'[i].turn # u
  <2>1. CASE \E t \in Turns : Step(t)
    <3>1. PICK t \in Turns : Step(t)
      BY <2>1
    <3>2. pc[u] \in {"closing", "closed"}
      BY <1>1, NoticeEnds
    <3>3. UNCHANGED <<heard[u], notice[u], prompt[u]>>
      BY <1>1, <3>1, <3>2, NoticeFrozen, OthersUnchanged DEF IInv, SameTurn
    <3>4. CASE memory' = memory
      BY <1>1, <3>3, <3>4 DEF IInv, TypeOK
    <3>5. CASE memory' # memory
      <4>1. pc[t] = "recording" /\ memory' = Append(memory, EventOf(t))
        BY <1>1, <3>1, <3>5, MemoryStep DEF IInv
      <4>2. t # u
        BY <3>2, <4>1
      <4>3. Len(memory') = Len(memory) + 1 /\ memory'[Len(memory) + 1].turn = t
            /\ Len(memory) \in Nat
        BY <1>1, <4>1, RecordAdded DEF IInv
      <4>. QED  BY <3>3, <4>2, <4>3
    <3>. QED  BY <3>4, <3>5
  <2>2. CASE Provision \/ UNCHANGED vars
    <3>1. UNCHANGED <<heard, notice, prompt, memory>>
      BY <2>2 DEF Provision, vars, turnVars, workVars, memVars
    <3>. QED  BY <1>1, <3>1 DEF IInv, TypeOK
  <2>3. CASE \E t \in Turns : Late(t)
    <3>1. PICK t \in Turns : Late(t)
      BY <2>3
    <3>2. UNCHANGED <<heard[u], notice[u], prompt[u]>>
      BY <3>1, LateLeavesTurns
    <3>3. memory' = memory \/ (memory' = Append(memory, EventOf(t)) /\ adrift[t] = "recording")
      BY <3>1 DEF Late, LateReady, LateRecord
    <3>4. CASE memory' = memory
      BY <1>1, <3>2, <3>4 DEF IInv, TypeOK
    <3>5. CASE memory' = Append(memory, EventOf(t)) /\ adrift[t] = "recording"
      <4>1. Len(memory') = Len(memory) + 1 /\ memory'[Len(memory) + 1].turn = t
            /\ Len(memory) \in Nat
        BY <1>1, <3>5, RecordAdded DEF IInv
      <4>. QED  BY <3>2, <3>5, <4>1
    <3>. QED  BY <3>3, <3>4, <3>5
  <2>. QED  BY <1>1, <2>1, <2>2, <2>3 DEF Next, Step
<1>2. IInv /\ [Next]_vars =>
        [\A t \in Turns : notice[t] # "none" =>
           /\ UNCHANGED <<heard[t], notice[t], prompt[t]>>
           /\ \/ adrift[t] = "recording"
              \/ \A i \in 1..Len(memory') : i > Len(memory) => memory'[i].turn # t]_vars
  BY <1>1
<1>. QED  BY <1>2, Invariant, PTL DEF Spec, NothingAfterTheEnd
-----------------------------------------------------------------------------
(***************************************************************************)
(* Runtime implements TurnContract: its initial states map to initial      *)
(* states and its steps to steps or stutters.                              *)
(***************************************************************************)

Pieces == Chunks \union {Masked}

\* The mapped state.
PhaseBar == [t \in Turns |-> Phase(t)]
LedgerBar == [i \in 1..Len(memory) |-> <<memory[i].turn, memory[i].assistant>>]

\* What a step of turn t is to the contract.
Silent(t) == Phase(t)' = Phase(t) /\ heard'[t] = heard[t] /\ memory' = memory
Ends(t) ==
  /\ Phase(t) # "ended" /\ Phase(t)' = "ended"
  /\ heard'[t] = heard[t] /\ memory' = memory
Settles(t) ==
  /\ Phase(t) = "open" /\ Phase(t)' = "final"
  /\ heard'[t] = heard[t] /\ memory' = memory
Leaves(t) ==
  /\ Phase(t) = "final" /\ Phase(t)' = "left"
  /\ heard'[t] = heard[t] /\ memory' = memory
Keeps(t) ==
  /\ Phase(t) \in {"final", "left"} /\ Phase(t)' = "ended"
  /\ heard'[t] = heard[t] /\ EventOf(t).assistant = heard[t]
  /\ memory' = Append(memory, EventOf(t))
Says(t) ==
  /\ Phase(t) = "open" /\ Phase(t)' # "left" /\ memory' = memory
  /\ heard[t] = << >> \/ \E c \in Pieces : heard'[t] = Append(heard[t], c)

-----------------------------------------------------------------------------
(* Each action is one of these.                                             *)

\* The steps that may close a turn without anything said or recorded.
LEMMA QuietSteps ==
  ASSUME TypeOK, NEW t \in Turns, Unrecorded(t),
         Refuse(t) \/ Admit(t) \/ ScreenInput(t) \/ Retrieve(t) \/ FallBack(t)
           \/ AgentFailed(t) \/ EndStream(t) \/ Resume(t) \/ Save(t)
  PROVE  Silent(t) \/ Ends(t) \/ Settles(t)
<1> USE DEF TypeOK, Phase, Silent, Ends, Settles, Goto, Close, memVars, Unrecorded
<1>1. CASE Refuse(t)
  BY <1>1 DEF Refuse
<1>2. CASE Admit(t)
  BY <1>2 DEF Admit, Begin, Recall, StartAgent
<1>3. CASE ScreenInput(t)
  BY <1>3 DEF ScreenInput, Intervene, Recall, StartAgent
<1>4. CASE Retrieve(t)
  BY <1>4 DEF Retrieve, StartAgent
<1>5. CASE FallBack(t)
  BY <1>5 DEF FallBack, turnVars
<1>6. CASE AgentFailed(t)
  BY <1>6 DEF AgentFailed
<1>7. CASE EndStream(t)
  BY <1>7 DEF EndStream, Conclude
<1>8. CASE Resume(t)
  BY <1>8 DEF Resume, Conclude
<1>9. CASE Save(t)
  BY <1>9 DEF Save
<1>. QED  BY <1>1, <1>2, <1>3, <1>4, <1>5, <1>6, <1>7, <1>8, <1>9

\* The worker thread says nothing to the client by itself.
LEMMA WorkerSteps ==
  ASSUME TypeOK, NEW t \in Turns, RunAgent(t)
  PROVE  Silent(t)
BY DEF TypeOK, Phase, Silent, RunAgent, Emit, Finish, Crash, turnVars, memVars

\* A delta is said at once or kept for the check.
LEMMA DeltaStep ==
  ASSUME TypeOK, NEW t \in Turns, Unrecorded(t), TakeDelta(t)
  PROVE  Silent(t) \/ Says(t)
<1>1. Head(queue[t]) \in Pieces
  BY TakeKeeps DEF TypeOK, Text, TakeDelta, Pieces
<1>. QED  BY <1>1 DEF TypeOK, Phase, Silent, Says, TakeDelta, memVars, Unrecorded

\* The checked reply is all the client is told, and it was told nothing before.
LEMMA ReviewStep ==
  ASSUME TypeOK, NEW t \in Turns, TurnInv(t), Unrecorded(t), ScreenOutput(t)
  PROVE  Ends(t) \/ Says(t)
<1>1. heard[t] = << >> /\ pc[t] = "reviewing"
  BY DEF TurnInv, Streaming, ScreenOutput
<1>. QED  BY <1>1 DEF TypeOK, Phase, Ends, Says, ScreenOutput, memVars, Unrecorded

\* The turn is taken over by Memory or ends without, the client there or not.
LEMMA LastSteps ==
  ASSUME TypeOK, NEW t \in Turns, TurnInv(t), Unrecorded(t), Record(t) \/ Disconnect(t)
  PROVE  Ends(t) \/ Keeps(t) \/ Leaves(t)
<1>1. pc[t] = "recording" => EventOf(t).assistant = heard[t]
  BY DEF TurnInv, Replied, EventOf
<1>2. CASE Record(t)
  BY <1>1, <1>2 DEF TypeOK, Phase, Ends, Keeps, Record, AfterRecord, Goto, Unrecorded
<1>3. CASE Disconnect(t)
  BY <1>3 DEF TypeOK, Phase, Ends, Leaves, Disconnect, LeftBehind, Close, Goto, Unrecorded
<1>. QED  BY <1>2, <1>3

\* After the end of its turn a record comes or does not, or nothing is seen.
LEMMA LateSteps ==
  ASSUME TypeOK, NEW t \in Turns, Unrecorded(t), Late(t)
  PROVE  Silent(t) \/ Ends(t) \/ Keeps(t)
<1>1. CASE LateReady(t)
  BY <1>1 DEF TypeOK, Phase, Silent, LateReady, turnVars
<1>2. CASE LateRecord(t)
  <2>1. EventOf(t).assistant = heard[t] /\ Phase(t) = "left" /\ Phase(t)' = "ended"
    BY <1>2 DEF TypeOK, Phase, LateRecord, EventOf, Unrecorded, turnVars
  <2>. QED  BY <1>2, <2>1 DEF Ends, Keeps, LateRecord, turnVars
<1>. QED  BY <1>1, <1>2 DEF Late

\* Every step of a turn, or of a call it left behind, is one of the six.
LEMMA StepKinds ==
  ASSUME TypeOK, NEW t \in Turns, TurnInv(t), Unrecorded(t), Step(t) \/ Late(t)
  PROVE  Silent(t) \/ Ends(t) \/ Settles(t) \/ Leaves(t) \/ Keeps(t) \/ Says(t)
BY QuietSteps, WorkerSteps, DeltaStep, ReviewStep, LastSteps, LateSteps DEF Step, Proceed

-----------------------------------------------------------------------------
(* The mapping.                                                             *)

\* A record appended to Memory is a line appended to the ledger.
LEMMA LedgerAppend ==
  ASSUME TypeOK, NEW t \in Turns, memory' = Append(memory, EventOf(t))
  PROVE  LedgerBar' = Append(LedgerBar, <<t, EventOf(t).assistant>>)
<1> DEFINE R == [turn : Turns, user : Words, assistant : Text]
           n == Len(memory)
           line == <<t, EventOf(t).assistant>>
<1>1. memory \in Seq(R) /\ EventOf(t) \in R
  BY EventTypes DEF TypeOK, Words
<1>2. n \in Nat /\ Len(memory') = n + 1 /\ memory'[n + 1] = EventOf(t)
      /\ \A i \in 1..n : memory'[i] = memory[i]
  BY <1>1, AppendProperties, LenProperties
<1>3. EventOf(t).turn = t
  BY DEF EventOf
<1>4. Len(LedgerBar) = n
  BY <1>2 DEF LedgerBar
<1>5. Append(LedgerBar, line) = [i \in 1..(n + 1) |-> IF i = n + 1 THEN line ELSE LedgerBar[i]]
  BY <1>2, <1>4 DEF LedgerBar
<1>6. LedgerBar' = [i \in 1..(n + 1) |-> IF i = n + 1 THEN line ELSE LedgerBar[i]]
  BY <1>2, <1>3 DEF LedgerBar
<1>. QED  BY <1>5, <1>6

\* A text grows if it was empty or a piece is appended.
LEMMA GrowsFacts ==
  ASSUME NEW old \in Seq(Pieces), NEW new \in Seq(Pieces),
         old = << >> \/ \E c \in Pieces : new = Append(old, c)
  PROVE  Contract!Grows(old, new)
<1>1. CASE old = << >>
  <2>1. Len(old) = 0 /\ Len(new) \in Nat
    BY <1>1, EmptySeq, LenProperties
  <2>2. SubSeq(new, 1, 0) = << >>
    BY SubSeqEmpty
  <2>. QED  BY <1>1, <2>1, <2>2 DEF Contract!Grows
<1>2. ASSUME NEW c \in Pieces, new = Append(old, c) PROVE Contract!Grows(old, new)
  <2>1. /\ Len(old) \in Nat /\ Len(new) = Len(old) + 1
        /\ \A i \in 1..Len(old) : new[i] = old[i]
    BY <1>2, AppendProperties, LenProperties
  <2>2. \A i \in 1..Len(old) : new[i] \in Pieces
    BY <2>1, ElementOfSeq
  <2>3. /\ SubSeq(new, 1, Len(old)) \in Seq(Pieces)
        /\ Len(SubSeq(new, 1, Len(old))) = Len(old)
        /\ \A i \in 1..Len(old) : SubSeq(new, 1, Len(old))[i] = new[i]
    <3>1. 1 \in Int /\ Len(old) \in Int
      BY <2>1
    <3>2. /\ SubSeq(new, 1, Len(old)) \in Seq(Pieces)
          /\ Len(SubSeq(new, 1, Len(old))) = IF 1 <= Len(old) THEN Len(old) - 1 + 1 ELSE 0
          /\ \A i \in 1 .. Len(old) - 1 + 1 : SubSeq(new, 1, Len(old))[i] = new[1 + i - 1]
      BY <2>2, <3>1, SubSeqProperties
    <3>. QED  BY <2>1, <3>2
  <2>4. SubSeq(new, 1, Len(old)) = old
    BY <2>1, <2>3, SeqEqual
  <2>. QED  BY <2>1, <2>4 DEF Contract!Grows
<1>. QED  BY <1>1, <1>2

\* A step of a turn changes phase and text of no other.
LEMMA OnlyOne ==
  ASSUME TypeOK, TypeOK', NEW t \in Turns, Step(t) \/ Late(t)
  PROVE  /\ PhaseBar' = [PhaseBar EXCEPT ![t] = Phase(t)']
         /\ heard' = [heard EXCEPT ![t] = heard'[t]]
<1>1. ASSUME NEW u \in Turns, u # t PROVE Phase(u)' = Phase(u) /\ heard'[u] = heard[u]
  <2>1. CASE Step(t)
    BY <1>1, <2>1, OthersUnchanged, CallsLeft DEF SameTurn, Phase
  <2>2. CASE Late(t)
    <3>1. pc' = pc /\ heard' = heard /\ adrift' = [adrift EXCEPT ![t] = "none"]
      BY <2>2, LateLeavesTurns DEF Late, LateReady, LateRecord
    <3>. QED  BY <1>1, <3>1 DEF TypeOK, Phase
  <2>. QED  BY <2>1, <2>2
<1>2. PhaseBar' = [PhaseBar EXCEPT ![t] = Phase(t)']
  BY <1>1 DEF PhaseBar
<1>3. heard \in [Turns -> Text] /\ heard' \in [Turns -> Text]
  BY DEF TypeOK
<1>. QED  BY <1>1, <1>2, <1>3

\* A step of a turn is a step of the contract or a stutter.
LEMMA StepMaps ==
  ASSUME TypeOK, TypeOK', NEW t \in Turns, TurnInv(t), Unrecorded(t), Step(t) \/ Late(t)
  PROVE  [Contract!Next]_(Contract!vars)
<1> USE DEF Contract!Next, Contract!vars
<1>1. /\ PhaseBar' = [PhaseBar EXCEPT ![t] = Phase(t)']
      /\ heard' = [heard EXCEPT ![t] = heard'[t]]
  BY OnlyOne
<1>2. PhaseBar[t] = Phase(t) /\ PhaseBar = [PhaseBar EXCEPT ![t] = Phase(t)]
  BY DEF PhaseBar
<1>3. memory' = memory => LedgerBar' = LedgerBar
  BY DEF LedgerBar
<1>4. heard'[t] = heard[t] => heard' = heard
  BY <1>1 DEF TypeOK
<1>5. CASE Silent(t)
  BY <1>1, <1>2, <1>3, <1>4, <1>5 DEF Silent, PhaseBar, LedgerBar
<1>6. CASE Ends(t)
  <2>1. Contract!End(t) \/ Contract!Drop(t)
    BY <1>1, <1>2, <1>3, <1>4, <1>6 DEF Ends, Contract!End, Contract!Drop, PhaseBar, LedgerBar, Phase
  <2>. QED  BY <2>1
<1>7. CASE Settles(t)
  <2>1. Contract!Settle(t)
    BY <1>1, <1>2, <1>3, <1>4, <1>7 DEF Settles, Contract!Settle, PhaseBar, LedgerBar
  <2>. QED  BY <2>1
<1>10. CASE Leaves(t)
  <2>1. Contract!Leave(t)
    BY <1>1, <1>2, <1>3, <1>4, <1>10 DEF Leaves, Contract!Leave, PhaseBar, LedgerBar
  <2>. QED  BY <2>1
<1>8. CASE Keeps(t)
  <2>1. LedgerBar' = Append(LedgerBar, <<t, heard[t]>>)
    BY <1>8, LedgerAppend DEF Keeps
  <2>2. Contract!Keep(t)
    BY <1>1, <1>2, <1>4, <1>8, <2>1 DEF Keeps, Contract!Keep, PhaseBar, LedgerBar
  <2>. QED  BY <2>2
<1>9. CASE Says(t)
  <2>1. heard[t] \in Seq(Pieces) /\ heard'[t] \in Seq(Pieces)
    BY DEF TypeOK, Text, Pieces
  <2>2. Contract!Grows(heard[t], heard'[t])
    BY <1>9, <2>1, GrowsFacts DEF Says
  <2>3. Phase(t)' \in {"open", "final", "ended"}
    BY <1>9 DEF Says, Phase
  <2>4. Contract!Say(t)
    BY <1>1, <1>2, <1>3, <1>9, <2>1, <2>2, <2>3 DEF Says, Contract!Say, PhaseBar, LedgerBar, Pieces
  <2>. QED  BY <2>4
<1>. QED  BY <1>5, <1>6, <1>7, <1>8, <1>9, <1>10, StepKinds

\* The runtime implements the contract: what a client is told only grows, a turn
\* ends once, and Memory takes it over once at most, final and as it was told, after
\* its end only for a client that left meanwhile (main.py: invoke).
THEOREM Refinement == Spec => Contract!Spec
<1>1. Init => Contract!Init
  BY DEF Init, Contract!Init, Phase
<1>2. IInv /\ IInv' /\ [Next]_vars => [Contract!Next]_(Contract!vars)
  <2> SUFFICES ASSUME IInv, IInv', [Next]_vars PROVE [Contract!Next]_(Contract!vars)
    OBVIOUS
  <2>1. CASE \E t \in Turns : Step(t) \/ Late(t)
    BY <2>1, StepMaps DEF IInv, MemoryInv
  <2>2. CASE Provision \/ UNCHANGED vars
    BY <2>2 DEF Provision, vars, turnVars, memVars, Contract!vars, Phase
  <2>. QED  BY <2>1, <2>2 DEF Next, Step
<1>. QED  BY <1>1, <1>2, Invariant, PTL DEF Spec, Contract!Spec
-----------------------------------------------------------------------------
(***************************************************************************)
(* How a turn ends.  That it ends is EveryTurnEnds, under fairness; without *)
(* fairness it can be proved that every step of a turn takes it nearer its *)
(* end and that nothing sets it back, so that a turn has a bounded number  *)
(* of steps whatever the client, the services and the agent do.            *)
(***************************************************************************)

\* How far the generator is from its last step.
Place ==
  [new |-> 8, screening |-> 7, recalling |-> 6, streaming |-> 5, reviewing |-> 4,
   delivered |-> 3, recording |-> 2, closing |-> 1, closed |-> 0, refused |-> 0]

\* How many steps of the agent's thread, and takes of what it emits, are left at
\* most: for a thread w that has emitted s, of which q waits, and returned f.
Work(w, s, q, f) ==
  CASE w \in {"none", "running"} -> 2 * (MaxDeltas - Len(s)) + Len(q) + 4
    [] w = "done" -> 2 * Len(f) + Len(q)
    [] OTHER -> Len(q)

WorkLeft(t) == Work(worker[t], said[t], queue[t], final[t])
Left(t) == Place[pc[t]] + WorkLeft(t)

\* A step of another turn, or of none, leaves this one as it is; one of its own takes
\* it nearer its end.
TurnsComeToAnEnd == [][\A t \in Turns : SameTurn(t) \/ Left(t)' < Left(t)]_vars

\* A turn has at most 2 * MaxDeltas + 12 steps left.
LeftBounded(t) == Left(t) \in 0..(2 * MaxDeltas + 12)

\* A thread that may go on has not emitted more than it can.
SaidBounded(t) == worker[t] \in {"none", "running"} => Len(said[t]) <= MaxDeltas

\* A generator that waits on the queue has a thread that was started, and after its
\* last step the workspace was saved if there is a bucket.
WellEnded(t) ==
  /\ pc[t] = "streaming" => worker[t] # "none"
  /\ pc[t] = "closed" => saved[t] = env.bucket

\* The generator goes on; its thread, if anything, is started.
Advances(t) ==
  /\ Place[pc'[t]] < Place[pc[t]]
  /\ worker'[t] = worker[t] \/ (worker[t] = "none" /\ worker'[t] = "running")
  /\ queue'[t] = queue[t] /\ final'[t] = final[t] /\ said'[t] = said[t]

\* The thread or the queue goes on and the generator stays where it is suspended.
Works(t) == pc'[t] = pc[t] /\ WorkLeft(t)' < WorkLeft(t)

\* The places in numbers.
LEMMA PlaceFacts ==
  /\ \A label \in Labels : Place[label] \in 0..8
  /\ Place["new"] = 8 /\ Place["screening"] = 7 /\ Place["recalling"] = 6
  /\ Place["streaming"] = 5 /\ Place["reviewing"] = 4 /\ Place["delivered"] = 3
  /\ Place["recording"] = 2 /\ Place["closing"] = 1
  /\ Place["closed"] = 0 /\ Place["refused"] = 0
BY DEF Place, Labels

\* The work in numbers.
LEMMA WorkFacts ==
  ASSUME NEW w, NEW s \in Text, NEW q \in Text, NEW f \in Text
  PROVE  /\ Len(s) \in Nat /\ Len(q) \in Nat /\ Len(f) \in Nat
         /\ w \in {"none", "running"} => Work(w, s, q, f) = 2 * (MaxDeltas - Len(s)) + Len(q) + 4
         /\ w = "done" => Work(w, s, q, f) = 2 * Len(f) + Len(q)
         /\ w = "failed" => Work(w, s, q, f) = Len(q)
<1>1. Len(s) \in Nat /\ Len(q) \in Nat /\ Len(f) \in Nat
  BY LenProperties DEF Text
<1>. QED  BY <1>1 DEF Work

\* The work left is a number as long as the thread has not emitted too much.
LEMMA WorkIsNat ==
  ASSUME NEW w \in {"none", "running", "done", "failed"},
         NEW s \in Text, NEW q \in Text, NEW f \in Text,
         w \in {"none", "running"} => Len(s) <= MaxDeltas
  PROVE  Work(w, s, q, f) \in Nat
<1>1. Len(s) \in Nat /\ Len(q) \in Nat /\ Len(f) \in Nat /\ MaxDeltas \in Nat
  BY LenProperties, RuntimeAssumption DEF Text
<1>2. CASE w \in {"none", "running"}
  <2>1. MaxDeltas - Len(s) \in Nat
    BY <1>1, <1>2
  <2>2. 2 * (MaxDeltas - Len(s)) \in Nat
    BY <2>1
  <2>. QED  BY <1>1, <1>2, <2>2, WorkFacts
<1>3. CASE w \in {"done", "failed"}
  BY <1>1, <1>3 DEF Work
<1>. QED  BY <1>2, <1>3

\* The functions a step of a turn changes at that turn.
AreOfTurns ==
  /\ DOMAIN pc = Turns /\ DOMAIN worker = Turns /\ DOMAIN queue = Turns
  /\ DOMAIN final = Turns /\ DOMAIN said = Turns /\ DOMAIN reply = Turns
  /\ DOMAIN saved = Turns

\* The first stretches of a turn, up to the start of the agent's thread.
LEMMA OpeningAdvances ==
  ASSUME AreOfTurns, NEW t \in Turns, BeforeAgent(t),
         Refuse(t) \/ Admit(t) \/ ScreenInput(t) \/ Retrieve(t)
  PROVE  Advances(t)
<1> USE PlaceFacts DEF AreOfTurns, Advances, Goto, Close
<1>1. CASE Refuse(t)
  BY <1>1 DEF Refuse, workVars
<1>2. CASE Admit(t)
  BY <1>2 DEF Admit, Begin, Recall, StartAgent, BeforeAgent
<1>3. CASE ScreenInput(t)
  BY <1>3 DEF ScreenInput, Intervene, Recall, StartAgent, BeforeAgent
<1>4. CASE Retrieve(t)
  BY <1>4 DEF Retrieve, StartAgent, BeforeAgent
<1>. QED  BY <1>1, <1>2, <1>3, <1>4

\* The stretches after the stream, and a client that goes away.
LEMMA ClosingAdvances ==
  ASSUME AreOfTurns, NEW t \in Turns,
         \/ AgentFailed(t) \/ EndStream(t) \/ ScreenOutput(t) \/ Resume(t)
         \/ Record(t) \/ Save(t) \/ Disconnect(t)
  PROVE  Advances(t)
<1> USE PlaceFacts DEF AreOfTurns, Advances, Goto, Close, workVars
<1>1. CASE AgentFailed(t)
  BY <1>1 DEF AgentFailed
<1>2. CASE EndStream(t)
  BY <1>2 DEF EndStream, Conclude
<1>3. CASE ScreenOutput(t)
  BY <1>3 DEF ScreenOutput, Deliver, Intervene
<1>4. CASE Resume(t)
  BY <1>4 DEF Resume, Conclude
<1>5. CASE Record(t)
  BY <1>5 DEF Record, AfterRecord
<1>6. CASE Save(t)
  BY <1>6 DEF Save
<1>7. CASE Disconnect(t)
  BY <1>7 DEF Disconnect
<1>. QED  BY <1>1, <1>2, <1>3, <1>4, <1>5, <1>6, <1>7

\* What the steps below do to the sum, in numbers.
LEMMA SumFacts ==
  ASSUME NEW m \in Nat, NEW l \in Nat, NEW q \in Nat
  PROVE  /\ 2 * (m - (l + 1)) + (q + 1) + 4 < 2 * (m - l) + q + 4
         /\ 2 * (m - l) + q + 4 < 2 * (m - l) + (q + 1) + 4
         /\ 2 * l + q < 2 * l + (q + 1)
         /\ 2 * (m - l) + q + 4 \in Int
         /\ l <= m => 2 * (m - l) + q + 4 >= q + 4
OBVIOUS

\* A step of the thread, or one that takes what it put on the queue.
LEMMA WorkingWorks ==
  ASSUME TypeOK, TypeOK', AreOfTurns, NEW t \in Turns, SaidBounded(t),
         TakeDelta(t) \/ FallBack(t) \/ Emit(t) \/ Finish(t) \/ Crash(t)
  PROVE  Works(t)
<1>0. /\ said[t] \in Text /\ queue[t] \in Text /\ final[t] \in Text
      /\ said'[t] \in Text /\ queue'[t] \in Text /\ final'[t] \in Text
      /\ worker[t] \in {"none", "running", "done", "failed"} /\ MaxDeltas \in Nat
  BY RuntimeAssumption DEF TypeOK
<1>1. /\ Len(said[t]) \in Nat /\ Len(queue[t]) \in Nat /\ Len(final[t]) \in Nat
      /\ worker[t] \in {"none", "running"} =>
           WorkLeft(t) = 2 * (MaxDeltas - Len(said[t])) + Len(queue[t]) + 4
      /\ worker[t] = "done" => WorkLeft(t) = 2 * Len(final[t]) + Len(queue[t])
      /\ worker[t] = "failed" => WorkLeft(t) = Len(queue[t])
  <2>. DEFINE w == worker[t]
              s == said[t]
              q == queue[t]
              f == final[t]
  <2>1. s \in Text /\ q \in Text /\ f \in Text /\ WorkLeft(t) = Work(w, s, q, f)
    BY <1>0 DEF WorkLeft
  <2>. HIDE DEF w, s, q, f
  <2>2. /\ Len(s) \in Nat /\ Len(q) \in Nat /\ Len(f) \in Nat
        /\ w \in {"none", "running"} => WorkLeft(t) = 2 * (MaxDeltas - Len(s)) + Len(q) + 4
        /\ w = "done" => WorkLeft(t) = 2 * Len(f) + Len(q)
        /\ w = "failed" => WorkLeft(t) = Len(q)
    BY <2>1, WorkFacts
  <2>. QED  BY <2>2 DEF w, s, q, f
<1>2. /\ Len(said'[t]) \in Nat /\ Len(queue'[t]) \in Nat /\ Len(final'[t]) \in Nat
      /\ worker'[t] \in {"none", "running"} =>
           WorkLeft(t)' = 2 * (MaxDeltas - Len(said'[t])) + Len(queue'[t]) + 4
      /\ worker'[t] = "done" => WorkLeft(t)' = 2 * Len(final'[t]) + Len(queue'[t])
      /\ worker'[t] = "failed" => WorkLeft(t)' = Len(queue'[t])
  <2>. DEFINE w == worker'[t]
              s == said'[t]
              q == queue'[t]
              f == final'[t]
  <2>1. s \in Text /\ q \in Text /\ f \in Text /\ WorkLeft(t)' = Work(w, s, q, f)
    BY <1>0 DEF WorkLeft
  <2>. HIDE DEF w, s, q, f
  <2>2. /\ Len(s) \in Nat /\ Len(q) \in Nat /\ Len(f) \in Nat
        /\ w \in {"none", "running"} => WorkLeft(t)' = 2 * (MaxDeltas - Len(s)) + Len(q) + 4
        /\ w = "done" => WorkLeft(t)' = 2 * Len(f) + Len(q)
        /\ w = "failed" => WorkLeft(t)' = Len(q)
    BY <2>1, WorkFacts
  <2>. QED  BY <2>2 DEF w, s, q, f
<1>3. CASE TakeDelta(t)
  <2>1. queue[t] # << >> /\ queue'[t] = Tail(queue[t])
    BY <1>3 DEF TakeDelta, AreOfTurns
  <2>2. Len(queue[t]) = Len(queue'[t]) + 1
    BY <1>0, <2>1, HeadTailProperties DEF Text
  <2>3. worker' = worker /\ final' = final /\ said' = said /\ pc' = pc
    BY <1>3 DEF TakeDelta
  <2>4. CASE worker[t] \in {"none", "running"}
    BY <1>0, <1>1, <1>2, <2>2, <2>3, <2>4, SumFacts DEF Works
  <2>5. CASE worker[t] = "done"
    BY <1>0, <1>1, <1>2, <2>2, <2>3, <2>5, SumFacts DEF Works
  <2>6. CASE worker[t] = "failed"
    BY <1>1, <1>2, <2>2, <2>3, <2>6 DEF Works
  <2>. QED  BY <1>0, <2>4, <2>5, <2>6
<1>4. CASE FallBack(t)
  <2>1. /\ queue[t] = << >> /\ final[t] # << >> /\ queue'[t] = final[t] /\ final'[t] = << >>
        /\ worker[t] = "done" /\ worker' = worker /\ pc' = pc
    BY <1>4 DEF FallBack, NeedsFallback, turnVars, AreOfTurns
  <2>2. Len(final[t]) > 0 /\ Len(final'[t]) = 0 /\ Len(queue[t]) = 0
    BY <1>0, <2>1, EmptySeq, LenProperties DEF Text
  <2>. QED  BY <1>1, <1>2, <2>1, <2>2 DEF Works
<1>5. CASE Emit(t)
  <2>1. PICK c \in Chunks : /\ queue'[t] = Append(queue[t], c)
                            /\ said'[t] = Append(said[t], c)
    BY <1>5 DEF Emit, AreOfTurns
  <2>2. /\ worker[t] = "running" /\ worker' = worker /\ pc' = pc
        /\ Len(said[t]) < MaxDeltas
    BY <1>5 DEF Emit, turnVars
  <2>3. Len(queue'[t]) = Len(queue[t]) + 1 /\ Len(said'[t]) = Len(said[t]) + 1
    BY <1>0, <2>1, AppendProperties DEF Text
  <2>. QED  BY <1>0, <1>1, <1>2, <2>2, <2>3, SumFacts DEF Works
<1>6. CASE Finish(t)
  <2>1. PICK text \in {<< >>} \union {<<c>> : c \in Chunks} : final'[t] = text
    BY <1>6 DEF Finish, AreOfTurns
  <2>2. Len(final'[t]) \in {0, 1}
    BY <2>1
  <2>3. /\ worker[t] = "running" /\ worker'[t] = "done" /\ queue' = queue /\ pc' = pc
    BY <1>6 DEF Finish, turnVars, AreOfTurns
  <2>4. WorkLeft(t)' \in {Len(queue[t]), Len(queue[t]) + 2}
    <3>1. WorkLeft(t)' = 2 * Len(final'[t]) + Len(queue[t])
      BY <1>2, <2>3
    <3>2. CASE Len(final'[t]) = 0
      BY <1>1, <3>1, <3>2
    <3>3. CASE Len(final'[t]) = 1
      BY <1>1, <3>1, <3>3
    <3>. QED  BY <2>2, <3>2, <3>3
  <2>5. WorkLeft(t) >= Len(queue[t]) + 4 /\ WorkLeft(t) \in Int
    BY <1>0, <1>1, <2>3, SumFacts DEF SaidBounded
  <2>. QED  BY <1>1, <2>3, <2>4, <2>5 DEF Works
<1>7. CASE Crash(t)
  <2>1. worker[t] = "running" /\ worker'[t] = "failed" /\ queue' = queue /\ pc' = pc
    BY <1>7 DEF Crash, turnVars, AreOfTurns
  <2>2. WorkLeft(t) >= Len(queue[t]) + 4 /\ WorkLeft(t) \in Int
    BY <1>0, <1>1, <2>1, SumFacts DEF SaidBounded
  <2>. QED  BY <1>1, <1>2, <2>1, <2>2 DEF Works
<1>. QED  BY <1>3, <1>4, <1>5, <1>6, <1>7

\* A step of a turn takes it nearer its end, and keeps what the count needs.
LEMMA StepLessens ==
  ASSUME TypeOK, TypeOK', NEW t \in Turns, TurnInv(t), SaidBounded(t), LeftBounded(t), Step(t)
  PROVE  Left(t)' < Left(t) /\ SaidBounded(t)' /\ LeftBounded(t)'
<1>0. /\ said[t] \in Text /\ queue[t] \in Text /\ final[t] \in Text
      /\ said'[t] \in Text /\ queue'[t] \in Text /\ final'[t] \in Text
      /\ worker'[t] \in {"none", "running", "done", "failed"} /\ MaxDeltas \in Nat
      /\ worker[t] \in {"none", "running", "done", "failed"}
      /\ pc[t] \in Labels /\ pc'[t] \in Labels
  BY RuntimeAssumption DEF TypeOK
<1>1. Place[pc[t]] \in 0..8 /\ Place[pc'[t]] \in 0..8 /\ AreOfTurns /\ BeforeAgent(t)
  BY <1>0, PlaceFacts DEF TypeOK, AreOfTurns, TurnInv
<1>2. Advances(t) \/ Works(t)
  BY <1>1, OpeningAdvances, ClosingAdvances, WorkingWorks DEF Step, Proceed, RunAgent
<1>3. SaidBounded(t)'
  <2>1. CASE Emit(t)
    <3>1. PICK c \in Chunks : said'[t] = Append(said[t], c)
      BY <1>1, <2>1 DEF Emit, AreOfTurns
    <3>2. Len(said[t]) < MaxDeltas /\ Len(said'[t]) = Len(said[t]) + 1
      BY <1>0, <2>1, <3>1, AppendProperties DEF Emit, Text
    <3>3. Len(said[t]) \in Nat
      BY <1>0, LenProperties DEF Text
    <3>. QED  BY <1>0, <3>2, <3>3 DEF SaidBounded
  <2>2. CASE Finish(t) \/ Crash(t)
    BY <1>1, <2>2 DEF Finish, Crash, SaidBounded, AreOfTurns
  <2>3. CASE TakeDelta(t) \/ FallBack(t)
    BY <2>3 DEF TakeDelta, FallBack, SaidBounded
  <2>4. CASE Refuse(t) \/ Admit(t) \/ ScreenInput(t) \/ Retrieve(t)
    BY <1>1, <2>4, OpeningAdvances DEF Advances, SaidBounded
  <2>5. CASE \/ AgentFailed(t) \/ EndStream(t) \/ ScreenOutput(t) \/ Resume(t)
             \/ Record(t) \/ Save(t) \/ Disconnect(t)
    BY <1>1, <2>5, ClosingAdvances DEF Advances, SaidBounded
  <2>. QED  BY <2>1, <2>2, <2>3, <2>4, <2>5 DEF Step, Proceed, RunAgent
<1>4. WorkLeft(t) \in Nat /\ WorkLeft(t)' \in Nat
  BY <1>0, <1>3, WorkIsNat DEF WorkLeft, SaidBounded
<1>5. Left(t)' < Left(t)
  <2>1. CASE Advances(t)
    <3>1. WorkLeft(t)' = WorkLeft(t)
      BY <2>1 DEF Advances, WorkLeft, Work
    <3>. QED  BY <1>1, <1>4, <2>1, <3>1 DEF Advances, Left
  <2>2. CASE Works(t)
    BY <1>1, <1>4, <2>2 DEF Works, Left
  <2>. QED  BY <1>2, <2>1, <2>2
<1>6. Left(t)' \in Nat /\ Left(t) \in Nat
  BY <1>1, <1>4 DEF Left
<1>. QED  BY <1>0, <1>3, <1>5, <1>6 DEF LeftBounded

\* Only the save of the finally block closes a turn, and only it touches saved.
LEMMA SaveCloses ==
  ASSUME TypeOK, NEW t \in Turns, Step(t)
  PROVE  \/ saved' = saved /\ (pc'[t] = "closed" => pc[t] = "closed")
         \/ Save(t)
<1>0. DOMAIN pc = Turns
  BY DEF TypeOK
<1> USE DEF Goto, Close, turnVars
<1>1. CASE Refuse(t) \/ AgentFailed(t) \/ EndStream(t) \/ Resume(t) \/ Record(t) \/ Disconnect(t)
  BY <1>0, <1>1 DEF Refuse, AgentFailed, EndStream, Resume, Record, Disconnect, Conclude, AfterRecord
<1>2. CASE Admit(t) \/ Retrieve(t)
  BY <1>0, <1>2 DEF Admit, Retrieve, Begin, Recall, StartAgent
<1>3. CASE ScreenInput(t)
  BY <1>0, <1>3 DEF ScreenInput, Intervene, Recall, StartAgent
<1>4. CASE ScreenOutput(t)
  BY <1>0, <1>4 DEF ScreenOutput, Intervene, Deliver
<1>5. CASE TakeDelta(t) \/ FallBack(t) \/ Emit(t) \/ Finish(t) \/ Crash(t)
  BY <1>5 DEF TakeDelta, FallBack, Emit, Finish, Crash
<1>. QED  BY <1>1, <1>2, <1>3, <1>4, <1>5 DEF Step, Proceed, RunAgent

\* The invariant of the count.
EndInv == \A t \in Turns : SaidBounded(t) /\ LeftBounded(t) /\ WellEnded(t)

\* A turn has everything before it when the process starts.
LEMMA EndInit == Init => EndInv
<1> SUFFICES ASSUME Init, NEW t \in Turns PROVE SaidBounded(t) /\ LeftBounded(t) /\ WellEnded(t)
  BY DEF EndInv
<1>1. /\ pc[t] = "new" /\ worker[t] = "none" /\ said[t] = << >> /\ queue[t] = << >>
      /\ MaxDeltas \in Nat /\ Len(<< >>) = 0
  BY RuntimeAssumption DEF Init
<1>2. WorkLeft(t) = 2 * (MaxDeltas - 0) + 0 + 4
  BY <1>1 DEF WorkLeft, Work
<1>3. Left(t) = 2 * MaxDeltas + 12
  BY <1>1, <1>2, PlaceFacts DEF Left
<1>. QED  BY <1>1, <1>3 DEF SaidBounded, LeftBounded, WellEnded

\* A turn whose variables a step leaves alone has as much left as before.
LEMMA LeftSame ==
  ASSUME NEW u \in Turns, SameTurn(u), SaidBounded(u), LeftBounded(u)
  PROVE  SaidBounded(u)' /\ LeftBounded(u)'
BY DEF SameTurn, SaidBounded, LeftBounded, Left, WorkLeft, Work

\* Every step keeps the count, and lessens it for the turn it is of.
LEMMA EndNext ==
  ASSUME IInv, IInv', EndInv, [Next]_vars
  PROVE  EndInv' /\ \A t \in Turns : SameTurn(t) \/ Left(t)' < Left(t)
<1>0. TypeOK /\ TypeOK' /\ UNCHANGED env /\ DOMAIN saved = Turns
  BY SettingsFixed DEF IInv, TypeOK
<1>1. ASSUME NEW t \in Turns, Step(t), NEW u \in Turns
      PROVE  /\ SaidBounded(u)' /\ LeftBounded(u)' /\ WellEnded(u)'
             /\ SameTurn(u) \/ Left(u)' < Left(u)
  <2>1. CASE u = t
    <3>1. Left(t)' < Left(t) /\ SaidBounded(t)' /\ LeftBounded(t)'
      BY <1>0, <1>1, StepLessens DEF IInv, EndInv
    <3>2. WellEnded(t)'
      <4>1. pc'[t] = "streaming" => worker'[t] # "none"
        BY DEF IInv, TurnInv, Streaming
      <4>2. CASE Save(t)
        BY <1>0, <4>1, <4>2 DEF Save, Saves, WellEnded
      <4>3. CASE ~Save(t)
        BY <1>0, <1>1, <4>1, <4>3, SaveCloses DEF EndInv, WellEnded
      <4>. QED  BY <4>2, <4>3
    <3>. QED  BY <2>1, <3>1, <3>2
  <2>2. CASE u # t
    <3>1. SameTurn(u)
      BY <1>0, <1>1, <2>2, OthersUnchanged
    <3>2. SaidBounded(u)' /\ LeftBounded(u)'
      BY <3>1, LeftSame DEF EndInv
    <3>3. saved'[u] = saved[u]
      BY <1>0, <1>1, <2>2, SaveCloses DEF Save
    <3>. QED  BY <1>0, <3>1, <3>2, <3>3 DEF EndInv, WellEnded, SameTurn
  <2>. QED  BY <2>1, <2>2
<1>2. CASE \E t \in Turns : Step(t)
  BY <1>1, <1>2 DEF EndInv
<1>3. CASE Provision \/ UNCHANGED vars \/ \E t \in Turns : Late(t)
  <2>1. UNCHANGED saved /\ \A u \in Turns : SameTurn(u)
    BY <1>3, LateLeavesTurns
       DEF Provision, vars, SameTurn, turnVars, checkVars, workVars, memVars
  <2>2. ASSUME NEW u \in Turns PROVE SaidBounded(u)' /\ LeftBounded(u)' /\ WellEnded(u)'
    BY <1>0, <2>1, LeftSame DEF EndInv, WellEnded, SameTurn
  <2>. QED  BY <2>1, <2>2 DEF EndInv
<1>. QED  BY <1>2, <1>3 DEF Next, Step

\* A turn never has more than 2 * MaxDeltas + 12 steps left, it never waits for a
\* thread that was not started, and once it is over its workspace was saved, if the
\* process has a bucket: the safety of EveryTurnEnds (main.py: invoke).
THEOREM BoundedTurns == Spec => []EndInv
<1>1. IInv /\ IInv' /\ EndInv /\ [Next]_vars => EndInv'
  BY EndNext
<1>. QED  BY <1>1, EndInit, Invariant, PTL DEF Spec

\* Each step of a turn takes it nearer its end and no other step sets it back: no
\* failure, answer or lost client makes it repeat what it did (main.py: invoke).
THEOREM TurnsEnd == Spec => TurnsComeToAnEnd
<1>1. IInv /\ IInv' /\ EndInv /\ [Next]_vars =>
        [\A t \in Turns : SameTurn(t) \/ Left(t)' < Left(t)]_vars
  BY EndNext
<1>. QED  BY <1>1, Invariant, BoundedTurns, PTL DEF Spec, TurnsComeToAnEnd
=============================================================================
