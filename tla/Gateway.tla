------------------------------- MODULE Gateway -------------------------------
(***************************************************************************)
(* The ECS gateway: the proxy agent that carries a chat message to         *)
(* AgentCore with retries (gateway/agentcore_proxy.py), and the delivery   *)
(* of a long reply to WeChat as a file (gateway/weixin_file_patch.py).     *)
(* The gateway serves its chats concurrently.  AgentCore and the message   *)
(* platform are the environment: a call that fails for the gateway may     *)
(* still be carried out.                                                   *)
(***************************************************************************)
EXTENDS Naturals

CONSTANTS
  Chats,       \* chats with one message each
  MaxRetries,  \* _invoke_with_retry's max_retries
  MaxSeconds   \* bound: seconds the clock shows

ASSUME GatewayAssumption == MaxRetries \in Nat /\ MaxSeconds \in Nat

Nowhere == "no chat"
Seconds == 0..MaxSeconds
Apologies == {"starting up", "busy", "unexpected"}
Texts == {"answer", "partial", "no response"} \union Apologies
Stages == {"new", "calling", "backoff", "replied", "file", "uploading", "text", "done"}

VARIABLES
  stage,    \* stage[c]: where the message of c is
  attempt,  \* attempt[c]: the loop variable of _invoke_with_retry
  running,  \* running[c]: invocations of c's session in progress in AgentCore
  carried,  \* carried[c]: times the agent carried the message out
  mine,     \* mine[c]: the current attempt reached AgentCore: "no", "runs", "ended"
  severed,  \* history: severed[c]: attempts given up after they had reached AgentCore
  text,     \* text[c]: final_response
  now,      \* the clock's second
  named,    \* named[c]: the second in the name of c's file
  wrote,    \* history: wrote[c]: the second c's file was written in
  files,    \* files[s]: whose reply the file named after second s holds, in part at least
  leftover, \* history: seconds whose file a failed write or unlink left behind
  attached, \* attached[c]: whose reply send_document read
  received  \* received[c]: whose reply c was sent, as file or as text

invokeVars == <<attempt, running, carried, mine, severed, text>>
fileVars == <<named, wrote, files, leftover, attached, received>>
gatewayVars == <<stage, invokeVars, now, fileVars>>

GatewayInit ==
  /\ stage = [c \in Chats |-> "new"]
  /\ attempt = [c \in Chats |-> 0]
  /\ running = [c \in Chats |-> 0]
  /\ carried = [c \in Chats |-> 0]
  /\ mine = [c \in Chats |-> "no"]
  /\ severed = [c \in Chats |-> 0]
  /\ text = [c \in Chats |-> "no response"]
  /\ now = 0
  /\ named = [c \in Chats |-> 0]
  /\ wrote = [c \in Chats |-> 0]
  /\ files = [s \in Seconds |-> Nowhere] /\ leftover = {}
  /\ attached = [c \in Chats |-> Nowhere]
  /\ received = [c \in Chats |-> Nowhere]

Move(c, from, to) == stage[c] = from /\ stage' = [stage EXCEPT ![c] = to]
-----------------------------------------------------------------------------
(* AgentCore.                                                               *)

\* run_conversation: the payload is sent.
Call(c) ==
  /\ Move(c, "new", "calling")
  /\ UNCHANGED <<invokeVars, now, fileVars>>

\* The invocation of this attempt starts in the runtime.
Reach(c) ==
  /\ stage[c] = "calling" /\ mine[c] = "no"
  /\ mine' = [mine EXCEPT ![c] = "runs"]
  /\ running' = [running EXCEPT ![c] = @ + 1]
  /\ UNCHANGED <<stage, attempt, carried, severed, text, now, fileVars>>

\* A run ends: this attempt's, or one the gateway no longer waits for.
RunEnds(c) ==
  /\ running[c] > 0
  /\ \/ mine[c] = "runs" /\ mine' = [mine EXCEPT ![c] = "ended"]
     \/ running[c] > (IF mine[c] = "runs" THEN 1 ELSE 0) /\ UNCHANGED mine
  /\ running' = [running EXCEPT ![c] = @ - 1]
  /\ carried' = [carried EXCEPT ![c] = @ + 1]
  /\ UNCHANGED <<stage, attempt, severed, text, now, fileVars>>
-----------------------------------------------------------------------------
(* _invoke_with_retry.                                                      *)

\* The loop returns t.
Return(c, t) ==
  /\ Move(c, "calling", "replied")
  /\ text' = [text EXCEPT ![c] = t]
  /\ UNCHANGED attempt

\* Sleep, and continue with the next attempt.
SleepAndRetry(c) ==
  /\ attempt[c] < MaxRetries
  /\ Move(c, "calling", "backoff")
  /\ UNCHANGED <<attempt, text>>

\* Mutant: the attempts are not counted.
WakeUncounted(c) ==
  /\ Move(c, "backoff", "calling")
  /\ UNCHANGED <<invokeVars, now, fileVars>>

Wake(c) ==
  /\ Move(c, "backoff", "calling")
  /\ attempt' = [attempt EXCEPT ![c] = @ + 1]
  /\ UNCHANGED <<running, carried, mine, severed, text, now, fileVars>>

\* The attempt is over; what it started goes on.
GiveUpAttempt(c) ==
  /\ severed' = [severed EXCEPT ![c] = IF mine[c] = "no" THEN @ ELSE @ + 1]
  /\ mine' = [mine EXCEPT ![c] = "no"]

\* Mutant: an empty answer is taken for a failure.
RetryEmptyAnswer(c) ==
  /\ mine[c] = "ended"
  /\ \/ \E t \in {"answer", "partial"} : Return(c, t)
     \/ SleepAndRetry(c)
  /\ mine' = [mine EXCEPT ![c] = "no"]
  /\ UNCHANGED <<running, carried, severed, now, fileVars>>

\* _parse_response: the answer, the chunks read before a stream broke (that
\* error is only logged), or nothing.
Answered(c) ==
  /\ mine[c] = "ended"
  /\ \E t \in {"answer", "partial", "no response"} : Return(c, t)
  /\ mine' = [mine EXCEPT ![c] = "no"]
  /\ UNCHANGED <<running, carried, severed, now, fileVars>>

\* _COLD_START_ERRORS: connection refused or closed, or the 300 s of
\* read_timeout are over.
ColdStartError(c) ==
  /\ SleepAndRetry(c) \/ (attempt[c] = MaxRetries /\ Return(c, "starting up"))
  /\ GiveUpAttempt(c)
  /\ UNCHANGED <<running, carried, now, fileVars>>

\* ThrottlingException, ServiceUnavailableException: refused before it ran.
Throttled(c) ==
  /\ mine[c] = "no"
  /\ SleepAndRetry(c) \/ (attempt[c] = MaxRetries /\ Return(c, "busy"))
  /\ UNCHANGED <<running, carried, mine, severed, now, fileVars>>

\* Any other ClientError or exception ends the loop at once.
FailedCall(c) ==
  /\ \E t \in {"busy", "unexpected"} : Return(c, t)
  /\ GiveUpAttempt(c)
  /\ UNCHANGED <<running, carried, now, fileVars>>
-----------------------------------------------------------------------------
(* WeixinAdapter.send, patched.                                             *)

\* No longer than FILE_THRESHOLD: sent as it is.
SendShort(c) ==
  /\ Move(c, "replied", "text")
  /\ UNCHANGED <<invokeVars, now, fileVars>>

\* Mutant: one file name for all.
NameOfDay == 0

\* reply_<%Y%m%d_%H%M%S>.md, in a directory all chats share.
FileName == now

\* The file of this second holds c's reply, or a part of it, and no other.
Overwrite(c) ==
  /\ named' = [named EXCEPT ![c] = FileName]
  /\ wrote' = [wrote EXCEPT ![c] = now]
  /\ files' = [files EXCEPT ![FileName] = c]

\* The file is written, or rewritten.
WriteFile(c) ==
  /\ text[c] = "answer"
  /\ Move(c, "replied", "file")
  /\ Overwrite(c)
  /\ leftover' = leftover \ {FileName}
  /\ UNCHANGED <<invokeVars, now, attached, received>>

\* write_text raises, before the try: nothing was written, or a part of the text,
\* which nobody removes.  The reply is sent as text.
WriteFails(c) ==
  /\ text[c] = "answer"
  /\ Move(c, "replied", "text")
  /\ \/ UNCHANGED <<named, wrote, files, leftover>>
     \/ Overwrite(c) /\ leftover' = leftover \union {FileName}
  /\ UNCHANGED <<invokeVars, now, attached, received>>

\* send_document reads the file, which another chat may have removed.
ReadFile(c) ==
  /\ Move(c, "file", "uploading")
  /\ attached' = [attached EXCEPT ![c] = files[named[c]]]
  /\ UNCHANGED <<invokeVars, now, named, wrote, files, leftover, received>>

\* file_path.unlink(missing_ok=True), whose OSError is passed over.
Remove(c) ==
  \/ /\ files' = [files EXCEPT ![named[c]] = Nowhere]
     /\ leftover' = leftover \ {named[c]}
  \/ /\ files' = files
     /\ leftover' = leftover \union {named[c]}

\* Mutant: the file is removed only after success.
UnlinkIfSent(c, ok) == IF ok THEN Remove(c) ELSE UNCHANGED <<files, leftover>>

\* finally: whether the file was sent or not.
Unlink(c, ok) == Remove(c)

SendFile(c) ==
  \/ /\ attached[c] # Nowhere
     /\ Move(c, "uploading", "done")
     /\ received' = [received EXCEPT ![c] = attached[c]]
     /\ Unlink(c, TRUE)
     /\ UNCHANGED <<invokeVars, now, named, wrote, attached>>
  \* send_document raises or reports a failure: fall back to text.
  \/ /\ Move(c, "uploading", "text")
     /\ Unlink(c, FALSE)
     /\ UNCHANGED <<invokeVars, now, named, wrote, attached, received>>

\* The platform takes the text, or not.
SendText(c) ==
  /\ Move(c, "text", "done")
  /\ received' \in {received, [received EXCEPT ![c] = c]}
  /\ UNCHANGED <<invokeVars, now, named, wrote, files, leftover, attached>>

Clock ==
  /\ now < MaxSeconds /\ now' = now + 1
  /\ UNCHANGED <<stage, invokeVars, fileVars>>

Proxy(c) == Wake(c) \/ Answered(c) \/ ColdStartError(c) \/ Throttled(c) \/ FailedCall(c)
Delivery(c) ==
  \/ SendShort(c) \/ WriteFile(c) \/ WriteFails(c)
  \/ ReadFile(c) \/ SendFile(c) \/ SendText(c)

GatewayNext ==
  \/ \E c \in Chats : Call(c) \/ Reach(c) \/ RunEnds(c) \/ Proxy(c) \/ Delivery(c)
  \/ Clock

\* A call ends (the read timeout), sleeps end and sends end; messages, runs and
\* the clock are free.
GatewayFairness ==
  \A c \in Chats : WF_gatewayVars(Proxy(c)) /\ WF_gatewayVars(Delivery(c))

GatewaySpec == GatewayInit /\ [][GatewayNext]_gatewayVars /\ GatewayFairness
-----------------------------------------------------------------------------
GatewayTypeOK ==
  /\ stage \in [Chats -> Stages]
  /\ attempt \in [Chats -> 0..MaxRetries]
  /\ running \in [Chats -> Nat] /\ carried \in [Chats -> Nat]
  /\ mine \in [Chats -> {"no", "runs", "ended"}]
  /\ severed \in [Chats -> Nat]
  /\ text \in [Chats -> Texts]
  /\ now \in Seconds /\ named \in [Chats -> Seconds] /\ wrote \in [Chats -> Seconds]
  /\ files \in [Seconds -> Chats \union {Nowhere}] /\ leftover \subseteq Seconds
  /\ attached \in [Chats -> Chats \union {Nowhere}]
  /\ received \in [Chats -> Chats \union {Nowhere}]

\* The agent carries a message out a second time only when an attempt was given
\* up that had already reached it, and never more often than there were
\* attempts (agentcore_proxy.py:131-158).
RepeatedOnlyWhenSevered ==
  \A c \in Chats :
    /\ carried[c] + running[c] <= 1 + severed[c]
    /\ severed[c] <= attempt[c] + 1

\* A chat is sent another chat's reply only if both were written to the file in
\* the same second (weixin_file_patch.py:72).
OthersReplyOnlyInSameSecond ==
  \A c \in Chats :
    received[c] \notin {c, Nowhere} => wrote[received[c]] = wrote[c]

\* A reply stays on the disk when nobody is sending one only where the write or
\* the unlink failed (finally, :90; the write is before the try, :79, and unlink's
\* OSError is passed over, :94).
NoFileLeft ==
  \A s \in Seconds :
    files[s] # Nowhere =>
      \/ \E c \in Chats : stage[c] \in {"file", "uploading"} /\ named[c] = s
      \/ s \in leftover

\* A reply sent as a file stays with its chat, and goes when it was sent unless
\* the disk fails.
FilesStayApart == OthersReplyOnlyInSameSecond /\ NoFileLeft

\* Every message that was taken ends: delivered, or refused by the platform.
EveryMessageEnds == \A c \in Chats : stage[c] = "calling" ~> stage[c] = "done"
=============================================================================
