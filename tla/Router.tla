-------------------------------- MODULE Router --------------------------------
(***************************************************************************)
(* The Router Lambda (lambda/router/index.py): messages of one user on one *)
(* channel, delivered as webhooks, answered by AgentCore and kept as turns *)
(* of history in DynamoDB.                                                 *)
(*                                                                         *)
(* A run is one execution of the handler.  Runs share nothing but the      *)
(* table; the platform delivers a message again as long as it was not      *)
(* answered with status 200, whether a run is still at work on it or not.  *)
(* Identities are left out: the user id is a digest of the actor, so the   *)
(* session is the same whatever the identity table says.                   *)
(***************************************************************************)
EXTENDS Naturals, FiniteSets, Sequences

CONSTANTS
  MaxTurns,     \* HISTORY_MAX_TURNS
  MaxMessages,  \* bound: messages of the user
  MaxRuns,      \* bound: executions of the handler
  MaxTime       \* bound: the clock, in milliseconds

ASSUME RouterAssumption ==
  /\ MaxTurns \in Nat /\ MaxMessages \in Nat /\ MaxRuns \in Nat
  /\ MaxTime \in Nat \ {0}

Messages == 1..MaxMessages
Runs == 1..MaxRuns
User == 0
Assistant == 1
\* An item of the history: the sort key is at and role, the content what was
\* said to or by the run.
Item == [at : 1..MaxTime, role : {User, Assistant}, run : Runs]

VARIABLES
  deferred,  \* the channel is Discord: acknowledged at once, answered later
  now,       \* the clock
  sent,      \* messages the user has sent
  acked,     \* messages acknowledged with status 200
  runs,      \* executions begun
  message,   \* message[r]: the message r was begun for, 0 if it was not begun
  pc,        \* pc[r]: the call r makes next
  shown,     \* shown[r]: the history r puts into its payload
  at,        \* at[r]: the instant r saves its turn under, 0 if there is none
  reply,     \* reply[r]: what r has for the user
  table,     \* the items of the session
  heard,     \* history: runs whose reply the user has received
  before,    \* history: before[m]: heard when m was sent
  saved,     \* history: runs that saved a whole turn
  blind      \* history: runs whose query failed or missed items

vars == <<deferred, now, sent, acked, runs, message, pc, shown, at, reply,
          table, heard, before, saved, blind>>

Init ==
  /\ deferred \in BOOLEAN
  /\ now = 1
  /\ sent = 0
  /\ acked = {}
  /\ runs = 0
  /\ message = [r \in Runs |-> 0]
  /\ pc = [r \in Runs |-> "none"]
  /\ shown = [r \in Runs |-> << >>]
  /\ at = [r \in Runs |-> 0]
  /\ reply = [r \in Runs |-> "none"]
  /\ table = {}
  /\ heard = {}
  /\ before = [m \in Messages |-> {}]
  /\ saved = {}
  /\ blind = {}

-----------------------------------------------------------------------------
(* The user, the platform and DynamoDB (external).                          *)

SendMessage ==
  /\ sent < MaxMessages
  /\ sent' = sent + 1
  /\ before' = [before EXCEPT ![sent + 1] = heard]
  /\ UNCHANGED <<deferred, now, acked, runs, message, pc, shown, at, reply, table, heard, saved, blind>>

Tick ==
  /\ now < MaxTime
  /\ now' = now + 1
  /\ UNCHANGED <<deferred, sent, acked, runs, message, pc, shown, at, reply, table, heard, before, saved, blind>>

\* A webhook is delivered until it was acknowledged; an asynchronous invocation
\* again if it timed out.
Due(m) ==
  IF deferred THEN \A r \in Runs : message[r] = m => pc[r] = "timed out"
  ELSE m \notin acked

-----------------------------------------------------------------------------
(* The handler.                                                             *)

\* r ends with a status: 200 acknowledges the message.
Finish(r, status) ==
  /\ pc' = [pc EXCEPT ![r] = "over"]
  /\ reply' = [reply EXCEPT ![r] = "none"]
  /\ acked' = IF status = 200 THEN acked \union {message[r]} ELSE acked

\* An execution begins.  A Discord interaction was verified, acknowledged and
\* handed to an asynchronous execution, which is this one.
Deliver(m) ==
  /\ m <= sent /\ Due(m)
  /\ runs < MaxRuns
  /\ runs' = runs + 1
  /\ message' = [message EXCEPT ![runs + 1] = m]
  /\ pc' = [pc EXCEPT ![runs + 1] = "admit"]
  /\ acked' = IF deferred THEN acked \union {m} ELSE acked
  /\ UNCHANGED <<deferred, now, sent, shown, at, reply, table, heard, before, saved, blind>>

\* The allowlist has the sender and the user id is resolved.  A sender who is not
\* on the list, or whose look-up fails, is dealt with; a secret that cannot be
\* fetched or another exception is an error.
Admit(r) ==
  /\ pc[r] = "admit"
  /\ \/ pc' = [pc EXCEPT ![r] = "load"] /\ UNCHANGED <<acked, reply>>
     \/ Finish(r, 200)
     \/ Finish(r, 500)
  /\ UNCHANGED <<deferred, now, sent, runs, message, shown, at, table, heard, before, saved, blind>>

\* The sort key: instant, then role.
Earlier(i, j) == i.at < j.at \/ (i.at = j.at /\ i.role < j.role)

\* The items in chronological order: each behind those that are earlier.
Rank(items, i) == Cardinality({j \in items : Earlier(j, i)})
Chronological(items) ==
  [k \in 1..Cardinality(items) |-> CHOOSE i \in items : Rank(items, i) = k - 1]

\* The last n elements of a sequence.
Last(s, n) == SubSeq(s, IF Len(s) > n THEN Len(s) - n + 1 ELSE 1, Len(s))

\* Mutant: the limit counts turns instead of items.
NewestByTurns(items) == Last(Chronological(items), MaxTurns)

\* Mutant: the query's order, newest first, is not reversed.
NewestNotReversed(items) ==
  LET newest == Last(Chronological(items), 2 * MaxTurns) IN
  [k \in DOMAIN newest |-> newest[Len(newest) + 1 - k]]

\* The newest items, two for a turn, in chronological order.
Newest(items) == Last(Chronological(items), 2 * MaxTurns)

\* _load_history.  The query is eventually consistent and may miss items written
\* before; a ClientError is an empty history, another exception leaves the handler.
Load(r) ==
  /\ pc[r] = "load"
  /\ \/ /\ \E seen \in SUBSET table :
             /\ shown' = [shown EXCEPT ![r] = Newest(seen)]
             /\ blind' = IF seen = table THEN blind ELSE blind \union {r}
        /\ pc' = [pc EXCEPT ![r] = "invoke"]
        /\ UNCHANGED <<acked, reply>>
     \/ /\ pc' = [pc EXCEPT ![r] = "invoke"]
        /\ blind' = blind \union {r}
        /\ UNCHANGED <<acked, reply, shown>>
     \/ /\ Finish(r, 500)
        /\ UNCHANGED <<shown, blind>>
  /\ UNCHANGED <<deferred, now, sent, runs, message, at, table, heard, before, saved>>

\* Mutant: the key has seconds in the place of milliseconds.
InstantInSeconds == now \div 1000

Instant == now

\* _invoke_agentcore: the agent answers, answers nothing or fails.  A turn with
\* an answer is saved under the instant the answer came in.
Invoke(r) ==
  /\ pc[r] = "invoke"
  /\ \/ /\ reply' = [reply EXCEPT ![r] = "answer"]
        /\ at' = [at EXCEPT ![r] = Instant]
        /\ pc' = [pc EXCEPT ![r] = "save question"]
     \/ /\ \E text \in {"nothing", "apology"} : reply' = [reply EXCEPT ![r] = text]
        /\ pc' = [pc EXCEPT ![r] = "send"]
        /\ UNCHANGED at
  /\ shown' = [shown EXCEPT ![r] = << >>]
  /\ blind' = blind \ {r}
  /\ UNCHANGED <<deferred, now, sent, acked, runs, message, table, heard, before, saved>>

\* put_item replaces an item with the same key.
With(r, role) ==
  {i \in table : ~(i.at = at[r] /\ i.role = role)}
    \union {[at |-> at[r], role |-> role, run |-> r]}

\* A put fails: DynamoDB may have taken the item over.  A ClientError ends the
\* save; any other exception is taken for a failure of the agent.
PutFails(r, role) ==
  /\ table' \in {table, With(r, role)}
  /\ pc' = [pc EXCEPT ![r] = "send"]
  /\ \/ UNCHANGED reply
     \/ reply' = [reply EXCEPT ![r] = "apology"]
  /\ UNCHANGED saved

\* _save_history: the user's message, then the answer.
SaveQuestion(r) ==
  /\ pc[r] = "save question"
  /\ \/ /\ table' = With(r, User)
        /\ pc' = [pc EXCEPT ![r] = "save answer"]
        /\ UNCHANGED <<reply, saved>>
     \/ PutFails(r, User)
  /\ UNCHANGED <<deferred, now, sent, acked, runs, message, shown, at, heard, before, blind>>

SaveAnswer(r) ==
  /\ pc[r] = "save answer"
  /\ \/ /\ table' = With(r, Assistant)
        /\ pc' = [pc EXCEPT ![r] = "send"]
        /\ saved' = saved \union {r}
        /\ UNCHANGED reply
     \/ PutFails(r, Assistant)
  /\ UNCHANGED <<deferred, now, sent, acked, runs, message, shown, at, heard, before, blind>>

\* An answer without text is not sent, except to Discord, whose message has to be
\* edited.
Sends(r) == reply[r] # "nothing" \/ deferred

\* The reply is sent: it arrives or is lost, which is logged; or the token for
\* sending it cannot be fetched, which Discord does not need.
SendReply(r) ==
  /\ pc[r] = "send"
  /\ \/ Sends(r) /\ heard' = heard \union {r} /\ Finish(r, 200)
     \/ Finish(r, 200) /\ UNCHANGED heard
     \/ Sends(r) /\ ~deferred /\ Finish(r, 500) /\ UNCHANGED heard
  /\ UNCHANGED <<deferred, now, sent, runs, message, shown, at, table, before, saved, blind>>

\* The Lambda reaches its timeout, wherever it is.
TimeOut(r) ==
  /\ pc[r] \in {"admit", "load", "invoke", "save question", "save answer", "send"}
  /\ pc' = [pc EXCEPT ![r] = "timed out"]
  /\ \/ UNCHANGED heard
     \/ pc[r] = "send" /\ Sends(r) /\ heard' = heard \union {r}
  /\ shown' = [shown EXCEPT ![r] = << >>]
  /\ reply' = [reply EXCEPT ![r] = "none"]
  /\ blind' = blind \ {r}
  /\ UNCHANGED <<deferred, now, sent, acked, runs, message, at, table, before, saved>>

HandlerStep(r) ==
  Admit(r) \/ Load(r) \/ Invoke(r) \/ SaveQuestion(r) \/ SaveAnswer(r) \/ SendReply(r)

Next ==
  \/ SendMessage \/ Tick
  \/ \E m \in Messages : Deliver(m)
  \/ \E r \in Runs : HandlerStep(r) \/ TimeOut(r)

Spec == Init /\ [][Next]_vars
-----------------------------------------------------------------------------
(* Properties.                                                              *)

TypeOK ==
  /\ deferred \in BOOLEAN
  /\ now \in 1..MaxTime
  /\ sent \in 0..MaxMessages
  /\ acked \in SUBSET Messages
  /\ runs \in 0..MaxRuns
  /\ message \in [Runs -> 0..MaxMessages]
  /\ pc \in [Runs -> {"none", "admit", "load", "invoke", "save question", "save answer",
                      "send", "over", "timed out"}]
  /\ shown \in [Runs -> Seq(Item)]
  /\ at \in [Runs -> 0..MaxTime]
  /\ reply \in [Runs -> {"none", "answer", "nothing", "apology"}]
  /\ table \in SUBSET Item
  /\ heard \in SUBSET Runs
  /\ before \in [Messages -> SUBSET Runs]
  /\ saved \in SUBSET Runs
  /\ blind \in SUBSET Runs

\* No other run saves its turn under the instant of p.
Alone(p) == \A q \in Runs \ {p} : at[q] # at[p]

\* Runs whose turn is newer than that of p.
Newer(p) == {q \in Runs : at[q] > at[p]}

\* The history h has the whole turn of p.
Shows(h, p) ==
  \E i \in 1..(Len(h) - 1) :
    /\ h[i] = [at |-> at[p], role |-> User, run |-> p]
    /\ h[i + 1] = [at |-> at[p], role |-> Assistant, run |-> p]

\* "Persist this turn so future requests have context": a message sent after an
\* answer was received goes to the agent with that turn in its history, question
\* next to answer, however deliveries overlap, fail and repeat, unless saving
\* failed, the query failed or missed items, the same instant was used twice, or
\* MaxTurns newer turns take the window.
AnsweredTurnsAreShown ==
  [][\A r \in Runs : pc[r] = "load" /\ pc'[r] = "invoke" /\ r \notin blind' =>
        \A p \in before[message[r]] \intersect saved :
          Alone(p) /\ Cardinality(Newer(p)) < MaxTurns => Shows(shown'[r], p)]_vars

\* "in chronological order" (_load_history): in no history does what the user
\* knew when sending a message come after that message.
HistoryFollowsConversation ==
  \A r \in Runs : \A i, j \in 1..Len(shown[r]) :
    LET p == shown[r][i].run
        q == shown[r][j].run
    IN  i < j /\ at[p] # at[q] => q \notin before[message[p]]
=============================================================================
