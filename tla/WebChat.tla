------------------------------- MODULE WebChat -------------------------------
(***************************************************************************)
(* The web chat: the browser page (web/app.mjs: sendMessage and the event  *)
(* handlers, web/src/state.mjs: reduce) and, for every request it makes,   *)
(* the stream of the BFF (lambda/web_chat/src/route.mjs: chatBody).        *)
(*                                                                         *)
(* JavaScript runs to completion between awaits, so a dispatch with what   *)
(* follows it is one step; requests, the user and the BFF interleave.  A   *)
(* request is an attempt: the first for a message, or a retry.             *)
(***************************************************************************)
EXTENDS Naturals, Sequences

CONSTANTS
  Messages,        \* texts the user may send
  MaxAttempts,     \* bound: requests of the page
  MaxDeltas,       \* bound: deltas of one stream
  MaxSignInClicks, \* bound: clicks on Sign in under way at a time
  Cuts,            \* a stream may end cleanly before its terminal record
  LateBreaks       \* a connection may break after the terminal record was sent

ASSUME WebChatAssumption ==
  /\ MaxAttempts \in Nat /\ MaxDeltas \in Nat /\ MaxSignInClicks \in Nat
  /\ Cuts \in BOOLEAN /\ LateBreaks \in BOOLEAN

Attempts == 1..MaxAttempts
Null == "null"
ASSUME NullAssumption == Null \notin Messages

Terminals == {"message.completed", "guardrail.intervened", "error"}
Records == {"message.started", "message.delta"} \union Terminals
\* The k-th delta of an attempt.
Pieces == Attempts \X (1..MaxDeltas)

VARIABLES
  started,    \* start() of the page has finished
  stored,     \* sessionStorage has tokens
  clicks,     \* clicks on Sign in whose signIn() is under way
  form,       \* a history: "freed" once signIn() or start() ended over what was
              \* sent, and made the form free while it may be under way
  page,       \* the page's state; its messages are exchanges: what the user
              \* said and the bubble of the answer
  attempts,   \* attempts made
  reader,     \* reader[a]: what sendMessage of a awaits
  taken,      \* taken[a]: records of a the page has handled
  bff,        \* bff[a]: where the request of a is on the server
  written,    \* written[a]: records the BFF has written
  line        \* line[a]: the connection of a's stream; "none" without one

signing == <<clicks, form>>
webChatVars == <<signing, started, stored, page, attempts, reader, taken, bff, written, line>>

\* initialState.  token: accessToken is set; error: an error text is.
InitialState ==
  [status |-> "signed_out", token |-> FALSE, exchanges |-> << >>,
   pending |-> Null, error |-> FALSE]

WebChatInit ==
  /\ started = FALSE
  /\ stored \in BOOLEAN
  /\ clicks = 0 /\ form = "kept"
  /\ page = InitialState
  /\ attempts = 0
  /\ reader = [a \in Attempts |-> "none"]
  /\ taken = [a \in Attempts |-> 0]
  /\ bff = [a \in Attempts |-> "none"]
  /\ written = [a \in Attempts |-> << >>]
  /\ line = [a \in Attempts |-> "none"]

-----------------------------------------------------------------------------
(* reduce: one operator per action, from state to state.                    *)

SignedIn(p) == [p EXCEPT !.status = "ready", !.token = TRUE, !.error = FALSE]

SendStarted(p, m) ==
  [p EXCEPT !.status = "sending", !.pending = m, !.error = FALSE,
            !.exchanges = Append(@, [user |-> m, bubble |-> << >>])]

\* The last message is a bubble, unless there is none.
Delta(p, piece) ==
  IF p.exchanges = << >> THEN p
  ELSE [p EXCEPT !.status = "streaming",
                 !.exchanges[Len(p.exchanges)].bubble = Append(@, piece)]

\* Mutant: the message that was answered stays pending.
CompletedKeepsPending(p) == [p EXCEPT !.status = "ready"]

Completed(p) == [p EXCEPT !.status = "ready", !.pending = Null]

GuardrailIntervened(p) ==
  [p EXCEPT !.status = "ready", !.pending = Null, !.error = TRUE]

\* Mutant: a failure shows its text and changes nothing else.
FailedShowsText(p) == [p EXCEPT !.error = TRUE]

Failed(p) == [p EXCEPT !.status = "error", !.error = TRUE]

\* Mutant: the bubble keeps the text of the failed attempt.
RetriedOnOldText(p) == [p EXCEPT !.status = "sending", !.error = FALSE]

\* The last bubble is emptied and used again.
Retried(p) ==
  [p EXCEPT !.status = "sending", !.error = FALSE,
            !.exchanges = IF @ = << >> THEN @
                          ELSE [@ EXCEPT ![Len(@)].bubble = << >>]]
-----------------------------------------------------------------------------
(* The page.                                                                *)

\* A request is alive until its terminal record is handled or its reader ends.
Alive(a) ==
  /\ reader[a] \in {"fetching", "reading"}
  /\ \A n \in 1..taken[a] : written[a][n] \notin Terminals

\* start() is done: with tokens the user is signed in, without them signed out;
\* a configuration or a return from Cognito that is not in order is an error.  A
\* return that was exchanged is as tokens of the beginning: only a page nobody
\* clicked on accepts it (SignIn).
Start ==
  /\ ~started /\ started' = TRUE
  /\ page' \in {IF stored THEN SignedIn(page) ELSE InitialState, Failed(page)}
  /\ form' = IF attempts > 0 THEN "freed" ELSE form
  /\ UNCHANGED <<clicks, stored, attempts, reader, taken, bff, written, line>>

\* Sign in is there for a signed-out user, also before start() is done.  A click
\* that succeeds leaves the page, and is not followed.
SignInClick ==
  /\ page.status = "signed_out" /\ clicks < MaxSignInClicks
  /\ clicks' = clicks + 1
  /\ UNCHANGED <<form, started, stored, page, attempts, reader, taken, bff, written, line>>

\* signIn fails, as it does without a configuration; what the page shows
\* meanwhile is not looked at.
SignInFails ==
  /\ clicks > 0 /\ clicks' = clicks - 1
  /\ page' = Failed(page)
  /\ form' = IF \E a \in Attempts : Alive(a) THEN "freed" ELSE form
  /\ UNCHANGED <<started, stored, attempts, reader, taken, bff, written, line>>

\* Mutant: the form is blocked only until the first delta.
ActiveWhileSending == page.status = "sending"

\* The form is blocked, and the controls disabled.
Active == page.status \in {"sending", "streaming"}

\* sendMessage up to its first await, the state being p after the dispatch it
\* begins with.  Without tokens it throws before the request.
SendMessage(p) ==
  /\ attempts < MaxAttempts
  /\ attempts' = attempts + 1
  /\ page' = IF stored THEN p ELSE Failed(p)
  /\ reader' = [reader EXCEPT ![attempts + 1] = IF stored THEN "fetching" ELSE "done"]
  /\ line' = [line EXCEPT ![attempts + 1] = IF stored THEN "open" ELSE "none"]
  /\ UNCHANGED <<signing, started, stored, taken, bff, written>>

\* The user submits the form; it is hidden from a signed-out user.
Submit ==
  /\ page.status # "signed_out" /\ ~Active
  /\ \E m \in Messages : SendMessage(SendStarted(page, m))

\* The user asks for a retry; the button is there after an error.
Retry ==
  /\ page.status = "error" /\ page.pending # Null
  /\ SendMessage(Retried(page))

\* The user signs out.  What is being received goes on.
SignOut ==
  /\ page.status # "signed_out"
  /\ stored' = FALSE
  /\ page' = InitialState
  /\ UNCHANGED <<signing, started, attempts, reader, taken, bff, written, line>>

\* fetch is answered 401: the tokens are removed.
Expired(a) ==
  /\ reader[a] = "fetching" /\ bff[a] = "none"
  /\ stored' = FALSE
  /\ page' = InitialState
  /\ reader' = [reader EXCEPT ![a] = "done"]
  /\ line' = [line EXCEPT ![a] = "none"]
  /\ UNCHANGED <<signing, started, attempts, taken, bff, written>>

\* fetch is answered another status, or fails.
Rejected(a) ==
  /\ reader[a] = "fetching"
  /\ page' = Failed(page)
  /\ reader' = [reader EXCEPT ![a] = "done"]
  /\ line' = [line EXCEPT ![a] = "none"]
  /\ UNCHANGED <<signing, started, stored, attempts, taken, bff, written>>

\* fetch is answered 200, with the headers of the stream.
Accepted(a) ==
  /\ reader[a] = "fetching" /\ bff[a] # "none"
  /\ reader' = [reader EXCEPT ![a] = "reading"]
  /\ UNCHANGED <<signing, started, stored, page, attempts, taken, bff, written, line>>

\* Mutant: deltas are numbered as records are.
HandledByNumber(p, a, n) ==
  IF written[a][n] = "message.delta" THEN Delta(p, <<a, n>>) ELSE Completed(p)

\* What a record does to the state.  The n-th delta of a carries its n-th piece.
Handled(p, a, n) ==
  CASE written[a][n] = "message.started" -> p
    [] written[a][n] = "message.delta" -> Delta(p, <<a, n - 1>>)
    [] written[a][n] = "message.completed" -> Completed(p)
    [] written[a][n] = "guardrail.intervened" -> GuardrailIntervened(p)
    [] written[a][n] = "error" -> Failed(p)

\* parseSse yields the next record.
TakeRecord(a) ==
  /\ reader[a] = "reading" /\ taken[a] < Len(written[a])
  /\ taken' = [taken EXCEPT ![a] = @ + 1]
  /\ page' = Handled(page, a, taken[a] + 1)
  /\ UNCHANGED <<signing, started, stored, attempts, reader, bff, written, line>>

\* The stream is over: sendMessage returns, whatever was the last record.
EndOfStream(a) ==
  /\ reader[a] = "reading" /\ taken[a] = Len(written[a]) /\ line[a] = "closed"
  /\ reader' = [reader EXCEPT ![a] = "done"]
  /\ UNCHANGED <<signing, started, stored, page, attempts, taken, bff, written, line>>

\* Reading fails, with or without the records that were still to come.
BrokenStream(a) ==
  /\ reader[a] = "reading" /\ line[a] = "broken"
  /\ reader' = [reader EXCEPT ![a] = "done"]
  /\ page' = Failed(page)
  /\ UNCHANGED <<signing, started, stored, attempts, taken, bff, written, line>>
-----------------------------------------------------------------------------
(* The BFF: routeRequest, then the generator chatBody.  What it writes after *)
(* the page stopped listening is not followed.                              *)

Write(a, record) == written' = [written EXCEPT ![a] = Append(@, record)]

\* The request is authorised and well-formed, and the stream begins.
Started(a) ==
  /\ reader[a] = "fetching" /\ bff[a] = "none"
  /\ bff' = [bff EXCEPT ![a] = "streaming"]
  /\ Write(a, "message.started")
  /\ UNCHANGED <<signing, started, stored, page, attempts, reader, taken, line>>

\* AgentCore sends text, as an event or as plain data.  Other data is ignored.
Forward(a) ==
  /\ bff[a] = "streaming" /\ line[a] = "open"
  /\ Len(written[a]) <= MaxDeltas
  /\ Write(a, "message.delta")
  /\ UNCHANGED <<signing, started, stored, page, attempts, reader, taken, bff, line>>

\* Mutant: no return after guardrail_intervened or error.
AfterNoticeGoesOn(record) == IF record = "message.completed" THEN "ended" ELSE "streaming"

\* chatBody returns after its terminal record.
AfterNotice(record) == "ended"

\* The stream of AgentCore ends, intervenes or fails, or invoking it fails.
Conclude(a) ==
  /\ bff[a] = "streaming" /\ line[a] = "open"
  /\ Len(written[a]) <= MaxDeltas + 1
  /\ \E record \in Terminals :
       /\ Write(a, record)
       /\ bff' = [bff EXCEPT ![a] = AfterNotice(record)]
  /\ UNCHANGED <<signing, started, stored, page, attempts, reader, taken, line>>

\* The Lambda ends its stream.
Close(a) ==
  /\ bff[a] = "ended" /\ line[a] = "open"
  /\ line' = [line EXCEPT ![a] = "closed"]
  /\ UNCHANGED <<signing, started, stored, page, attempts, reader, taken, bff, written>>

\* The connection breaks, or the Lambda is stopped in the middle (external).
Break(a) ==
  /\ line[a] = "open" /\ bff[a] # "none"
  /\ bff[a] = "ended" => LateBreaks
  /\ line' = [line EXCEPT ![a] = "broken"]
  /\ UNCHANGED <<signing, started, stored, page, attempts, reader, taken, bff, written>>

\* The same, and what is in between ends the response in good order (external).
Cut(a) ==
  /\ Cuts
  /\ line[a] = "open" /\ bff[a] = "streaming"
  /\ line' = [line EXCEPT ![a] = "closed"]
  /\ UNCHANGED <<signing, started, stored, page, attempts, reader, taken, bff, written>>
-----------------------------------------------------------------------------
Receive(a) ==
  Expired(a) \/ Rejected(a) \/ Accepted(a) \/ TakeRecord(a) \/ EndOfStream(a) \/ BrokenStream(a)
Respond(a) == Started(a) \/ Forward(a) \/ Conclude(a) \/ Close(a)

WebChatNext ==
  \/ Start \/ SignInClick \/ SignInFails \/ Submit \/ Retry \/ SignOut
  \/ \E a \in Attempts : Receive(a) \/ Respond(a) \/ Break(a) \/ Cut(a)

WebChatSpec == WebChatInit /\ [][WebChatNext]_webChatVars

\* The page handles what it gets, and the Lambda runs.
FairWebChatSpec ==
  WebChatSpec /\ \A a \in Attempts : WF_webChatVars(Receive(a)) /\ WF_webChatVars(Respond(a))
-----------------------------------------------------------------------------
(* Properties.                                                              *)

WebChatTypeOK ==
  /\ started \in BOOLEAN
  /\ stored \in BOOLEAN
  /\ clicks \in 0..MaxSignInClicks /\ form \in {"kept", "freed"}
  /\ page \in [status : {"signed_out", "ready", "sending", "streaming", "error"},
               token : BOOLEAN, error : BOOLEAN,
               exchanges : Seq([user : Messages, bubble : Seq(Pieces)]),
               pending : Messages \union {Null}]
  /\ attempts \in 0..MaxAttempts
  /\ reader \in [Attempts -> {"none", "fetching", "reading", "done"}]
  /\ taken \in [Attempts -> Nat]
  /\ bff \in [Attempts -> {"none", "streaming", "ended"}]
  /\ written \in [Attempts -> Seq(Records)]
  /\ line \in [Attempts -> {"none", "open", "closed", "broken"}]

\* The records of a response come in the order of the design (specs/...:60-80):
\* message.started, deltas, and at most one terminal record, the last, also
\* when AgentCore goes on after an intervention or an error.
RecordsInOrder ==
  \A a \in Attempts : \A n \in 1..Len(written[a]) :
    /\ written[a][n] = "message.started" <=> n = 1
    /\ written[a][n] \in Terminals => n = Len(written[a])

\* What a retry would send is what the last exchange shows as sent by the user,
\* and no message is shown twice for it: every exchange was a submission.  A page
\* that is ready has nothing to retry, unless start() made it ready after a message.
RetryMeansLastExchange ==
  /\ page.pending # Null =>
       /\ page.exchanges # << >>
       /\ page.pending = page.exchanges[Len(page.exchanges)].user
  /\ form = "kept" /\ page.status = "ready" => page.pending = Null

\* Every bubble is the text of one attempt from its first piece on, in order,
\* without a gap and without text of the attempt it retries or of another, unless
\* a failed sign-in freed the form while one was under way.
BubbleIsOneAnswer ==
  form = "kept" => \A e \in 1..Len(page.exchanges) : LET bubble == page.exchanges[e].bubble IN
    \A n \in 1..Len(bubble) : bubble[n] = <<bubble[1][1], n>>

\* Records, transcript and retry are in order.
ChatIsInOrder == RecordsInOrder /\ RetryMeansLastExchange /\ BubbleIsOneAnswer

\* While a request is on its way or its answer is still coming in, the user of
\* a page that did not sign out cannot start another (design, "Browser behavior": "sending:
\* submitted user message shown and controls disabled").  Only a sign-in or a
\* start() that ends over it frees the form for one.
OneAttemptAtATime ==
  form = "kept" =>
    \A a \in Attempts : Alive(a) => page.status \in {"sending", "streaming", "signed_out"}

\* A page that signed out shows nothing but the sign-in action until it is left
\* for it (design, "Browser behavior": "signed out: sign-in action only").
SignedOutStays ==
  [][started /\ page.status = "signed_out" => page'.status = "signed_out"]_webChatVars

\* Every message that was sent comes to an end the user sees: an answer, an
\* intervention, or an error with the retry action.
EverySendEnds ==
  page.status \in {"sending", "streaming"} ~> page.status \notin {"sending", "streaming"}

\* The same, unless a response was cut off in good order.
UncutSendEnds ==
  page.status \in {"sending", "streaming"} ~>
    \/ page.status \notin {"sending", "streaming"}
    \/ \E a \in Attempts : line[a] = "closed" /\ bff[a] = "streaming"
=============================================================================
