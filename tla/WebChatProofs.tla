---------------------------- MODULE WebChatProofs ----------------------------
(***************************************************************************)
(* What TLAPS proves of the web chat (WebChat), for every set of messages  *)
(* and any number of requests, deltas and cut streams.                     *)
(*                                                                         *)
(* Two invariants carry the proofs.  ServerInv says of each request by     *)
(* itself what its response is like and how much of it the page has taken. *)
(* ChatPageInv adds what ties the page to the requests, until a sign-in or *)
(* start() that ends over a message frees the form: at most one of them is *)
(* alive, and the last bubble is what the page has taken of that one.      *)
(***************************************************************************)
EXTENDS WebChat, SequenceTheorems, TLAPS

(***************************************************************************)
(* The inductive invariants.                                               *)
(***************************************************************************)

\* Requests not made yet have left no trace.
FutureIsUntouched ==
  \A a \in Attempts : a > attempts =>
    /\ reader[a] = "none" /\ taken[a] = 0
    /\ bff[a] = "none" /\ written[a] = << >> /\ line[a] = "none"

\* What the BFF has written so far: nothing, a message.started with deltas, or
\* those with a terminal record at the end.
WrittenSoFar(a) ==
  /\ bff[a] = "none" => written[a] = << >>
  /\ bff[a] = "streaming" =>
       /\ written[a] # << >>
       /\ \A n \in 1..Len(written[a]) : written[a][n] \notin Terminals
  /\ \A n \in 1..Len(written[a]) :
       /\ written[a][n] = "message.started" <=> n = 1
       /\ written[a][n] \in Terminals => n = Len(written[a])
       /\ written[a][n] = "message.delta" => n - 1 \in 1..MaxDeltas

\* The page takes what was written, and only once it reads.
TakenSoFar(a) ==
  /\ taken[a] <= Len(written[a])
  /\ reader[a] \in {"none", "fetching"} => taken[a] = 0

\* A page that has sent nothing, or is signed out, shows nothing.
PageAtRest ==
  /\ attempts = 0 => page.exchanges = << >> /\ page.pending = Null
  /\ page.status = "signed_out" => page.exchanges = << >> /\ page.pending = Null

ServerInv ==
  /\ WebChatTypeOK
  /\ FutureIsUntouched
  /\ \A a \in Attempts : WrittenSoFar(a) /\ TakenSoFar(a)
  /\ PageAtRest
  /\ RetryMeansLastExchange

LastBubble == page.exchanges[Len(page.exchanges)].bubble

\* While a request is alive the form is blocked, or the page is signed out; if
\* it is not, the last bubble is the text of that request.
AliveIsShown(a) ==
  /\ page.status \in {"sending", "streaming", "signed_out"}
  /\ page.status # "signed_out" =>
       /\ page.exchanges # << >>
       /\ Len(LastBubble) = (IF taken[a] = 0 THEN 0 ELSE taken[a] - 1)
       /\ \A n \in 1..Len(LastBubble) : LastBubble[n] = <<a, n>>

ChatPageInv ==
  /\ form = "kept" =>
       /\ \A a, b \in Attempts : Alive(a) /\ Alive(b) => a = b
       /\ \A a \in Attempts : Alive(a) => AliveIsShown(a)
  /\ \A a \in Attempts : line[a] = "broken" => bff[a] = "streaming"
  /\ BubbleIsOneAnswer
-----------------------------------------------------------------------------
(***************************************************************************)
(* The operators of reduce.                                                *)
(***************************************************************************)

Exchanges == [user : Messages, bubble : Seq(Pieces)]

Pages ==
  [status : {"signed_out", "ready", "sending", "streaming", "error"},
   token : BOOLEAN, error : BOOLEAN,
   exchanges : Seq(Exchanges), pending : Messages \union {Null}]

\* The first state of the page is one of its states, and so is what a dispatch
\* that leaves the transcript alone makes of one of them.
LEMMA PlainDispatch ==
  /\ InitialState \in Pages
  /\ \A p \in Pages : /\ SignedIn(p) \in Pages /\ Completed(p) \in Pages
                      /\ GuardrailIntervened(p) \in Pages /\ Failed(p) \in Pages
<1>1. InitialState \in Pages
  BY EmptySeq DEF Pages, InitialState
<1>2. ASSUME NEW p \in Pages
      PROVE  /\ SignedIn(p) \in Pages /\ Completed(p) \in Pages
             /\ GuardrailIntervened(p) \in Pages /\ Failed(p) \in Pages
  BY DEF Pages, SignedIn, Completed, GuardrailIntervened, Failed
<1> QED
  BY <1>1, <1>2

\* Submitting appends an exchange with an empty bubble.
LEMMA SendStartedDoes ==
  ASSUME NEW p \in Pages, NEW m \in Messages
  PROVE  LET q == SendStarted(p, m) IN
         /\ q \in Pages /\ q.status = "sending" /\ q.pending = m
         /\ Len(q.exchanges) = Len(p.exchanges) + 1
         /\ \A e \in 1..Len(p.exchanges) : q.exchanges[e] = p.exchanges[e]
         /\ q.exchanges[Len(q.exchanges)] = [user |-> m, bubble |-> << >>]
<1> DEFINE x == [user |-> m, bubble |-> << >>]
<1>1. p.exchanges \in Seq(Exchanges) /\ x \in Exchanges
  BY DEF Pages, Exchanges
<1>2. /\ Append(p.exchanges, x) \in Seq(Exchanges)
      /\ Len(Append(p.exchanges, x)) = Len(p.exchanges) + 1
      /\ \A e \in 1..Len(p.exchanges) : Append(p.exchanges, x)[e] = p.exchanges[e]
      /\ Append(p.exchanges, x)[Len(p.exchanges) + 1] = x
  BY <1>1
<1> HIDE DEF x
<1>3. SendStarted(p, m) =
        [p EXCEPT !.status = "sending", !.pending = m, !.error = FALSE,
                  !.exchanges = Append(p.exchanges, x)]
  BY DEF SendStarted, Pages, x
<1>4. /\ SendStarted(p, m) \in Pages /\ SendStarted(p, m).status = "sending"
      /\ SendStarted(p, m).pending = m
      /\ SendStarted(p, m).exchanges = Append(p.exchanges, x)
  BY <1>2, <1>3 DEF Pages
<1> QED
  BY <1>2, <1>4 DEF x

\* t is the transcript s, but for its last bubble, which is b.
SameButLast(s, t, b) ==
  /\ t # << >> /\ Len(t) = Len(s)
  /\ \A e \in 1..Len(s) :
       /\ t[e].user = s[e].user
       /\ t[e].bubble = IF e = Len(s) THEN b ELSE s[e].bubble

\* Replacing the bubble of one exchange leaves the others as they are.
LEMMA BubbleReplaced ==
  ASSUME NEW s \in Seq(Exchanges), s # << >>, NEW b \in Seq(Pieces)
  PROVE  LET t == [s EXCEPT ![Len(s)].bubble = b] IN
         t \in Seq(Exchanges) /\ SameButLast(s, t, b)
<1> DEFINE t == [s EXCEPT ![Len(s)].bubble = b]
<1>1. Len(s) \in Nat /\ Len(s) > 0 /\ s \in [1..Len(s) -> Exchanges]
  BY EmptySeq, LenProperties
<1>2. t \in [1..Len(s) -> Exchanges]
  BY <1>1 DEF Exchanges
<1>3. \A e \in 1..Len(s) :
        /\ t[e].user = s[e].user
        /\ t[e].bubble = IF e = Len(s) THEN b ELSE s[e].bubble
  BY <1>1 DEF Exchanges
<1>4. t \in Seq(Exchanges) /\ Len(t) = Len(s)
  BY <1>1, <1>2
<1>5. t # << >>
  BY <1>1, <1>4, EmptySeq
<1> QED
  BY <1>3, <1>4, <1>5 DEF SameButLast

\* A delta is appended to the last bubble, and nothing else changes in the
\* transcript.
LEMMA DeltaDoes ==
  ASSUME NEW p \in Pages, p.exchanges # << >>, NEW piece \in Pieces
  PROVE  LET q == Delta(p, piece)
             last == p.exchanges[Len(p.exchanges)] IN
         /\ q \in Pages /\ q.status = "streaming" /\ q.pending = p.pending
         /\ last.bubble \in Seq(Pieces)
         /\ SameButLast(p.exchanges, q.exchanges, Append(last.bubble, piece))
<1> DEFINE s == p.exchanges
           b == Append(s[Len(s)].bubble, piece)
           t == [s EXCEPT ![Len(s)].bubble = b]
<1>1. s \in Seq(Exchanges) /\ Len(s) \in 1..Len(s)
  BY EmptySeq, LenProperties DEF Pages
<1>2. s[Len(s)].bubble \in Seq(Pieces) /\ b \in Seq(Pieces)
  <2>1. s[Len(s)] \in Exchanges
    BY <1>1, ElementOfSeq
  <2> QED
    BY <2>1, AppendProperties DEF Exchanges
<1>3. Delta(p, piece) = [p EXCEPT !.status = "streaming", !.exchanges = t]
  BY <1>1 DEF Delta, Pages
<1>4. t \in Seq(Exchanges) /\ SameButLast(s, t, b)
  BY <1>1, <1>2, BubbleReplaced
<1> HIDE DEF t
<1>5. /\ Delta(p, piece) \in Pages /\ Delta(p, piece).status = "streaming"
      /\ Delta(p, piece).pending = p.pending /\ Delta(p, piece).exchanges = t
  BY <1>3, <1>4 DEF Pages
<1> QED
  BY <1>2, <1>4, <1>5

\* A retry empties the last bubble.
LEMMA RetriedDoes ==
  ASSUME NEW p \in Pages, p.exchanges # << >>
  PROVE  LET q == Retried(p) IN
         /\ q \in Pages /\ q.status = "sending" /\ q.pending = p.pending
         /\ SameButLast(p.exchanges, q.exchanges, << >>)
<1> DEFINE s == p.exchanges
           t == [s EXCEPT ![Len(s)].bubble = << >>]
<1>1. s \in Seq(Exchanges) /\ << >> \in Seq(Pieces)
  BY DEF Pages
<1>2. Retried(p) = [p EXCEPT !.status = "sending", !.error = FALSE, !.exchanges = t]
  BY DEF Retried, Pages
<1>3. t \in Seq(Exchanges) /\ SameButLast(s, t, << >>)
  BY <1>1, BubbleReplaced
<1> HIDE DEF t
<1>4. /\ Retried(p) \in Pages /\ Retried(p).status = "sending"
      /\ Retried(p).pending = p.pending /\ Retried(p).exchanges = t
  BY <1>2, <1>3 DEF Pages
<1> QED
  BY <1>3, <1>4
-----------------------------------------------------------------------------
(***************************************************************************)
(* ServerInv is inductive.                                                 *)
(***************************************************************************)

LEMMA ServerInvInit == WebChatInit => ServerInv
<1> SUFFICES ASSUME WebChatInit PROVE ServerInv
  OBVIOUS
<1>1. WebChatTypeOK
  <2>1. page \in Pages /\ << >> \in Seq(Records)
    BY PlainDispatch, EmptySeq DEF WebChatInit
  <2>2. started \in BOOLEAN /\ stored \in BOOLEAN
    BY DEF WebChatInit
  <2>3. attempts \in 0..MaxAttempts /\ clicks \in 0..MaxSignInClicks /\ form = "kept"
    BY WebChatAssumption DEF WebChatInit
  <2>4. /\ reader \in [Attempts -> {"none", "fetching", "reading", "done"}]
        /\ taken \in [Attempts -> Nat]
        /\ bff \in [Attempts -> {"none", "streaming", "ended"}]
        /\ line \in [Attempts -> {"none", "open", "closed", "broken"}]
    BY DEF WebChatInit
  <2>5. written \in [Attempts -> Seq(Records)]
    BY <2>1 DEF WebChatInit
  <2> QED
    BY <2>1, <2>2, <2>3, <2>4, <2>5 DEF WebChatTypeOK, Pages, Exchanges
<1>2. FutureIsUntouched /\ PageAtRest /\ RetryMeansLastExchange
  BY DEF WebChatInit, FutureIsUntouched, PageAtRest, RetryMeansLastExchange, InitialState
<1>3. \A a \in Attempts : WrittenSoFar(a) /\ TakenSoFar(a)
  BY DEF WebChatInit, WrittenSoFar, TakenSoFar
<1> QED
  BY <1>1, <1>2, <1>3 DEF ServerInv

\* Typing as it is used: the page is one of Pages.
LEMMA Typing ==
  ASSUME WebChatTypeOK
  PROVE  /\ page \in Pages /\ attempts \in 0..MaxAttempts
         /\ started \in BOOLEAN /\ stored \in BOOLEAN
         /\ clicks \in 0..MaxSignInClicks /\ form \in {"kept", "freed"}
         /\ \A a \in Attempts :
              /\ taken[a] \in Nat /\ Len(written[a]) \in Nat
              /\ written[a] \in Seq(Records)
  BY LenProperties DEF WebChatTypeOK, Pages, Exchanges

\* What a record of a does to the page is one of these.
LEMMA HandledDoes ==
  ASSUME ServerInv, NEW a \in Attempts, taken[a] < Len(written[a])
  PROVE  LET n == taken[a] + 1
             q == Handled(page, a, n) IN
         \/ written[a][n] = "message.started" /\ n = 1 /\ q = page
         \/ /\ written[a][n] = "message.delta" /\ n > 1 /\ <<a, n - 1>> \in Pieces
            /\ q = Delta(page, <<a, n - 1>>)
         \/ /\ written[a][n] \in Terminals /\ n = Len(written[a])
            /\ q \in {Completed(page), GuardrailIntervened(page), Failed(page)}
<1> DEFINE n == taken[a] + 1
<1>1. n \in 1..Len(written[a]) /\ written[a][n] \in Records
  BY Typing, ElementOfSeq DEF ServerInv
<1>2. /\ written[a][n] = "message.started" <=> n = 1
      /\ written[a][n] \in Terminals => n = Len(written[a])
      /\ written[a][n] = "message.delta" => n - 1 \in 1..MaxDeltas
  BY <1>1 DEF ServerInv, WrittenSoFar
<1> HIDE DEF n
<1>3. CASE written[a][n] = "message.started"
  BY <1>2, <1>3 DEF Handled, n
<1>4. CASE written[a][n] = "message.delta"
  BY <1>1, <1>2, <1>4 DEF Handled, Pieces, n
<1>5. CASE written[a][n] \in Terminals
  BY <1>2, <1>5 DEF Handled, Terminals, n
<1> QED
  BY <1>1, <1>3, <1>4, <1>5 DEF Records

\* A dispatch for a record leaves the page one of its states, and keeps what
\* PageAtRest and RetryMeansLastExchange say of it.
LEMMA HandledKeeps ==
  ASSUME ServerInv, NEW a \in Attempts, taken[a] < Len(written[a]),
         page' = Handled(page, a, taken[a] + 1), form' = form
  PROVE  /\ page' \in Pages /\ RetryMeansLastExchange'
         /\ page'.status = "signed_out" =>
              page'.exchanges = << >> /\ page'.pending = Null
<1> DEFINE n == taken[a] + 1
<1>1. /\ page \in Pages /\ RetryMeansLastExchange
      /\ page.status = "signed_out" => page.exchanges = << >> /\ page.pending = Null
  BY Typing DEF ServerInv, PageAtRest
<1>2. CASE page' = page
  BY <1>1, <1>2 DEF RetryMeansLastExchange
<1>3. ASSUME NEW piece \in Pieces, page' = Delta(page, piece)
      PROVE  /\ page' \in Pages /\ RetryMeansLastExchange'
             /\ page'.status # "signed_out" \/ page' = page
  <2>1. CASE page.exchanges = << >>
    BY <1>1, <1>3, <2>1 DEF Delta, RetryMeansLastExchange
  <2>2. CASE page.exchanges # << >>
    <3>1. page.exchanges \in Seq(Exchanges) /\ Len(page.exchanges) \in 1..Len(page.exchanges)
      BY <1>1, <2>2, EmptySeq DEF Pages
    <3> DEFINE q == Delta(page, piece)
               b == Append(page.exchanges[Len(page.exchanges)].bubble, piece)
    <3>2. /\ q \in Pages /\ q.status = "streaming" /\ q.pending = page.pending
          /\ SameButLast(page.exchanges, q.exchanges, b)
      BY <1>1, <2>2, DeltaDoes
    <3> HIDE DEF q, b
    <3>3. /\ q.exchanges # << >>
          /\ q.exchanges[Len(q.exchanges)].user
               = page.exchanges[Len(page.exchanges)].user
      BY <3>1, <3>2 DEF SameButLast
    <3> QED
      BY <1>1, <1>3, <2>2, <3>2, <3>3 DEF RetryMeansLastExchange, q
  <2> QED
    BY <2>1, <2>2
<1>4. CASE page' \in {Completed(page), GuardrailIntervened(page), Failed(page)}
  <2>1. page' \in Pages
    BY <1>1, <1>4, PlainDispatch
  <2> QED
    BY <1>1, <1>4, <2>1
    DEF Pages, Completed, GuardrailIntervened, Failed, RetryMeansLastExchange
<1> QED
  BY <1>1, <1>2, <1>3, <1>4, HandledDoes

\* A page that changes in no way, or as the errors and the first dispatches
\* have it, keeps them too.
LEMMA PlainKeeps ==
  ASSUME ServerInv, form' = "kept" => form = "kept",
         page' \in {page, InitialState, Failed(page)}
           \/ ((form' = "freed" \/ attempts = 0) /\ page' = SignedIn(page))
  PROVE  /\ page' \in Pages /\ RetryMeansLastExchange'
         /\ page'.status = "signed_out" =>
              page'.exchanges = << >> /\ page'.pending = Null
<1>1. /\ page \in Pages /\ RetryMeansLastExchange
      /\ page.status = "signed_out" => page.exchanges = << >> /\ page.pending = Null
      /\ attempts = 0 => page.exchanges = << >> /\ page.pending = Null
  BY Typing DEF ServerInv, PageAtRest
<1>2. page' \in Pages
  BY <1>1, PlainDispatch
<1>3. CASE page' = page
  BY <1>1, <1>2, <1>3 DEF RetryMeansLastExchange
<1>4. CASE page' = InitialState
  BY <1>2, <1>4 DEF InitialState, RetryMeansLastExchange
<1>5. CASE page' = Failed(page)
  BY <1>1, <1>2, <1>5 DEF Pages, Failed, RetryMeansLastExchange
<1>6. CASE (form' = "freed" \/ attempts = 0) /\ page' = SignedIn(page)
  <2>1. /\ page'.status = "ready" /\ page'.pending = page.pending
        /\ page'.exchanges = page.exchanges
    BY <1>1, <1>6 DEF Pages, SignedIn
  <2> QED
    BY <1>1, <1>2, <1>6, <2>1 DEF RetryMeansLastExchange
<1> QED
  BY <1>2, <1>3, <1>4, <1>5, <1>6

\* Sending keeps them: what is pending is what was appended, or what the last
\* exchange was about before.
LEMMA SendKeeps ==
  ASSUME ServerInv, Submit \/ Retry
  PROVE  /\ page' \in Pages /\ RetryMeansLastExchange'
         /\ page'.status = "signed_out" =>
              page'.exchanges = << >> /\ page'.pending = Null
<1>1. /\ page \in Pages /\ RetryMeansLastExchange /\ stored \in BOOLEAN
      /\ form' = form
  BY Typing DEF ServerInv, Submit, Retry, SendMessage, signing
<1>2. PICK p \in Pages :
        /\ p.status = "sending" /\ p.exchanges # << >>
        /\ p.pending = p.exchanges[Len(p.exchanges)].user
        /\ SendMessage(p)
  <2>1. CASE Submit
    <3>1. PICK m \in Messages : SendMessage(SendStarted(page, m))
      BY <2>1 DEF Submit
    <3> DEFINE q == SendStarted(page, m)
    <3>2. /\ q \in Pages /\ q.status = "sending" /\ q.pending = m
          /\ Len(q.exchanges) = Len(page.exchanges) + 1
          /\ q.exchanges[Len(q.exchanges)] = [user |-> m, bubble |-> << >>]
      BY <1>1, SendStartedDoes
    <3> HIDE DEF q
    <3>3. q.exchanges # << >>
      <4>1. Len(page.exchanges) \in Nat
        BY <1>1, LenProperties DEF Pages
      <4> QED
        BY <4>1, <3>2, EmptySeq
    <3> QED
      BY <3>1, <3>2, <3>3 DEF q
  <2>2. CASE Retry
    <3>1. /\ page.exchanges # << >> /\ SendMessage(Retried(page))
          /\ page.pending = page.exchanges[Len(page.exchanges)].user
      BY <1>1, <2>2 DEF Retry, RetryMeansLastExchange
    <3> DEFINE q == Retried(page)
    <3>2. /\ q \in Pages /\ q.status = "sending" /\ q.pending = page.pending
          /\ SameButLast(page.exchanges, q.exchanges, << >>)
      BY <1>1, <3>1, RetriedDoes
    <3> HIDE DEF q
    <3>3. Len(page.exchanges) \in 1..Len(page.exchanges)
      BY <1>1, <3>1, EmptySeq DEF Pages
    <3>4. q.exchanges # << >> /\ q.exchanges[Len(q.exchanges)].user = page.pending
      BY <3>1, <3>2, <3>3 DEF SameButLast
    <3> QED
      BY <3>1, <3>2, <3>4 DEF q
  <2> QED
    BY <2>1, <2>2
<1>3. page' = p \/ page' = Failed(p)
  BY <1>2 DEF SendMessage
<1>4. page' \in Pages
  BY <1>3, PlainDispatch
<1> QED
  BY <1>2, <1>3, <1>4 DEF Pages, Failed, RetryMeansLastExchange

LEMMA PageStep ==
  ASSUME ServerInv, WebChatNext
  PROVE  /\ page' \in Pages /\ RetryMeansLastExchange'
         /\ page'.status = "signed_out" =>
              page'.exchanges = << >> /\ page'.pending = Null
<1>0. attempts \in Nat
  BY Typing, WebChatAssumption DEF ServerInv
<1>1. CASE Start
  <2>1. attempts > 0 => form' = "freed"
    BY <1>1 DEF Start
  <2>2. form' = "kept" => form = "kept"
    BY <1>1 DEF Start
  <2>3. page' \in {SignedIn(page), InitialState, Failed(page)}
    BY <1>1 DEF Start
  <2> QED
    BY <1>0, <2>1, <2>2, <2>3, PlainKeeps
<1>2. CASE Submit \/ Retry
  BY <1>2, SendKeeps
<1>3. CASE SignOut \/ SignInClick \/ SignInFails
  <2>1. page' \in {page, InitialState, Failed(page)}
    BY <1>3 DEF SignOut, SignInClick, SignInFails
  <2>2. form' = "kept" => form = "kept"
    BY <1>3 DEF SignOut, SignInClick, SignInFails, signing
  <2> QED
    BY <2>1, <2>2, PlainKeeps
<1>4. ASSUME NEW a \in Attempts, TakeRecord(a)
      PROVE  /\ page' \in Pages /\ RetryMeansLastExchange'
             /\ page'.status = "signed_out" =>
                  page'.exchanges = << >> /\ page'.pending = Null
  BY <1>4, HandledKeeps DEF TakeRecord, signing
<1>5. ASSUME NEW a \in Attempts,
             \/ Expired(a) \/ Rejected(a) \/ Accepted(a) \/ EndOfStream(a)
             \/ BrokenStream(a) \/ Respond(a) \/ Break(a) \/ Cut(a)
      PROVE  page' \in {page, InitialState, Failed(page)} /\ form' = form
  BY <1>5 DEF Expired, Rejected, Accepted, EndOfStream, BrokenStream, Respond, Started,
              Forward, Conclude, Close, Break, Cut, signing
<1> QED
  BY <1>1, <1>2, <1>3, <1>4, <1>5, PlainKeeps DEF WebChatNext, Receive

\* Every action of a is about a request that was made.
LEMMA ActsOnMade ==
  ASSUME ServerInv, NEW a \in Attempts, Receive(a) \/ Respond(a) \/ Break(a) \/ Cut(a)
  PROVE  a <= attempts
<1>1. a \in Nat /\ attempts \in Nat
  BY Typing, WebChatAssumption DEF ServerInv, Attempts
<1>2. \/ reader[a] \in {"fetching", "reading"} \/ line[a] = "open"
  BY DEF Receive, Respond, Expired, Rejected, Accepted, TakeRecord, EndOfStream,
         BrokenStream, Started, Forward, Conclude, Close, Break, Cut
<1> QED
  BY <1>1, <1>2 DEF ServerInv, FutureIsUntouched

\* What Next may do to the requests: make one, or let one of them go on.
LEMMA RequestStep ==
  ASSUME ServerInv, WebChatNext
  PROVE  \/ UNCHANGED <<attempts, reader, taken, bff, written, line>>
         \/ /\ attempts < MaxAttempts /\ attempts' = attempts + 1
            /\ reader' \in {[reader EXCEPT ![attempts + 1] = r] : r \in {"fetching", "done"}}
            /\ line' \in {[line EXCEPT ![attempts + 1] = l] : l \in {"open", "none"}}
            /\ UNCHANGED <<taken, bff, written>>
         \/ \E a \in 1..attempts : Receive(a) \/ Respond(a) \/ Break(a) \/ Cut(a)
<1>1. CASE Start \/ SignOut \/ SignInClick \/ SignInFails
  BY <1>1 DEF Start, SignOut, SignInClick, SignInFails
<1>2. CASE Submit \/ Retry
  BY <1>2 DEF Submit, Retry, SendMessage
<1>3. ASSUME NEW a \in Attempts, Receive(a) \/ Respond(a) \/ Break(a) \/ Cut(a)
      PROVE  a \in 1..attempts
  BY <1>3, ActsOnMade, Typing DEF ServerInv, Attempts
<1> QED
  BY <1>1, <1>2, <1>3 DEF WebChatNext

\* The responses keep their form: whatever a request does, it appends at most
\* one record, and after a terminal record none.
LEMMA ResponseStep ==
  ASSUME ServerInv, WebChatNext
  PROVE  /\ attempts' \in 0..MaxAttempts
         /\ reader' \in [Attempts -> {"none", "fetching", "reading", "done"}]
         /\ taken' \in [Attempts -> Nat]
         /\ bff' \in [Attempts -> {"none", "streaming", "ended"}]
         /\ written' \in [Attempts -> Seq(Records)]
         /\ line' \in [Attempts -> {"none", "open", "closed", "broken"}]
         /\ FutureIsUntouched'
         /\ \A a \in Attempts : WrittenSoFar(a)' /\ TakenSoFar(a)'
<1> DEFINE Goal ==
      /\ attempts' \in 0..MaxAttempts
      /\ reader' \in [Attempts -> {"none", "fetching", "reading", "done"}]
      /\ taken' \in [Attempts -> Nat]
      /\ bff' \in [Attempts -> {"none", "streaming", "ended"}]
      /\ written' \in [Attempts -> Seq(Records)]
      /\ line' \in [Attempts -> {"none", "open", "closed", "broken"}]
      /\ FutureIsUntouched'
      /\ \A a \in Attempts : WrittenSoFar(a)' /\ TakenSoFar(a)'
<1>1. /\ attempts \in 0..MaxAttempts /\ MaxAttempts \in Nat /\ MaxDeltas \in Nat
      /\ reader \in [Attempts -> {"none", "fetching", "reading", "done"}]
      /\ taken \in [Attempts -> Nat]
      /\ bff \in [Attempts -> {"none", "streaming", "ended"}]
      /\ written \in [Attempts -> Seq(Records)]
      /\ line \in [Attempts -> {"none", "open", "closed", "broken"}]
      /\ FutureIsUntouched
      /\ \A a \in Attempts : WrittenSoFar(a) /\ TakenSoFar(a)
  BY WebChatAssumption DEF ServerInv, WebChatTypeOK
<1>2. CASE UNCHANGED <<attempts, reader, taken, bff, written, line>>
  BY <1>1, <1>2 DEF FutureIsUntouched, WrittenSoFar, TakenSoFar
<1>3. CASE /\ attempts < MaxAttempts /\ attempts' = attempts + 1
           /\ reader' \in {[reader EXCEPT ![attempts + 1] = r] : r \in {"fetching", "done"}}
           /\ line' \in {[line EXCEPT ![attempts + 1] = l] : l \in {"open", "none"}}
           /\ UNCHANGED <<taken, bff, written>>
  <2>1. attempts + 1 \in Attempts /\ attempts + 1 > attempts
    BY <1>1, <1>3 DEF Attempts
  <2> PICK r \in {"fetching", "done"}, l \in {"open", "none"} :
        /\ reader' = [reader EXCEPT ![attempts + 1] = r]
        /\ line' = [line EXCEPT ![attempts + 1] = l]
    BY <1>3
  <2>2. FutureIsUntouched'
    <3> SUFFICES ASSUME NEW b \in Attempts, b > attempts'
                 PROVE  /\ reader'[b] = "none" /\ taken'[b] = 0
                        /\ bff'[b] = "none" /\ written'[b] = << >> /\ line'[b] = "none"
      BY DEF FutureIsUntouched
    <3>1. b > attempts /\ b # attempts + 1
      BY <1>1, <1>3 DEF Attempts
    <3> QED
      BY <1>1, <1>3, <3>1 DEF FutureIsUntouched
  <2>3. \A a \in Attempts : WrittenSoFar(a)' /\ TakenSoFar(a)'
    BY <1>1, <1>3, <2>1 DEF FutureIsUntouched, WrittenSoFar, TakenSoFar
  <2>4. /\ attempts' \in 0..MaxAttempts
        /\ reader' \in [Attempts -> {"none", "fetching", "reading", "done"}]
        /\ line' \in [Attempts -> {"none", "open", "closed", "broken"}]
    BY <1>1, <1>3, <2>1
  <2> QED
    BY <1>1, <1>3, <2>2, <2>3, <2>4
<1>4. ASSUME NEW a \in 1..attempts, Receive(a)
      PROVE  Goal
  <2>1. a \in Attempts /\ attempts' = attempts /\ UNCHANGED <<bff, written>>
    BY <1>1, <1>4 DEF Receive, Expired, Rejected, Accepted, TakeRecord, EndOfStream,
                      BrokenStream, Attempts
  <2>2. PICK r \in {"reading", "done"} : reader' = reader \/ reader' = [reader EXCEPT ![a] = r]
    BY <1>4 DEF Receive, Expired, Rejected, Accepted, TakeRecord, EndOfStream, BrokenStream
  <2>3. line' = line \/ line' = [line EXCEPT ![a] = "none"]
    BY <1>4 DEF Receive, Expired, Rejected, Accepted, TakeRecord, EndOfStream, BrokenStream
  <2>4. \/ taken' = taken
        \/ /\ taken' = [taken EXCEPT ![a] = @ + 1] /\ reader' = reader
           /\ reader[a] = "reading" /\ taken[a] < Len(written[a])
    BY <1>4 DEF Receive, Expired, Rejected, Accepted, TakeRecord, EndOfStream, BrokenStream
  <2>5. FutureIsUntouched'
    <3>1. \A b \in Attempts : b > attempts => b # a
      BY <1>1 DEF Attempts
    <3> QED
      BY <1>1, <2>1, <2>2, <2>3, <2>4, <3>1 DEF FutureIsUntouched
  <2>6. \A b \in Attempts : WrittenSoFar(b)'
    BY <1>1, <2>1 DEF WrittenSoFar
  <2>7. \A b \in Attempts : TakenSoFar(b)'
    <3> SUFFICES ASSUME NEW b \in Attempts PROVE TakenSoFar(b)'
      OBVIOUS
    <3>1. Len(written[b]) \in Nat /\ taken[b] \in Nat /\ TakenSoFar(b)
      BY <1>1, LenProperties
    <3> QED
      BY <1>1, <2>1, <2>2, <2>4, <3>1 DEF TakenSoFar
  <2>8. reader' \in [Attempts -> {"none", "fetching", "reading", "done"}]
    BY <1>1, <2>2
  <2>9. line' \in [Attempts -> {"none", "open", "closed", "broken"}]
    BY <1>1, <2>3
  <2>10. taken' \in [Attempts -> Nat]
    BY <1>1, <2>4
  <2> QED
    BY <1>1, <2>1, <2>5, <2>6, <2>7, <2>8, <2>9, <2>10
<1>5. ASSUME NEW a \in 1..attempts, Started(a) \/ Forward(a) \/ Conclude(a)
      PROVE  Goal
  <2>1. /\ a \in Attempts /\ UNCHANGED <<attempts, reader, taken, line>>
        /\ Len(written[a]) \in Nat /\ WrittenSoFar(a)
    BY <1>1, <1>5, LenProperties DEF Started, Forward, Conclude, Attempts
  <2>2. PICK record \in Records, s \in {"streaming", "ended"} :
          /\ written' = [written EXCEPT ![a] = Append(@, record)]
          /\ bff' = [bff EXCEPT ![a] = s]
          /\ record = "message.started" <=> Len(written[a]) = 0
          /\ record = "message.delta" => Len(written[a]) \in 1..MaxDeltas
          /\ record \in Terminals <=> s = "ended"
          /\ \A n \in 1..Len(written[a]) : written[a][n] \notin Terminals
    <3>1. CASE Started(a)
      BY <1>1, <2>1, <3>1, EmptySeq
      DEF Started, Write, WrittenSoFar, Records, Terminals
    <3>2. CASE Forward(a)
      <4>1. Len(written[a]) # 0 /\ \A n \in 1..Len(written[a]) : written[a][n] \notin Terminals
        BY <1>1, <2>1, <3>2, EmptySeq DEF Forward, WrittenSoFar
      <4>2. bff' = [bff EXCEPT ![a] = "streaming"]
        BY <1>1, <2>1, <3>2 DEF Forward
      <4> QED
        BY <1>1, <2>1, <3>2, <4>1, <4>2 DEF Forward, Write, Records, Terminals
    <3>3. CASE Conclude(a)
      <4>1. Len(written[a]) # 0 /\ \A n \in 1..Len(written[a]) : written[a][n] \notin Terminals
        BY <1>1, <2>1, <3>3, EmptySeq DEF Conclude, WrittenSoFar
      <4> QED
        BY <1>1, <2>1, <3>3, <4>1 DEF Conclude, AfterNotice, Write, Records, Terminals
    <3> QED
      BY <1>5, <3>1, <3>2, <3>3
  <2> DEFINE w == Append(written[a], record)
  <2>3. /\ w \in Seq(Records) /\ Len(w) = Len(written[a]) + 1
        /\ \A n \in 1..Len(written[a]) : w[n] = written[a][n]
        /\ w[Len(w)] = record
    BY <1>1, <2>1, AppendProperties
  <2>4. written' = [written EXCEPT ![a] = w]
    BY <2>2
  <2> HIDE DEF w
  <2>5. WrittenSoFar(a)'
    <3>1. \A n \in 1..Len(w) : n \in 1..Len(written[a]) \/ n = Len(w)
      BY <2>1, <2>3
    <3>2. \A n \in 1..Len(w) :
            /\ w[n] = "message.started" <=> n = 1
            /\ w[n] \in Terminals => n = Len(w)
            /\ w[n] = "message.delta" => n - 1 \in 1..MaxDeltas
      BY <2>1, <2>2, <2>3, <3>1 DEF WrittenSoFar
    <3>3. s = "streaming" => \A n \in 1..Len(w) : w[n] \notin Terminals
      BY <2>2, <2>3, <3>1
    <3>4. w # << >>
      BY <2>1, <2>3, EmptySeq
    <3>5. written'[a] = w /\ bff'[a] = s
      BY <1>1, <2>1, <2>2, <2>4
    <3> QED
      BY <3>2, <3>3, <3>4, <3>5 DEF WrittenSoFar
  <2>6. \A b \in Attempts : b # a => WrittenSoFar(b)'
    BY <1>1, <2>1, <2>2, <2>4 DEF WrittenSoFar
  <2>7. \A b \in Attempts : TakenSoFar(b)'
    BY <1>1, <2>1, <2>3, <2>4 DEF TakenSoFar
  <2>8. FutureIsUntouched'
    <3>1. \A b \in Attempts : b > attempts => b # a
      BY <1>1 DEF Attempts
    <3> QED
      BY <1>1, <2>1, <2>2, <2>4, <3>1 DEF FutureIsUntouched
  <2>9. /\ written' \in [Attempts -> Seq(Records)]
        /\ bff' \in [Attempts -> {"none", "streaming", "ended"}]
    BY <1>1, <2>1, <2>2, <2>3, <2>4
  <2> QED
    BY <1>1, <2>1, <2>5, <2>6, <2>7, <2>8, <2>9
<1>6. ASSUME NEW a \in 1..attempts, Close(a) \/ Break(a) \/ Cut(a)
      PROVE  Goal
  <2>1. /\ a \in Attempts /\ UNCHANGED <<attempts, reader, taken, bff, written>>
        /\ \E l \in {"closed", "broken"} : line' = [line EXCEPT ![a] = l]
    BY <1>1, <1>6 DEF Close, Break, Cut, Attempts
  <2>2. FutureIsUntouched'
    BY <1>1, <2>1 DEF FutureIsUntouched, Attempts
  <2>3. line' \in [Attempts -> {"none", "open", "closed", "broken"}]
    BY <1>1, <2>1
  <2> QED
    BY <1>1, <2>1, <2>2, <2>3 DEF WrittenSoFar, TakenSoFar
<1> QED
  BY <1>2, <1>3, <1>4, <1>5, <1>6, RequestStep DEF Respond

LEMMA ServerInvStep == ServerInv /\ [WebChatNext]_webChatVars => ServerInv'
<1> SUFFICES ASSUME ServerInv, [WebChatNext]_webChatVars PROVE ServerInv'
  OBVIOUS
<1>1. CASE WebChatNext
  <2>1. /\ started' \in BOOLEAN /\ stored' \in BOOLEAN
        /\ clicks' \in 0..MaxSignInClicks /\ form' \in {"kept", "freed"}
    <3>1. /\ started \in BOOLEAN /\ stored \in BOOLEAN
          /\ clicks \in 0..MaxSignInClicks /\ form \in {"kept", "freed"}
      BY Typing DEF ServerInv
    <3>2. CASE Start \/ Submit \/ Retry \/ SignOut
      BY <3>1, <3>2 DEF Start, Submit, Retry, SendMessage, SignOut, signing
    <3>3. CASE SignInClick \/ SignInFails
      <4>1. UNCHANGED <<started, stored>> /\ form' \in {form, "freed"}
        BY <3>3 DEF SignInClick, SignInFails
      <4>2. clicks' \in 0..MaxSignInClicks
        BY <3>1, <3>3, WebChatAssumption DEF SignInClick, SignInFails
      <4> QED
        BY <3>1, <4>1, <4>2
    <3>4. ASSUME NEW a \in Attempts, Receive(a) \/ Respond(a) \/ Break(a) \/ Cut(a)
          PROVE  UNCHANGED <<started, clicks, form>> /\ stored' \in {stored, FALSE}
      BY <3>4 DEF Receive, Respond, Expired, Rejected, Accepted, TakeRecord, EndOfStream,
                  BrokenStream, Started, Forward, Conclude, Close, Break, Cut, signing
    <3> QED
      BY <1>1, <3>1, <3>2, <3>3, <3>4 DEF WebChatNext
  <2>2. PageAtRest'
    <3>1. ASSUME attempts' = 0 PROVE page'.exchanges = << >> /\ page'.pending = Null
      <4>1. attempts = 0 /\ page \in Pages
        <5>1. attempts \in Nat /\ page \in Pages
          BY Typing, WebChatAssumption DEF ServerInv
        <5>2. attempts' \in {attempts, attempts + 1}
          BY <1>1, RequestStep DEF Receive, Respond, Expired, Rejected, Accepted, TakeRecord,
             EndOfStream, BrokenStream, Started, Forward, Conclude, Close, Break, Cut
        <5> QED
          BY <3>1, <5>1, <5>2
      <4>2. page.exchanges = << >> /\ page.pending = Null
        BY <4>1 DEF ServerInv, PageAtRest
      <4>3. page' \in {page, SignedIn(page), InitialState, Failed(page)}
        <5>1. CASE Submit \/ Retry
          BY <3>1, <4>1, <5>1 DEF Submit, Retry, SendMessage
        <5>2. ASSUME NEW a \in Attempts PROVE ~(Receive(a) \/ Respond(a) \/ Break(a) \/ Cut(a))
          <6>1. a \in Nat /\ a > 0
            BY WebChatAssumption DEF Attempts
          <6> QED
            BY <4>1, <6>1, ActsOnMade
        <5> QED
          BY <1>1, <5>1, <5>2 DEF WebChatNext, Start, SignInClick, SignInFails, SignOut
      <4>4. /\ SignedIn(page).exchanges = page.exchanges /\ SignedIn(page).pending = page.pending
            /\ Failed(page).exchanges = page.exchanges /\ Failed(page).pending = page.pending
        BY <4>1 DEF SignedIn, Failed, Pages
      <4>5. InitialState.exchanges = << >> /\ InitialState.pending = Null
        BY DEF InitialState
      <4> QED
        BY <4>2, <4>3, <4>4, <4>5
    <3> QED
      BY <1>1, <3>1, PageStep DEF PageAtRest
  <2>3. WebChatTypeOK'
    <3>1. page' \in Pages
      BY <1>1, PageStep
    <3> QED
      BY <1>1, <2>1, <3>1, ResponseStep DEF WebChatTypeOK, Pages, Exchanges
  <2> QED
    BY <1>1, <2>2, <2>3, PageStep, ResponseStep DEF ServerInv
<1>2. CASE UNCHANGED webChatVars
  <2> USE <1>2 DEF webChatVars, signing
  <2>1. WebChatTypeOK' /\ FutureIsUntouched'
    BY DEF ServerInv, WebChatTypeOK, FutureIsUntouched
  <2>2. PageAtRest' /\ RetryMeansLastExchange'
    BY DEF ServerInv, PageAtRest, RetryMeansLastExchange
  <2>3. \A a \in Attempts : WrittenSoFar(a)' /\ TakenSoFar(a)'
    BY DEF ServerInv, WrittenSoFar, TakenSoFar
  <2> QED
    BY <2>1, <2>2, <2>3 DEF ServerInv
<1> QED
  BY <1>1, <1>2

LEMMA ServerInvHolds == WebChatSpec => []ServerInv
  BY ServerInvInit, ServerInvStep, PTL DEF WebChatSpec

\* The page and its requests only ever are what their types allow.
THEOREM WebChatIsTyped == WebChatSpec => []WebChatTypeOK
<1>1. ServerInv => WebChatTypeOK
  BY DEF ServerInv
<1> QED
  BY <1>1, ServerInvHolds, PTL

\* Whatever breaks, is clicked or fails, and whenever: the records of a response
\* come in the order of the design, and what a retry would send is what the last
\* exchange shows.
THEOREM RecordsAndRetryHold == WebChatSpec => [](RecordsInOrder /\ RetryMeansLastExchange)
<1>1. ServerInv => RecordsInOrder /\ RetryMeansLastExchange
  BY DEF ServerInv, WrittenSoFar, RecordsInOrder
<1> QED
  BY <1>1, ServerInvHolds, PTL
-----------------------------------------------------------------------------
(***************************************************************************)
(* ChatPageInv is inductive, if no connection breaks after the terminal record *)
(* was sent (LateBreaks; with it the run MCWebChat_late shows the opposite).*)
(***************************************************************************)

LEMMA PageInvInit == WebChatInit => ChatPageInv
  BY EmptySeq DEF WebChatInit, ChatPageInv, Alive, BubbleIsOneAnswer, InitialState

\* Bubbles that stay, or go, are as whole as they were.
LEMMA BubblesKept ==
  ASSUME BubbleIsOneAnswer, form = "kept",
         page'.exchanges = page.exchanges \/ page'.exchanges = << >>
  PROVE  BubbleIsOneAnswer'
<1>1. CASE page'.exchanges = page.exchanges
  BY <1>1 DEF BubbleIsOneAnswer
<1>2. CASE page'.exchanges = << >>
  BY <1>2, EmptySeq DEF BubbleIsOneAnswer
<1> QED
  BY <1>1, <1>2

\* A request that has records left to take is alive.
LEMMA TakerIsAlive ==
  ASSUME ServerInv, NEW a \in Attempts, reader[a] = "reading",
         taken[a] < Len(written[a]) \/ bff[a] = "streaming"
  PROVE  Alive(a)
<1>1. taken[a] \in Nat /\ Len(written[a]) \in Nat /\ taken[a] <= Len(written[a])
  BY Typing DEF ServerInv, TakenSoFar
<1> QED
  BY <1>1 DEF ServerInv, WrittenSoFar, Alive

\* And so is one that waits for its headers.
LEMMA FetcherIsAlive ==
  ASSUME ServerInv, NEW a \in Attempts, reader[a] = "fetching"
  PROVE  Alive(a) /\ taken[a] = 0
  BY DEF ServerInv, TakenSoFar, Alive

\* What the page has taken of a response is not written again.
LEMMA TakenIsFixed ==
  ASSUME ServerInv, NEW a \in Attempts, Receive(a) \/ Respond(a) \/ Break(a) \/ Cut(a),
         NEW b \in Attempts
  PROVE  \A n \in 1..taken[b] : written'[b][n] = written[b][n]
<1>1. /\ written \in [Attempts -> Seq(Records)] /\ taken[b] \in Nat
      /\ Len(written[b]) \in Nat /\ taken[b] <= Len(written[b])
  BY LenProperties DEF ServerInv, WebChatTypeOK, TakenSoFar
<1>2. CASE written' = written
  BY <1>2
<1>3. ASSUME NEW record \in Records, written' = [written EXCEPT ![a] = Append(@, record)]
      PROVE  \A n \in 1..taken[b] : written'[b][n] = written[b][n]
  BY <1>1, <1>3, AppendProperties
<1> QED
  BY <1>2, <1>3 DEF Receive, Respond, Expired, Rejected, Accepted, TakeRecord, EndOfStream,
              BrokenStream, Started, Forward, Conclude, Close, Break, Cut, Write,
              Records, Terminals

\* No step but sending brings a request to life.
LEMMA NoneComesToLife ==
  ASSUME ServerInv, NEW a \in Attempts, Receive(a) \/ Respond(a) \/ Break(a) \/ Cut(a),
         NEW b \in Attempts, Alive(b)'
  PROVE  Alive(b)
<1>1. reader'[b] \in {"fetching", "reading"} => reader[b] \in {"fetching", "reading"}
  <2>1. reader \in [Attempts -> {"none", "fetching", "reading", "done"}]
    BY DEF ServerInv, WebChatTypeOK
  <2> QED
    BY <2>1 DEF Receive, Respond, Expired, Rejected, Accepted, TakeRecord, EndOfStream,
                BrokenStream, Started, Forward, Conclude, Close, Break, Cut
<1>2. \A n \in 1..taken[b] : n \in 1..taken'[b]
  <2>1. taken \in [Attempts -> Nat]
    BY DEF ServerInv, WebChatTypeOK
  <2> QED
    BY <2>1 DEF Receive, Respond, Expired, Rejected, Accepted, TakeRecord, EndOfStream,
                BrokenStream, Started, Forward, Conclude, Close, Break, Cut
<1>3. \A n \in 1..taken[b] : written'[b][n] = written[b][n]
  BY TakenIsFixed
<1> QED
  BY <1>1, <1>2, <1>3 DEF Alive

\* Sending needs that no request is alive, and makes at most one: its bubble is
\* the empty one at the end of the transcript.
LEMMA SendShows ==
  ASSUME ServerInv, ChatPageInv, form = "kept", Submit \/ Retry
  PROVE  /\ BubbleIsOneAnswer'
         /\ \A b \in Attempts : Alive(b)' => b = attempts + 1 /\ AliveIsShown(b)'
<1>1. /\ page \in Pages /\ page' \in Pages /\ RetryMeansLastExchange
      /\ stored \in BOOLEAN /\ attempts \in 0..MaxAttempts
  BY Typing, SendKeeps DEF ServerInv
<1>2. page.exchanges \in Seq(Exchanges) /\ Len(page.exchanges) \in Nat
  BY <1>1, LenProperties DEF Pages
<1>3. \A b \in Attempts : ~Alive(b)
  BY DEF ChatPageInv, AliveIsShown, Submit, Active, Retry
<1>4. PICK p \in Pages :
        /\ SendMessage(p) /\ p.status = "sending" /\ p.exchanges # << >>
        /\ p.exchanges[Len(p.exchanges)].bubble = << >>
        /\ \A e \in 1..Len(p.exchanges) :
             \/ p.exchanges[e].bubble = << >>
             \/ e \in 1..Len(page.exchanges) /\ p.exchanges[e].bubble = page.exchanges[e].bubble
  <2>1. CASE Submit
    <3>1. PICK m \in Messages : SendMessage(SendStarted(page, m))
      BY <2>1 DEF Submit
    <3> DEFINE q == SendStarted(page, m)
    <3>2. /\ q \in Pages /\ q.status = "sending"
          /\ Len(q.exchanges) = Len(page.exchanges) + 1
          /\ \A e \in 1..Len(page.exchanges) : q.exchanges[e] = page.exchanges[e]
          /\ q.exchanges[Len(q.exchanges)] = [user |-> m, bubble |-> << >>]
      BY <1>1, SendStartedDoes
    <3> HIDE DEF q
    <3>3. q.exchanges # << >>
      BY <1>2, <3>2, EmptySeq
    <3>4. \A e \in 1..Len(q.exchanges) : e \in 1..Len(page.exchanges) \/ e = Len(q.exchanges)
      BY <1>2, <3>2
    <3>5. \A e \in 1..Len(q.exchanges) :
            \/ q.exchanges[e].bubble = << >>
            \/ e \in 1..Len(page.exchanges) /\ q.exchanges[e].bubble = page.exchanges[e].bubble
      BY <3>2, <3>4
    <3> QED
      BY <3>1, <3>2, <3>3, <3>5 DEF q
  <2>2. CASE Retry
    <3>1. page.exchanges # << >> /\ SendMessage(Retried(page))
      BY <1>1, <2>2 DEF Retry, RetryMeansLastExchange
    <3> DEFINE q == Retried(page)
    <3>2. /\ q \in Pages /\ q.status = "sending"
          /\ SameButLast(page.exchanges, q.exchanges, << >>)
      BY <1>1, <3>1, RetriedDoes
    <3> HIDE DEF q
    <3>3. Len(page.exchanges) \in 1..Len(page.exchanges)
      BY <1>2, <3>1, EmptySeq
    <3>4. /\ q.exchanges # << >> /\ Len(q.exchanges) = Len(page.exchanges)
          /\ q.exchanges[Len(q.exchanges)].bubble = << >>
      BY <3>2, <3>3 DEF SameButLast
    <3>5. \A e \in 1..Len(q.exchanges) :
            \/ q.exchanges[e].bubble = << >>
            \/ e \in 1..Len(page.exchanges) /\ q.exchanges[e].bubble = page.exchanges[e].bubble
      BY <3>2 DEF SameButLast
    <3> QED
      BY <3>1, <3>2, <3>4, <3>5 DEF q
  <2> QED
    BY <2>1, <2>2
<1>5. page'.exchanges = p.exchanges /\ (stored => page'.status = "sending")
  BY <1>4 DEF SendMessage, Failed, Pages
<1>6. BubbleIsOneAnswer'
  BY <1>4, <1>5, EmptySeq DEF ChatPageInv, BubbleIsOneAnswer
<1>7. ASSUME NEW b \in Attempts, Alive(b)'
      PROVE  b = attempts + 1 /\ stored /\ taken'[b] = 0
  <2>1. /\ UNCHANGED <<taken, written>> /\ attempts + 1 \in Attempts /\ attempts + 1 > attempts
        /\ reader \in [Attempts -> {"none", "fetching", "reading", "done"}]
        /\ reader' = [reader EXCEPT ![attempts + 1] = IF stored THEN "fetching" ELSE "done"]
    BY <1>1, <1>4, WebChatAssumption DEF SendMessage, Attempts, ServerInv, WebChatTypeOK
  <2>2. b = attempts + 1
    BY <1>3, <1>7, <2>1 DEF Alive
  <2>3. stored
    BY <1>1, <1>7, <2>1, <2>2 DEF Alive
  <2> QED
    BY <2>1, <2>2, <2>3 DEF ServerInv, FutureIsUntouched
<1>8. \A b \in Attempts : Alive(b)' => AliveIsShown(b)'
  BY <1>4, <1>5, <1>7, EmptySeq DEF AliveIsShown, LastBubble
<1> QED
  BY <1>6, <1>7, <1>8

\* Taking a record of a adds its piece to the bubble that shows a, or ends a.
LEMMA TakeShows ==
  ASSUME ServerInv, ChatPageInv, form = "kept", NEW a \in Attempts, TakeRecord(a)
  PROVE  BubbleIsOneAnswer' /\ (Alive(a)' => AliveIsShown(a)')
<1> DEFINE n == taken[a] + 1
<1>1. /\ page \in Pages /\ taken[a] \in Nat /\ Len(written[a]) \in Nat
      /\ taken[a] < Len(written[a]) /\ taken'[a] = n /\ UNCHANGED <<reader, written>>
      /\ reader[a] = "reading" /\ page' = Handled(page, a, n)
  BY Typing DEF TakeRecord, ServerInv, WebChatTypeOK
<1>2. Alive(a) /\ AliveIsShown(a) /\ BubbleIsOneAnswer
  BY <1>1, TakerIsAlive DEF ChatPageInv
<1> HIDE DEF n
<1>3. CASE n = 1 /\ page' = page
  BY <1>1, <1>2, <1>3 DEF n, AliveIsShown, LastBubble, BubbleIsOneAnswer
<1>4. ASSUME n > 1, <<a, n - 1>> \in Pieces, page' = Delta(page, <<a, n - 1>>)
      PROVE  BubbleIsOneAnswer' /\ AliveIsShown(a)'
  <2>1. CASE page.exchanges = << >>
    <3>1. page.status = "signed_out" /\ page' = page
      BY <1>2, <1>4, <2>1 DEF AliveIsShown, Delta
    <3> QED
      BY <1>2, <3>1, <2>1, EmptySeq DEF AliveIsShown, BubbleIsOneAnswer
  <2>2. CASE page.exchanges # << >>
    <3> DEFINE s == page.exchanges
               old == s[Len(s)].bubble
               piece == <<a, n - 1>>
               q == Delta(page, piece)
               new == Append(old, piece)
    <3>1. s \in Seq(Exchanges) /\ Len(s) \in 1..Len(s)
      BY <1>1, <2>2, EmptySeq DEF Pages
    <3>2. /\ q.status = "streaming" /\ old \in Seq(Pieces)
          /\ SameButLast(s, q.exchanges, new)
      BY <1>1, <1>4, <2>2, DeltaDoes
    <3>3. Len(old) = n - 2 /\ \A k \in 1..Len(old) : old[k] = <<a, k>>
      <4>1. page.status # "signed_out"
        BY <2>2 DEF ServerInv, PageAtRest
      <4> QED
        BY <1>1, <1>2, <1>4, <4>1 DEF AliveIsShown, LastBubble, n
    <3> HIDE DEF old
    <3>4. Len(new) = n - 1 /\ \A k \in 1..Len(new) : new[k] = <<a, k>>
      <4>1. /\ new \in Seq(Pieces) /\ Len(new) = Len(old) + 1
            /\ \A k \in 1..Len(old) : new[k] = old[k]
            /\ new[Len(old) + 1] = piece
        BY <1>4, <3>2, AppendProperties
      <4>2. n \in Nat
        BY <1>1 DEF n
      <4>3. \A k \in 1..Len(new) : k \in 1..Len(old) \/ k = n - 1
        BY <3>3, <4>1, <4>2
      <4> HIDE DEF new
      <4> QED
        BY <3>3, <4>1, <4>2, <4>3
    <3> HIDE DEF new, q, piece
    <3>5. page'.status = "streaming" /\ SameButLast(s, page'.exchanges, new)
      BY <1>4, <3>2 DEF q, piece
    <3>6. LastBubble' = new /\ page'.exchanges # << >>
      BY <3>1, <3>5 DEF SameButLast, LastBubble
    <3>7. AliveIsShown(a)'
      BY <1>1, <1>4, <3>4, <3>5, <3>6 DEF AliveIsShown, n
    <3>8. BubbleIsOneAnswer'
      <4> SUFFICES ASSUME NEW e \in 1..Len(page'.exchanges),
                          NEW k \in 1..Len(page'.exchanges[e].bubble)
                   PROVE  page'.exchanges[e].bubble[k]
                            = <<page'.exchanges[e].bubble[1][1], k>>
        BY DEF BubbleIsOneAnswer
      <4>1. e \in 1..Len(s) /\ page'.exchanges[e].bubble = IF e = Len(s) THEN new ELSE s[e].bubble
        BY <3>5 DEF SameButLast
      <4>2. CASE e = Len(s)
        <5>1. 1 \in 1..Len(new)
          BY <1>1, <1>4, <3>4 DEF n
        <5> QED
          BY <3>4, <4>1, <4>2, <5>1
      <4>3. CASE e # Len(s)
        BY <1>2, <4>1, <4>3 DEF BubbleIsOneAnswer
      <4> QED
        BY <4>2, <4>3
    <3> QED
      BY <3>7, <3>8
  <2> QED
    BY <2>1, <2>2
<1>5. CASE /\ written[a][n] \in Terminals
           /\ page' \in {Completed(page), GuardrailIntervened(page), Failed(page)}
  <2>1. page'.exchanges = page.exchanges
    BY <1>1, <1>5 DEF Pages, Completed, GuardrailIntervened, Failed
  <2>2. ~Alive(a)'
    <3>1. n \in 1..taken'[a]
      BY <1>1 DEF n
    <3> QED
      BY <1>1, <1>5, <3>1 DEF Alive
  <2> QED
    BY <1>2, <2>1, <2>2, BubblesKept
<1> QED
  BY <1>1, <1>3, <1>4, <1>5, HandledDoes DEF n

\* Every other step of a request leaves at most one alive, shown as it was.
LEMMA OthersShow ==
  ASSUME ServerInv, ChatPageInv, form = "kept", NEW a \in Attempts,
         \/ Expired(a) \/ Rejected(a) \/ Accepted(a) \/ EndOfStream(a) \/ BrokenStream(a)
         \/ Respond(a) \/ Break(a) \/ Cut(a)
  PROVE  BubbleIsOneAnswer' /\ \A b \in Attempts : Alive(b)' => AliveIsShown(b)'
<1>1. page \in Pages /\ reader \in [Attempts -> {"none", "fetching", "reading", "done"}]
  BY Typing DEF ServerInv, WebChatTypeOK
<1>2. \A b \in Attempts : Alive(b)' => Alive(b)
  BY NoneComesToLife DEF Receive
<1>3. CASE Expired(a)
  BY <1>3, BubblesKept DEF Expired, InitialState, AliveIsShown, ChatPageInv
<1>4. CASE Rejected(a) \/ BrokenStream(a)
  <2>1. Alive(a)
    BY <1>4, FetcherIsAlive, TakerIsAlive DEF Rejected, BrokenStream, ChatPageInv
  <2>2. ~Alive(a)'
    BY <1>1, <1>4 DEF Rejected, BrokenStream, Alive
  <2>3. \A b \in Attempts : ~Alive(b)'
    BY <1>2, <2>1, <2>2 DEF ChatPageInv
  <2>4. page'.exchanges = page.exchanges
    BY <1>1, <1>4 DEF Rejected, BrokenStream, Failed, Pages
  <2> QED
    BY <2>3, <2>4, BubblesKept DEF ChatPageInv
<1>5. CASE \/ Accepted(a) \/ EndOfStream(a) \/ Respond(a) \/ Break(a) \/ Cut(a)
  <2>1. UNCHANGED <<page, taken>>
    BY <1>5 DEF Accepted, EndOfStream, Respond, Started, Forward, Conclude, Close, Break, Cut
  <2> QED
    BY <1>2, <2>1, BubblesKept DEF ChatPageInv, AliveIsShown, LastBubble
<1> QED
  BY <1>3, <1>4, <1>5

\* A connection that broke did so in the middle of the stream.
LEMMA BreaksInTheMiddle ==
  ASSUME LateBreaks = FALSE, ServerInv, ChatPageInv, WebChatNext
  PROVE  \A b \in Attempts : line'[b] = "broken" => bff'[b] = "streaming"
<1>1. /\ line \in [Attempts -> {"none", "open", "closed", "broken"}]
      /\ bff \in [Attempts -> {"none", "streaming", "ended"}]
      /\ reader \in [Attempts -> {"none", "fetching", "reading", "done"}]
      /\ \A b \in Attempts : line[b] = "broken" => bff[b] = "streaming"
  BY DEF ServerInv, WebChatTypeOK, ChatPageInv
<1>2. CASE Start \/ SignOut \/ SignInClick \/ SignInFails
  BY <1>1, <1>2 DEF Start, SignOut, SignInClick, SignInFails
<1>3. CASE Submit \/ Retry
  <2>1. PICK l \in {"open", "none"} : line' = [line EXCEPT ![attempts + 1] = l] /\ bff' = bff
    BY <1>3 DEF Submit, Retry, SendMessage
  <2> QED
    BY <1>1, <2>1
<1>4. ASSUME NEW a \in Attempts, Receive(a) \/ Respond(a) \/ Break(a) \/ Cut(a)
      PROVE  \A b \in Attempts : line'[b] = "broken" => bff'[b] = "streaming"
  BY <1>1, <1>4 DEF Receive, Respond, Expired, Rejected, Accepted, TakeRecord, EndOfStream,
                    BrokenStream, Started, Forward, Conclude, Close, Break, Cut
<1> QED
  BY <1>2, <1>3, <1>4 DEF WebChatNext

LEMMA PageInvStep ==
  ASSUME LateBreaks = FALSE
  PROVE  ServerInv /\ ChatPageInv /\ [WebChatNext]_webChatVars => ChatPageInv'
<1> SUFFICES ASSUME ServerInv, ChatPageInv, [WebChatNext]_webChatVars PROVE ChatPageInv'
  OBVIOUS
<1>1. CASE UNCHANGED webChatVars
  BY <1>1 DEF webChatVars, signing, ChatPageInv, Alive, AliveIsShown, LastBubble,
              BubbleIsOneAnswer
<1>2. CASE WebChatNext /\ form' # "kept"
  BY <1>2, BreaksInTheMiddle DEF ChatPageInv, BubbleIsOneAnswer
<1>3. CASE WebChatNext /\ form' = "kept"
  <2>0. form = "kept"
    BY <1>3 DEF WebChatNext, Start, SignInClick, SignInFails, SignOut, Submit, Retry, SendMessage,
                Receive, Respond, Expired, Rejected, Accepted, TakeRecord, EndOfStream,
                BrokenStream, Started, Forward, Conclude, Close, Break, Cut, signing
  <2>1. CASE Start
    <3>1. /\ attempts' = 0 /\ attempts = 0 /\ reader' = reader /\ page \in Pages
          /\ page.exchanges = << >>
      <4>1. attempts \in Nat /\ page \in Pages
        BY Typing, WebChatAssumption DEF ServerInv
      <4>2. ~(attempts > 0) /\ attempts' = attempts /\ reader' = reader
        BY <1>3, <2>1 DEF Start
      <4> QED
        BY <4>1, <4>2 DEF ServerInv, PageAtRest
    <3>2. \A a \in Attempts : ~Alive(a)'
      BY <3>1 DEF ServerInv, FutureIsUntouched, Attempts, Alive
    <3>3. page'.exchanges = << >>
      <4>1. page' \in {SignedIn(page), InitialState, Failed(page)}
        BY <2>1 DEF Start
      <4>2. /\ SignedIn(page).exchanges = << >> /\ Failed(page).exchanges = << >>
            /\ InitialState.exchanges = << >>
        BY <3>1 DEF SignedIn, InitialState, Failed, Pages
      <4> QED
        BY <4>1, <4>2
    <3> QED
      BY <1>3, <2>0, <3>2, <3>3, BubblesKept, BreaksInTheMiddle DEF ChatPageInv
  <2>2. CASE SignOut
    <3>1. /\ page' = InitialState /\ UNCHANGED <<reader, taken, written>>
          /\ InitialState.exchanges = << >> /\ InitialState.status = "signed_out"
      BY <2>2 DEF SignOut, InitialState
    <3>2. \A a \in Attempts : Alive(a)' <=> Alive(a)
      BY <3>1 DEF Alive
    <3>3. \A a \in Attempts : AliveIsShown(a)'
      BY <3>1 DEF AliveIsShown
    <3> QED
      BY <1>3, <2>0, <3>1, <3>2, <3>3, BubblesKept, BreaksInTheMiddle DEF ChatPageInv
  <2>3. CASE Submit \/ Retry
    BY <1>3, <2>0, <2>3, SendShows, BreaksInTheMiddle DEF ChatPageInv
  <2>5. CASE SignInClick
    <3>1. UNCHANGED <<page, reader, taken, written>>
      BY <2>5 DEF SignInClick
    <3>2. \A a \in Attempts : (Alive(a)' <=> Alive(a)) /\ (AliveIsShown(a)' <=> AliveIsShown(a))
      BY <3>1 DEF Alive, AliveIsShown, LastBubble
    <3> QED
      BY <1>3, <2>0, <3>1, <3>2, BubblesKept, BreaksInTheMiddle DEF ChatPageInv
  <2>6. CASE SignInFails
    <3>1. UNCHANGED <<reader, taken, written>> /\ page' = Failed(page) /\ page \in Pages
      BY <2>6, Typing DEF SignInFails, ServerInv
    <3>2. \A a \in Attempts : ~Alive(a)
      BY <1>3, <2>6 DEF SignInFails
    <3>3. \A a \in Attempts : ~Alive(a)'
      BY <3>1, <3>2 DEF Alive
    <3>4. page'.exchanges = page.exchanges
      BY <3>1 DEF Failed, Pages
    <3> QED
      BY <1>3, <2>0, <3>3, <3>4, BubblesKept, BreaksInTheMiddle DEF ChatPageInv
  <2>4. ASSUME NEW a \in Attempts, Receive(a) \/ Respond(a) \/ Break(a) \/ Cut(a)
        PROVE  ChatPageInv'
    <3>1. \A b, c \in Attempts : Alive(b)' /\ Alive(c)' => b = c
      BY <2>0, <2>4, NoneComesToLife DEF ChatPageInv
    <3>2. BubbleIsOneAnswer' /\ \A b \in Attempts : Alive(b)' => AliveIsShown(b)'
      <4>1. CASE TakeRecord(a)
        <5>1. Alive(a)
          BY <4>1, TakerIsAlive DEF TakeRecord
        <5>2. \A b \in Attempts : Alive(b)' => b = a
          BY <2>0, <2>4, <5>1, NoneComesToLife DEF ChatPageInv
        <5> QED
          BY <2>0, <4>1, <5>2, TakeShows
      <4> QED
        BY <2>0, <2>4, <4>1, OthersShow DEF Receive
    <3> QED
      BY <1>3, <3>1, <3>2, BreaksInTheMiddle DEF ChatPageInv
  <2> QED
    BY <1>3, <2>1, <2>2, <2>3, <2>4, <2>5, <2>6 DEF WebChatNext
<1> QED
  BY <1>1, <1>2, <1>3

LEMMA PageInvHolds == ASSUME LateBreaks = FALSE PROVE WebChatSpec => []ChatPageInv
  BY PageInvInit, PageInvStep, ServerInvHolds, PTL DEF WebChatSpec

\* Records, transcript and retry are in order: whatever the user does, whatever
\* the BFF writes and wherever a stream is cut, a bubble is the text of one
\* request from its first piece on, and the retry sends what the last exchange
\* shows; until a sign-in or start() that ends over a message frees the form.
THEOREM ChatStaysInOrder ==
  ASSUME LateBreaks = FALSE PROVE WebChatSpec => []ChatIsInOrder
<1>1. ChatPageInv => BubbleIsOneAnswer
  BY DEF ChatPageInv
<1> QED
  BY <1>1, PageInvHolds, RecordsAndRetryHold, PTL DEF ChatIsInOrder

\* While the page waits for an answer its form is blocked, unless the user
\* signed out: no second request starts, but through a sign-in or a start() that
\* ends over the first.
THEOREM OneRequestAtATime ==
  ASSUME LateBreaks = FALSE PROVE WebChatSpec => []OneAttemptAtATime
<1>1. ChatPageInv => OneAttemptAtATime
  BY DEF ChatPageInv, OneAttemptAtATime, Alive, AliveIsShown
<1> QED
  BY <1>1, PageInvHolds, PTL
-----------------------------------------------------------------------------
(***************************************************************************)
(* What the page waits for.  That a message comes to an end is             *)
(* UncutSendEnds, under fairness; what can be proved is that a page that   *)
(* waits waits for a request that has a step left, unless a response was   *)
(* cut off, whatever else the user clicked meanwhile.                      *)
(***************************************************************************)

\* The response ended in good order before the BFF had finished it.
ClosedEarly(a) == line[a] = "closed" /\ bff[a] = "streaming"

\* What a request that is alive can still be expecting: the headers, a record that
\* was written, more from the BFF, or the report that the connection broke.
HasMore(a) ==
  \/ reader[a] = "fetching"
  \/ taken[a] < Len(written[a])
  \/ line[a] = "open" /\ bff[a] \in {"streaming", "ended"}
  \/ line[a] = "broken"

\* A page that shows a message as being sent or answered has a request that goes
\* on: the form is never blocked for nothing.
WaitsForSomething ==
  page.status \in {"sending", "streaming"} =>
    \E a \in Attempts : ClosedEarly(a) \/ (Alive(a) /\ HasMore(a))

\* A response that was ended has its terminal record, and a page reads only what
\* was begun.
EndsWithTerminal(a) ==
  /\ bff[a] = "ended" => written[a] # << >> /\ written[a][Len(written[a])] \in Terminals
  /\ reader[a] = "reading" => bff[a] # "none"
  /\ reader[a] \in {"fetching", "reading"} => line[a] # "none"

WaitInv ==
  /\ \A a \in Attempts : EndsWithTerminal(a)
  /\ page.status \in {"sending", "streaming"} =>
       \E a \in Attempts : ClosedEarly(a) \/ Alive(a)

\* Nothing is waited for when the page is loaded.
LEMMA WaitInit == WebChatInit => WaitInv
  BY DEF WebChatInit, WaitInv, Alive, EndsWithTerminal, InitialState

\* What a step of a request leaves of the form of every response.
LEMMA EndsKept ==
  ASSUME ServerInv, NEW b \in Attempts, EndsWithTerminal(b), WebChatNext
  PROVE  EndsWithTerminal(b)'
<1>1. /\ reader \in [Attempts -> {"none", "fetching", "reading", "done"}]
      /\ bff \in [Attempts -> {"none", "streaming", "ended"}]
      /\ written \in [Attempts -> Seq(Records)]
      /\ line \in [Attempts -> {"none", "open", "closed", "broken"}]
  BY DEF ServerInv, WebChatTypeOK
<1>2. CASE Start \/ SignOut \/ SignInClick \/ SignInFails
  BY <1>2 DEF Start, SignOut, SignInClick, SignInFails, EndsWithTerminal
<1>3. CASE Submit \/ Retry
  <2>1. PICK p : SendMessage(p)
    BY <1>3 DEF Submit, Retry
  <2> QED
    BY <1>1, <2>1 DEF SendMessage, EndsWithTerminal
<1>4. ASSUME NEW a \in Attempts, Receive(a) \/ Respond(a) \/ Break(a) \/ Cut(a)
      PROVE  EndsWithTerminal(b)'
  <2>1. CASE Expired(a) \/ Rejected(a) \/ Accepted(a) \/ EndOfStream(a) \/ BrokenStream(a)
    BY <1>1, <2>1 DEF Expired, Rejected, Accepted, EndOfStream, BrokenStream, EndsWithTerminal
  <2>2. CASE TakeRecord(a) \/ Close(a) \/ Break(a) \/ Cut(a)
    BY <1>1, <2>2 DEF TakeRecord, Close, Break, Cut, EndsWithTerminal
  <2>3. CASE Started(a) \/ Forward(a)
    BY <1>1, <2>3 DEF Started, Forward, Write, EndsWithTerminal
  <2>4. CASE Conclude(a)
    <3>1. PICK record \in Terminals :
            /\ written' = [written EXCEPT ![a] = Append(@, record)]
            /\ bff' = [bff EXCEPT ![a] = "ended"]
      BY <2>4 DEF Conclude, Write, AfterNotice
    <3>2. /\ bff[a] = "streaming" /\ UNCHANGED <<reader, line>> /\ record \in Records
      BY <2>4 DEF Conclude, Records
    <3>3. /\ Append(written[a], record) # << >>
          /\ Append(written[a], record)[Len(Append(written[a], record))] = record
      BY <1>1, <3>2, AppendProperties
    <3> QED
      BY <1>1, <3>1, <3>2, <3>3 DEF EndsWithTerminal
  <2> QED
    BY <1>4, <2>1, <2>2, <2>3, <2>4 DEF Receive, Respond
<1> QED
  BY <1>2, <1>3, <1>4 DEF WebChatNext

\* A request stays alive as long as its reader goes on and takes no terminal record.
LEMMA StaysAlive ==
  ASSUME ServerInv, NEW a \in Attempts, Receive(a) \/ Respond(a) \/ Break(a) \/ Cut(a),
         NEW b \in Attempts, Alive(b),
         reader'[b] \in {"fetching", "reading"},
         taken'[b] = taken[b] \/ (taken'[b] = taken[b] + 1 /\ written[b][taken[b] + 1] \notin Terminals
                                  /\ written' = written)
  PROVE  Alive(b)'
<1>1. \A n \in 1..taken[b] : written'[b][n] = written[b][n]
  BY TakenIsFixed
<1>2. taken[b] \in Nat
  BY Typing DEF ServerInv
<1> QED
  BY <1>1, <1>2 DEF Alive

\* The page shows a message as being sent or answered.
Waits == page.status \in {"sending", "streaming"}
\* It has a request for that message.
Awaits == \E a \in Attempts : ClosedEarly(a) \/ Alive(a)

\* Submitting and retrying send, from a page they dispatched to first.
LEMMA SendsPage ==
  ASSUME ServerInv, Submit \/ Retry
  PROVE  \E p \in Pages : SendMessage(p)
<1>1. page \in Pages /\ RetryMeansLastExchange
  BY Typing DEF ServerInv
<1>2. CASE Submit
  BY <1>1, <1>2, SendStartedDoes DEF Submit
<1>3. CASE Retry
  BY <1>1, <1>3, RetriedDoes DEF Retry, RetryMeansLastExchange
<1> QED
  BY <1>2, <1>3

\* A request that is sent is what the page then waits for.
LEMMA SendAwaits ==
  ASSUME ServerInv, Submit \/ Retry, Waits'
  PROVE  Awaits'
<1>1. PICK p \in Pages : SendMessage(p)
  BY SendsPage
<1>2. stored
  BY <1>1 DEF SendMessage, Failed, Pages, Waits
<1>3. /\ attempts' = attempts + 1 /\ attempts + 1 \in Attempts /\ attempts + 1 > attempts
      /\ reader' = [reader EXCEPT ![attempts + 1] = "fetching"]
      /\ UNCHANGED <<taken, written>>
  BY <1>1, <1>2, Typing, WebChatAssumption DEF SendMessage, Attempts, ServerInv
<1>4. taken[attempts + 1] = 0 /\ DOMAIN reader = Attempts
  BY <1>3 DEF ServerInv, FutureIsUntouched, WebChatTypeOK
<1> QED
  BY <1>3, <1>4 DEF Awaits, Alive

\* A record that was taken ends the wait, or its request is the one waited for.
LEMMA TakeAwaits ==
  ASSUME ServerInv, NEW a \in Attempts, TakeRecord(a), Waits'
  PROVE  Awaits'
<1> DEFINE n == taken[a] + 1
<1>1. /\ page \in Pages /\ taken[a] \in Nat /\ taken[a] < Len(written[a])
      /\ taken'[a] = n /\ UNCHANGED <<reader, written, attempts>>
      /\ reader[a] = "reading" /\ page' = Handled(page, a, n)
  BY Typing DEF TakeRecord, ServerInv, WebChatTypeOK
<1>2. Alive(a)
  BY <1>1, TakerIsAlive
<1> HIDE DEF n
<1>3. written[a][n] \notin Terminals
  <2>1. page' \notin {Completed(page), GuardrailIntervened(page), Failed(page)}
    BY <1>1 DEF Waits, Completed, GuardrailIntervened, Failed, Pages
  <2>2. "message.started" \notin Terminals /\ "message.delta" \notin Terminals
    BY DEF Terminals
  <2> QED
    BY <1>1, <2>1, <2>2, HandledDoes DEF n
<1>4. Alive(a)'
  BY <1>1, <1>2, <1>3, StaysAlive DEF Receive, n
<1> QED
  BY <1>4 DEF Awaits

\* The end of a stream leaves the page waiting only if it was cut off.
LEMMA EndAwaits ==
  ASSUME ServerInv, WaitInv, NEW a \in Attempts, EndOfStream(a), Waits
  PROVE  Awaits'
<1>1. /\ reader[a] = "reading" /\ taken[a] = Len(written[a]) /\ line[a] = "closed"
      /\ reader' = [reader EXCEPT ![a] = "done"] /\ DOMAIN reader = Attempts
      /\ UNCHANGED <<page, attempts, taken, bff, written, line>>
      /\ bff \in [Attempts -> {"none", "streaming", "ended"}]
      /\ EndsWithTerminal(a) /\ Len(written[a]) \in Nat
  BY Typing DEF EndOfStream, ServerInv, WebChatTypeOK, WaitInv
<1>5. PICK b \in Attempts : ClosedEarly(b) \/ Alive(b)
  BY DEF WaitInv, Waits
<1>2. CASE ClosedEarly(b)
  BY <1>1, <1>2 DEF Awaits, ClosedEarly
<1>3. CASE Alive(b) /\ a # b
  BY <1>1, <1>3 DEF Awaits, Alive
<1>4. CASE Alive(a) /\ a = b
  <2>1. bff[a] # "ended"
    <3>1. SUFFICES ASSUME bff[a] = "ended" PROVE FALSE
      OBVIOUS
    <3>2. written[a] # << >> /\ written[a][Len(written[a])] \in Terminals
      BY <1>1, <3>1 DEF EndsWithTerminal
    <3>3. Len(written[a]) \in 1..Len(written[a])
      BY <3>2, Typing, EmptySeq DEF ServerInv
    <3> QED
      BY <1>1, <1>4, <3>2, <3>3 DEF Alive
  <2>2. bff[a] = "streaming"
    BY <1>1, <2>1 DEF EndsWithTerminal
  <2> QED
    BY <1>1, <1>4, <2>2 DEF Awaits, ClosedEarly
<1> QED
  BY <1>2, <1>3, <1>4, <1>5

\* What the other steps of a request leave the page waiting for.
LEMMA OthersAwait ==
  ASSUME ServerInv, WaitInv, NEW a \in Attempts, Waits,
         Accepted(a) \/ Respond(a) \/ Break(a) \/ Cut(a)
  PROVE  Awaits'
<1>1. /\ UNCHANGED <<page, attempts, taken>>
      /\ DOMAIN reader = Attempts /\ DOMAIN bff = Attempts /\ DOMAIN line = Attempts
  BY DEF ServerInv, WebChatTypeOK, Respond, Accepted, Started, Forward, Conclude, Close, Break, Cut
<1>4. PICK b \in Attempts : ClosedEarly(b) \/ Alive(b)
  BY DEF WaitInv, Waits
<1>2. CASE Alive(b)
  <2>1. reader'[b] \in {"fetching", "reading"}
    BY <1>1, <1>2 DEF Alive, Respond, Accepted, Started, Forward, Conclude, Close, Break, Cut
  <2>2. Alive(b)'
    BY <1>1, <1>2, <2>1, StaysAlive DEF Receive
  <2> QED
    BY <2>2 DEF Awaits
<1>3. CASE ClosedEarly(b)
  <2>1. ClosedEarly(b)'
    BY <1>1, <1>3 DEF ClosedEarly, Respond, Accepted, Started, Forward, Conclude, Close, Break, Cut
  <2> QED
    BY <2>1 DEF Awaits
<1> QED
  BY <1>2, <1>3, <1>4

\* Every step keeps the page waiting for something.
LEMMA WaitStep == ServerInv /\ WaitInv /\ [WebChatNext]_webChatVars => WaitInv'
<1> SUFFICES ASSUME ServerInv, WaitInv, [WebChatNext]_webChatVars PROVE WaitInv'
  OBVIOUS
<1>1. CASE UNCHANGED webChatVars
  BY <1>1 DEF webChatVars, WaitInv, Alive, EndsWithTerminal, ClosedEarly
<1>2. CASE WebChatNext
  <2>1. \A a \in Attempts : EndsWithTerminal(a)'
    BY <1>2, EndsKept DEF WaitInv
  <2>2. ASSUME Waits' PROVE Awaits'
    <3>1. page \in Pages
      BY Typing DEF ServerInv
    <3>0. /\ Failed(page).status = "error" /\ SignedIn(page).status = "ready"
          /\ InitialState.status = "signed_out"
      BY <3>1 DEF Failed, SignedIn, InitialState, Pages
    <3>2. CASE Start \/ SignOut \/ SignInFails
      <4>1. page' \in {SignedIn(page), InitialState, Failed(page)}
        BY <3>2 DEF Start, SignOut, SignInFails
      <4> QED
        BY <2>2, <3>0, <4>1 DEF Waits
    <3>5. CASE SignInClick
      BY <2>2, <3>5 DEF SignInClick, WaitInv, Waits, Awaits, ClosedEarly, Alive
    <3>3. CASE Submit \/ Retry
      BY <2>2, <3>3, SendAwaits
    <3>4. ASSUME NEW a \in Attempts, Receive(a) \/ Respond(a) \/ Break(a) \/ Cut(a)
          PROVE  Awaits'
      <4>1. CASE TakeRecord(a)
        BY <2>2, <4>1, TakeAwaits
      <4>2. CASE Expired(a) \/ Rejected(a) \/ BrokenStream(a)
        BY <2>2, <3>0, <4>2 DEF Expired, Rejected, BrokenStream, Waits
      <4>3. CASE EndOfStream(a)
        BY <2>2, <4>3, EndAwaits DEF EndOfStream, Waits
      <4>4. CASE Accepted(a) \/ Respond(a) \/ Break(a) \/ Cut(a)
        BY <2>2, <4>4, OthersAwait DEF Waits, Respond, Accepted, Started, Forward, Conclude,
                                       Close, Break, Cut
      <4> QED
        BY <3>4, <4>1, <4>2, <4>3, <4>4 DEF Receive
    <3> QED
      BY <1>2, <3>2, <3>3, <3>4, <3>5 DEF WebChatNext
  <2> QED
    BY <2>1, <2>2 DEF WaitInv, Waits, Awaits
<1> QED
  BY <1>1, <1>2

\* The page never waits for nothing, whatever is clicked, fails or breaks: as long as
\* it shows a message as being sent or answered, a request is alive and has a step
\* left, or a response was cut off, which is the case the run MCWebChat_cut shows
\* (app.mjs: sendMessage and the event handlers; route.mjs: chatBody).
THEOREM NeverWaitsForNothing == WebChatSpec => []WaitsForSomething
<1>1. WebChatSpec => []WaitInv
  BY WaitInit, WaitStep, ServerInvHolds, PTL DEF WebChatSpec
<1>2. ServerInv /\ WaitInv => WaitsForSomething
  <2> SUFFICES ASSUME ServerInv, WaitInv, NEW a \in Attempts, Alive(a), ~ClosedEarly(a)
               PROVE  HasMore(a)
    BY DEF WaitsForSomething, WaitInv
  <2>1. /\ EndsWithTerminal(a) /\ TakenSoFar(a)
        /\ bff[a] \in {"none", "streaming", "ended"}
        /\ line[a] \in {"none", "open", "closed", "broken"}
        /\ taken[a] \in Nat /\ Len(written[a]) \in Nat /\ written[a] \in Seq(Records)
    BY Typing DEF WaitInv, ServerInv, WebChatTypeOK
  <2>2. CASE bff[a] = "ended"
    <3>1. written[a] # << >> /\ written[a][Len(written[a])] \in Terminals
      BY <2>1, <2>2 DEF EndsWithTerminal
    <3>2. Len(written[a]) \in 1..Len(written[a])
      BY <2>1, <3>1, EmptySeq
    <3>3. taken[a] < Len(written[a])
      BY <2>1, <3>1, <3>2 DEF Alive, TakenSoFar
    <3> QED
      BY <2>1, <3>3 DEF HasMore
  <2>3. CASE bff[a] # "ended"
    BY <2>1, <2>3 DEF HasMore, Alive, EndsWithTerminal, ClosedEarly
  <2> QED
    BY <2>2, <2>3
<1> QED
  BY <1>1, <1>2, ServerInvHolds, PTL
-----------------------------------------------------------------------------
(***************************************************************************)
(* When SignedOutStays holds.                                              *)
(***************************************************************************)

\* A page that signed out is left for another state only by the end of a request
\* that was alive at that step, or by a sign-in that fails; it then shows no text and
\* has nothing to retry.
OnlyLateAnswersReturn ==
  [][started /\ page.status = "signed_out" /\ page'.status # "signed_out" =>
        /\ (\E a \in Attempts : Alive(a) /\ ~Alive(a)') \/ SignInFails
        /\ page'.status \in {"ready", "error"}
        /\ page'.exchanges = << >> /\ page'.pending = Null]_webChatVars

\* SignedOutStays is false (run sign_out), but a request that was under way and a
\* failed sign-in are the only ways out: a page that signs out with neither stays
\* signed out, and none of the text it showed comes back (app.mjs: the sign-out and
\* sign-in handlers and sendMessage).
THEOREM SignOutIsLeftByAnAnswer ==
  ASSUME LateBreaks = FALSE PROVE WebChatSpec => OnlyLateAnswersReturn
<1> DEFINE Out == started /\ page.status = "signed_out" /\ page'.status # "signed_out"
           Shown == /\ (\E a \in Attempts : Alive(a) /\ ~Alive(a)') \/ SignInFails
                    /\ page'.status \in {"ready", "error"}
                    /\ page'.exchanges = << >> /\ page'.pending = Null
<1>1. ASSUME ServerInv, ChatPageInv, WebChatNext, Out PROVE Shown
  <2>1. /\ page \in Pages /\ page.exchanges = << >> /\ page.pending = Null
        /\ started /\ page.status = "signed_out" /\ page'.status # "signed_out"
        /\ reader \in [Attempts -> {"none", "fetching", "reading", "done"}]
        /\ InitialState.status = "signed_out"
    BY <1>1, Typing DEF ServerInv, PageAtRest, WebChatTypeOK, InitialState
  <2>2. /\ Failed(page).status = "error" /\ Failed(page).exchanges = << >>
        /\ Failed(page).pending = Null
        /\ Completed(page).status = "ready" /\ Completed(page).exchanges = << >>
        /\ Completed(page).pending = Null
        /\ GuardrailIntervened(page).status = "ready"
        /\ GuardrailIntervened(page).exchanges = << >>
        /\ GuardrailIntervened(page).pending = Null
        /\ \A piece : Delta(page, piece) = page
    BY <2>1 DEF Failed, Completed, GuardrailIntervened, Delta, Pages
  <2>6. CASE SignInFails
    BY <2>2, <2>6 DEF SignInFails
  <2>3. ASSUME ~SignInFails
        PROVE  \E a \in Attempts : TakeRecord(a) \/ Rejected(a) \/ BrokenStream(a)
    BY <1>1, <2>1, <2>3 DEF WebChatNext, SignInClick, Receive, Respond, Start, SignOut, Submit,
        Retry, Expired,
                      Accepted, EndOfStream, Started, Forward, Conclude, Close, Break, Cut
  <2>4. ASSUME NEW a \in Attempts, Rejected(a) \/ BrokenStream(a) PROVE Shown
    <3>1. Alive(a)
      BY <1>1, <2>4, FetcherIsAlive, TakerIsAlive DEF Rejected, BrokenStream, ChatPageInv
    <3>2. ~Alive(a)'
      BY <2>1, <2>4 DEF Rejected, BrokenStream, Alive
    <3> QED
      BY <2>2, <2>4, <3>1, <3>2 DEF Rejected, BrokenStream
  <2>5. ASSUME NEW a \in Attempts, TakeRecord(a) PROVE Shown
    <3> DEFINE n == taken[a] + 1
    <3>1. /\ taken[a] \in Nat /\ taken[a] < Len(written[a]) /\ taken'[a] = n
          /\ written' = written /\ reader[a] = "reading" /\ page' = Handled(page, a, n)
      BY <1>1, <2>5, Typing DEF TakeRecord, ServerInv, WebChatTypeOK
    <3>2. Alive(a)
      BY <1>1, <3>1, TakerIsAlive
    <3> HIDE DEF n
    <3>3. /\ written[a][n] \in Terminals
          /\ page' \in {Completed(page), GuardrailIntervened(page), Failed(page)}
      BY <1>1, <2>1, <2>2, <3>1, HandledDoes DEF n
    <3>4. ~Alive(a)'
      <4>1. n \in 1..taken'[a]
        BY <3>1 DEF n
      <4> QED
        BY <3>1, <3>3, <4>1 DEF Alive
    <3> QED
      BY <2>2, <3>2, <3>3, <3>4
  <2> QED
    BY <2>3, <2>4, <2>5, <2>6
<1>2. ServerInv /\ ChatPageInv /\ [WebChatNext]_webChatVars => [Out => Shown]_webChatVars
  BY <1>1
<1> QED
  BY <1>2, ServerInvHolds, PageInvHolds, PTL DEF WebChatSpec, OnlyLateAnswersReturn
=============================================================================
