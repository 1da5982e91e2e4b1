--------------------------------- MODULE Wire ---------------------------------
(***************************************************************************)
(* One chat request of the web chat on the wire: routeRequest decides it   *)
(* (lambda/web_chat/src/route.mjs, auth.mjs, request.mjs), AgentCore's     *)
(* answer is taken apart (agentcore.mjs: parseAgentCoreStream), and what   *)
(* the BFF writes (sse.mjs: encodeSse) is put together again by the page   *)
(* (web/src/sse.mjs: parseSse).  Module WebChat takes it for granted that  *)
(* records arrive whole; here both connections cut them anywhere.          *)
(*                                                                         *)
(* A symbol is a field name, a value or a line break.                      *)
(***************************************************************************)
EXTENDS Naturals, Sequences, SequencesExt

CONSTANTS
  MaxEvents,  \* bound: lines of an answer
  MaxBytes    \* MAX_FALLBACK_BYTES, in symbols

ASSUME WireAssumption == MaxEvents \in Nat /\ MaxBytes \in Nat \ {0}

LF == "\n"
\* What the data of AgentCore may be: a delta with text, a plain string, the
\* two notices, or data that is none of them, as an empty delta is.
EventKinds == {"delta", "text", "guardrail_intervened", "error", "other"}

VARIABLES
  asked,     \* the request the BFF was called with
  answer,    \* its status; 0: none yet
  source,    \* AgentCore's answer: its content type and its symbols
  consumed,  \* symbols of it the BFF has read
  pending,   \* parseAgentCoreStream: the line that is not complete yet
  yielded,   \* events it has yielded
  records,   \* records the BFF has written
  over,      \* chatBody has returned
  got,       \* symbols the page has read
  partial,   \* parseSse: the record that is not complete yet
  handled    \* records it has yielded

wireVars == <<asked, answer, source, consumed, pending, yielded, records, over,
              got, partial, handled>>

Idle == [path |-> "none", method |-> "none", claims |-> "none", body |-> "none"]
NoSource == [type |-> "none", symbols |-> << >>]

WireInit ==
  /\ asked = Idle /\ answer = 0
  /\ source = NoSource /\ consumed = 0 /\ pending = << >> /\ yielded = << >>
  /\ records = << >> /\ over = FALSE
  /\ got = 0 /\ partial = << >> /\ handled = << >>

-----------------------------------------------------------------------------
(* routeRequest.                                                            *)

\* Claims: no issuer or subject at all; a principal without chat/send; in
\* order.  Body: not JSON, or base64 that is none; not an object; another key
\* besides message; an empty message; one of over 8000 characters; in order.
WireRequests ==
  [path : {"/chat", "/config", "/other"},
   method : {"GET", "POST", "OPTIONS"},
   claims : {"none", "unscoped", "scoped"},
   body : {"unparsable", "array", "keys", "empty", "long", "valid"}]

\* requirePrincipal.
Principal(r) ==
  CASE r.claims = "none" -> 401
    [] r.claims = "unscoped" -> 403
    [] r.claims = "scoped" -> 200

\* parseChatRequest.
ChatRequest(r) == IF r.body = "valid" THEN 200 ELSE 400

\* The caller is judged before the body.
Judge(r) == IF Principal(r) # 200 THEN Principal(r) ELSE ChatRequest(r)

RouteRequest(r) ==
  IF r.path = "/config" /\ r.method = "GET" THEN 200
  ELSE IF r.path # "/chat" THEN 404
  ELSE IF r.method = "OPTIONS" THEN 204
  ELSE IF r.method # "POST" THEN 405
  ELSE Judge(r)

Streams(r) == r.path = "/chat" /\ r.method = "POST" /\ RouteRequest(r) = 200

\* External: the page, or another client.
Ask ==
  /\ asked = Idle
  /\ \E r \in WireRequests :
       /\ asked' = r /\ answer' = RouteRequest(r)
       /\ records' = IF Streams(r) THEN <<"message.started">> ELSE << >>
  /\ UNCHANGED <<source, consumed, pending, yielded, over, got, partial, handled>>

-----------------------------------------------------------------------------
(* encodeSse, and chatBody for an event or for the end.                     *)

\* Mutant: one line break ends a record.
EncodeShort(e) == <<"event:", e, LF, "data:", e, LF>>

EncodeSse(e) == <<"event:", e, LF, "data:", e, LF, LF>>

\* All the BFF has written.
Output == FlattenSeq([i \in DOMAIN records |-> EncodeSse(records[i])])

\* What the browser is told of an event: other data is passed over.
Told(e) ==
  IF e \in {"delta", "text"} THEN "message.delta"
  ELSE IF e = "guardrail_intervened" THEN "guardrail.intervened" ELSE e

Ends(e) == e \in {"guardrail_intervened", "error"}

\* The events chatBody gets to see: the first that ends it is the last.
Seen(es) ==
  LET last == {i \in DOMAIN es : Ends(es[i])}
  IN IF last = {} THEN es
     ELSE SubSeq(es, 1, CHOOSE i \in last : \A j \in last : i <= j)

\* The events of a stretch of the answer, written; the terminal record too
\* when one of them, the end of the answer or a failure asks for it.
WriteEvents(es, end) ==
  LET seen == Seen(es)
      stop == seen # << >> /\ Ends(Last(seen))
  IN /\ yielded' = yielded \o seen
     /\ records' = records \o [i \in DOMAIN seen |-> Told(seen[i])]
                           \o (IF stop \/ end = "no" THEN << >> ELSE <<end>>)
     /\ over' = (stop \/ end # "no")

-----------------------------------------------------------------------------
(* invokeAgentCore and parseAgentCoreStream.                                *)

\* A text that is read symbol by symbol: the pieces that `end' ends, each without
\* it, and what is open after the last.
Take(split, c, end) ==
  LET open == Append(split.open, c)
  IN IF IsSuffix(end, open)
     THEN [pieces |-> Append(split.pieces, SubSeq(open, 1, Len(open) - Len(end))), open |-> << >>]
     ELSE [pieces |-> split.pieces, open |-> open]

Split(text, end) ==
  LET read[i \in 0..Len(text)] ==
        IF i = 0 THEN [pieces |-> << >>, open |-> << >>] ELSE Take(read[i - 1], text[i], end)
  IN read[Len(text)]

SplitLines(text) == Split(text, <<LF>>)

\* eventFromData for a line that carries data: what is no event and no text
\* yields nothing.
EventFromData(l) ==
  IF Len(l) > 1 /\ Head(l) = "data:" /\ l[2] # "other" THEN <<l[2]>> ELSE << >>

EventsOf(lines) == FlattenSeq([i \in DOMAIN lines |-> EventFromData(lines[i])])

\* External: AgentCore's answer.  An event stream is of data lines and may
\* lack its last line breaks; JSON is one value, of any size.
EventStreams ==
  {FlattenSeq([i \in DOMAIN es |-> <<"data:", es[i], LF, LF>>]) : es \in SeqOf(EventKinds, MaxEvents)}
Value(e, n) == <<e>> \o [i \in 1..n |-> "pad"]
Values == {Value(e, n) : e \in EventKinds \union {"invalid"}, n \in 0..MaxBytes}
Answers ==
  [type : {"sse"}, symbols : EventStreams \union {SubSeq(s, 1, Len(s) - 2) : s \in EventStreams \ {<< >>}}]
    \union [type : {"json"}, symbols : Values]

Streaming == answer = 200 /\ Streams(asked) /\ ~over

\* AgentCore answers, cannot be invoked, or answers nothing.
InvokeAgentCore ==
  /\ Streaming /\ source = NoSource
  /\ \/ source' \in Answers /\ UNCHANGED <<yielded, records, over>>
     \/ WriteEvents(<< >>, "error") /\ UNCHANGED source
  /\ UNCHANGED <<asked, answer, consumed, pending, got, partial, handled>>

Left == Len(source.symbols) - consumed

\* Mutant: every chunk is taken for whole lines.
ForgetOpenLine(split) == << >>

\* What stays of a chunk for the next one.
OpenLine(split) == split.open

\* A chunk of an event stream: its complete lines are handled.
ReadChunk ==
  /\ Streaming /\ source.type = "sse"
  /\ \E n \in 1..Left :
       LET split == SplitLines(pending \o SubSeq(source.symbols, consumed + 1, consumed + n))
       IN /\ consumed' = consumed + n
          /\ pending' = OpenLine(split)
          /\ WriteEvents(EventsOf(split.pieces), "no")
  /\ UNCHANGED <<asked, answer, source, got, partial, handled>>

\* The end of it: an open line is a line.
ReadEnd ==
  /\ Streaming /\ source.type = "sse" /\ Left = 0
  /\ WriteEvents(EventsOf(<<pending>>), "message.completed")
  /\ UNCHANGED <<asked, answer, source, consumed, pending, got, partial, handled>>

\* Any other answer is read to its end, or to MaxBytes, and then parsed.
ReadWhole ==
  /\ Streaming /\ source.type = "json"
  /\ consumed' = Len(source.symbols)
  /\ IF Len(source.symbols) > MaxBytes \/ source.symbols[1] = "invalid"
     THEN WriteEvents(<< >>, "error")
     ELSE WriteEvents(EventsOf(<<<<"data:", source.symbols[1]>>>>), "message.completed")
  /\ UNCHANGED <<asked, answer, source, pending, got, partial, handled>>

\* Reading it fails, which is an error record.
ReadFails ==
  /\ Streaming /\ source # NoSource
  /\ WriteEvents(<< >>, "error")
  /\ UNCHANGED <<asked, answer, source, consumed, pending, got, partial, handled>>

-----------------------------------------------------------------------------
(* parseSse.                                                                *)

\* An empty line ends a record.
SplitRecords(text) == Split(text, <<LF, LF>>)

\* A record without a data line is none.
ParseRecord(r) == IF Contains(r, "data:") THEN <<r[2]>> ELSE << >>

ParseRecords(texts) == FlattenSeq([i \in DOMAIN texts |-> ParseRecord(texts[i])])

\* A chunk of the response, cut anywhere, however it was written.
PageReads ==
  \E n \in 1..(Len(Output) - got) :
    LET split == SplitRecords(partial \o SubSeq(Output, got + 1, got + n))
    IN /\ got' = got + n
       /\ partial' = split.open
       /\ handled' = handled \o ParseRecords(split.pieces)
       /\ UNCHANGED <<asked, answer, source, consumed, pending, yielded, records, over>>

WireNext ==
  \/ Ask \/ InvokeAgentCore \/ ReadChunk \/ ReadEnd \/ ReadWhole \/ ReadFails
  \/ PageReads

WireSpec == WireInit /\ [][WireNext]_wireVars
-----------------------------------------------------------------------------
(* Properties.                                                              *)

\* Every variable has its type.
WireTypeOK ==
  /\ asked \in WireRequests \union {Idle}
  /\ answer \in {0, 200, 204, 400, 401, 403, 404, 405}
  /\ source \in Answers \union {NoSource}
  /\ consumed \in 0..Len(source.symbols) /\ got \in 0..Len(Output)
  /\ over \in BOOLEAN
  /\ Len(pending) <= 2 /\ Len(partial) <= 6

\* How AgentCore's answer is cut makes no difference: what was yielded is what
\* the lines read so far hold, up to the event that ends the answer.
CutsMakeNoDifference ==
  source.type = "sse" =>
    LET split == SplitLines(SubSeq(source.symbols, 1, consumed))
        all == Seen(EventsOf(split.pieces))
    IN yielded = all \/ yielded = Seen(EventsOf(Append(split.pieces, split.open)))

\* The page handles the records the BFF wrote, each once and in their order,
\* wherever the response is cut; and all of them when it has read it all.
RecordsArriveWhole ==
  /\ IsPrefix(handled, records)
  /\ got = Len(Output) => handled = records

\* Neither connection's cuts are seen at the other end.
WireIsTransparent == CutsMakeNoDifference /\ RecordsArriveWhole
===============================================================================
