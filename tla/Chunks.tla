-------------------------------- MODULE Chunks --------------------------------
(***************************************************************************)
(* A long answer on its way to a Telegram chat (lambda/router/index.py):   *)
(* _split_message cuts it into chunks of at most MaxLen characters, at a   *)
(* newline where there is one, and _send_telegram_message sends each of    *)
(* them, a second time without Markdown when the first try failed.         *)
(* A character is a newline or any other.                                  *)
(***************************************************************************)
EXTENDS Naturals, Sequences, FiniteSets, SequencesExt

CONSTANTS
  MaxLen,     \* max_len
  MaxText     \* bound: length of the answer

ASSUME ChunksAssumption == MaxLen \in Nat \ {0} /\ MaxText \in Nat

NL == "newline"
Characters == {"a", "b", NL}
Text(n) == [1..n -> Characters]

VARIABLES
  whole,      \* the answer
  rest,       \* text, the part still to be cut
  chunks,     \* chunks
  splitting,  \* _split_message is running
  next,       \* the chunk being sent
  asPlain,    \* ... for the second time
  delivered   \* chunks the chat shows, in this order

chunkVars == <<whole, rest, chunks, splitting, next, asPlain, delivered>>

ChunksInit ==
  /\ whole \in UNION {Text(n) : n \in 1..MaxText}
  /\ rest = whole /\ chunks = << >> /\ splitting = TRUE
  /\ next = 1 /\ asPlain = FALSE /\ delivered = << >>
-----------------------------------------------------------------------------
\* Mutant: a newline anywhere will do.
NewlinesAnywhere(t) == {i \in 1..Len(t) : t[i] = NL}

\* Where rfind looks.
Newlines(t) == {i \in 1..MaxLen : t[i] = NL}

\* split_at: just before the last newline, or after MaxLen characters.
SplitAt(t) ==
  IF Newlines(t) = {} THEN MaxLen
  ELSE (CHOOSE i \in Newlines(t) : \A j \in Newlines(t) : j <= i) - 1

\* Mutant: nothing is stripped.
Unstripped(t, from) == SubSeq(t, from, Len(t))

\* text[from:].lstrip("\n")
Stripped(t, from) ==
  LET Kept == {i \in from..Len(t) : t[i] # NL} IN
    IF Kept = {} THEN << >>
    ELSE SubSeq(t, CHOOSE i \in Kept : \A j \in Kept : i <= j, Len(t))

\* Mutant: the character at the cut is taken for a newline.
CutBehind == SplitAt(rest) + 2

CutFrom == SplitAt(rest) + 1

\* Too long: cut.
CutChunk ==
  /\ splitting /\ Len(rest) > MaxLen
  /\ chunks' = Append(chunks, SubSeq(rest, 1, SplitAt(rest)))
  /\ rest' = Stripped(rest, CutFrom)
  /\ UNCHANGED <<whole, splitting, next, asPlain, delivered>>

\* What is left fits in one chunk, or nothing is left.
LastChunk ==
  /\ splitting /\ Len(rest) <= MaxLen
  /\ chunks' = IF rest = << >> THEN chunks ELSE Append(chunks, rest)
  /\ rest' = << >> /\ splitting' = FALSE
  /\ UNCHANGED <<whole, next, asPlain, delivered>>
-----------------------------------------------------------------------------
\* The chat may show a message whose call failed.
Shown == delivered' \in {delivered, Append(delivered, next)}

SendMarkdown ==
  /\ ~splitting /\ next <= Len(chunks) /\ ~asPlain
  /\ \/ delivered' = Append(delivered, next) /\ next' = next + 1 /\ UNCHANGED asPlain
     \/ Shown /\ asPlain' = TRUE /\ UNCHANGED next
  /\ UNCHANGED <<whole, rest, chunks, splitting>>

\* Mutant: the retry starts over.
RetryAll ==
  /\ ~splitting /\ asPlain
  /\ Shown
  /\ next' \in {next + 1, 1} /\ asPlain' = FALSE
  /\ UNCHANGED <<whole, rest, chunks, splitting>>

\* Mutant: the retry goes back by one chunk.
RetryPrevious ==
  /\ ~splitting /\ asPlain
  /\ Shown
  /\ next' = next - 1 /\ asPlain' = FALSE
  /\ UNCHANGED <<whole, rest, chunks, splitting>>

\* Sent or not, the next chunk follows.
SendPlain ==
  /\ ~splitting /\ asPlain
  /\ Shown
  /\ next' = next + 1 /\ asPlain' = FALSE
  /\ UNCHANGED <<whole, rest, chunks, splitting>>

ChunksNext == CutChunk \/ LastChunk \/ SendMarkdown \/ SendPlain

ChunksSpec == ChunksInit /\ [][ChunksNext]_chunkVars
-----------------------------------------------------------------------------
ChunksTypeOK ==
  /\ whole \in Seq(Characters) /\ rest \in Seq(Characters)
  /\ chunks \in Seq(Seq(Characters)) /\ splitting \in BOOLEAN
  /\ next \in Nat \ {0} /\ asPlain \in BOOLEAN /\ delivered \in Seq(Nat)

\* The characters of a text that are no newlines.
Printed(t) == [i \in DOMAIN t |-> IF t[i] = NL THEN << >> ELSE <<t[i]>>]
Printable(t) == FlattenSeq(Printed(t))

\* Cutting loses and repeats nothing but newlines (index.py:787-788).
NothingLost == Printable(FlattenSeq(chunks) \o rest) = Printable(whole)

\* Every chunk fits into a Telegram message (index.py:774-789).
ChunksFit == \A i \in 1..Len(chunks) : Len(chunks[i]) <= MaxLen

\* Every turn of the loop makes the text shorter, so that it ends, a text that
\* starts with a newline (whose chunk is empty) included (index.py:779-788).
CutShortens == Len(rest) + Len(chunks) <= Len(whole)

\* The chat reads the chunks in order, and none more than twice
\* (index.py:189-210).
ShownInOrder ==
  /\ \A i \in 1..Len(delivered) - 1 : delivered[i] <= delivered[i + 1]
  /\ \A i \in 1..Len(delivered) - 2 : delivered[i] < delivered[i + 2]

\* However long the answer and wherever its newlines, it is cut into pieces that
\* fit and hold all of it, and those that arrive do so in order.  One that fails
\* as plain text too does not (index.py:209).
AnswerIsWhole == NothingLost /\ ChunksFit /\ CutShortens /\ ShownInOrder
=============================================================================
