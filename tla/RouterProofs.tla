----------------------------- MODULE RouterProofs -----------------------------
(***************************************************************************)
(* Proofs about Router, for any number of messages, executions and turns   *)
(* of history and any clock.                                               *)
(***************************************************************************)
EXTENDS Router, FiniteSetTheorems, FunctionTheorems, SequenceTheorems, TLAPS

-----------------------------------------------------------------------------
(***************************************************************************)
(* The history as a sequence: Chronological lists a set of items by their  *)
(* keys, Newest its end.                                                   *)
(***************************************************************************)

\* No two items have one key; the table is such a set.
Keyed(S) == \A i, j \in S : i.at = j.at /\ i.role = j.role => i = j

\* The keys of items are strictly and totally ordered.
LEMMA EarlierIsOrder ==
  ASSUME NEW S \in SUBSET Item, Keyed(S)
  PROVE  /\ \A i \in S : ~Earlier(i, i)
         /\ \A i, j, k \in S : Earlier(i, j) /\ Earlier(j, k) => Earlier(i, k)
         /\ \A i, j \in S : Earlier(i, j) \/ Earlier(j, i) \/ i = j
<1>1. \A i \in S : i.at \in Nat /\ i.role \in Nat
  BY RouterAssumption DEF Item, User, Assistant
<1> QED
  BY <1>1 DEF Earlier, Keyed

LEMMA RankInRange ==
  ASSUME NEW S \in SUBSET Item, Keyed(S), IsFiniteSet(S), NEW i \in S
  PROVE  Cardinality(S) \in Nat /\ Rank(S, i) \in 0..(Cardinality(S) - 1)
<1> DEFINE A == {j \in S : Earlier(j, i)}
<1>1. A \subseteq S \ {i}
  BY EarlierIsOrder
<1>2. /\ Cardinality(S) \in Nat /\ IsFiniteSet(S \ {i})
      /\ Cardinality(S \ {i}) = Cardinality(S) - 1
  BY FS_CardinalityType, FS_RemoveElement
<1>3. IsFiniteSet(A) /\ Cardinality(A) <= Cardinality(S \ {i}) /\ Cardinality(A) \in Nat
  BY <1>1, <1>2, FS_Subset, FS_CardinalityType
<1> QED
  BY <1>2, <1>3 DEF Rank

LEMMA RankGrows ==
  ASSUME NEW S \in SUBSET Item, Keyed(S), IsFiniteSet(S),
         NEW i \in S, NEW j \in S, Earlier(i, j)
  PROVE  Rank(S, i) < Rank(S, j)
<1> DEFINE A == {k \in S : Earlier(k, i)}
           B == {k \in S : Earlier(k, j)}
<1>1. A \subseteq B /\ i \in B /\ i \notin A
  BY EarlierIsOrder
<1>2. IsFiniteSet(B)
  BY FS_Subset
<1>3. /\ Cardinality(A) \in Nat /\ Cardinality(B) \in Nat
      /\ Cardinality(A) <= Cardinality(B) /\ Cardinality(A) # Cardinality(B)
  BY <1>1, <1>2, FS_Subset, FS_CardinalityType
<1> QED
  BY <1>3 DEF Rank

\* Every place of the listing is taken, by one item.
LEMMA RankIsOnto ==
  ASSUME NEW S \in SUBSET Item, Keyed(S), IsFiniteSet(S),
         NEW k \in 0..(Cardinality(S) - 1)
  PROVE  \E i \in S : Rank(S, i) = k
<1> DEFINE n == Cardinality(S)
           f == [i \in S |-> Rank(S, i)]
<1>1. n \in Nat /\ IsFiniteSet(0..(n - 1)) /\ Cardinality(0..(n - 1)) = n
  BY FS_CardinalityType, FS_Interval
<1>2. f \in [S -> 0..(n - 1)]
  BY RankInRange
<1>3. \A i, j \in S : Rank(S, i) = Rank(S, j) => i = j
  <2> SUFFICES ASSUME NEW i \in S, NEW j \in S, i # j PROVE Rank(S, i) # Rank(S, j)
    OBVIOUS
  <2>1. Rank(S, i) \in Int /\ Rank(S, j) \in Int
    BY RankInRange
  <2>2. Earlier(i, j) \/ Earlier(j, i)
    BY EarlierIsOrder
  <2> QED
    BY <2>1, <2>2, RankGrows
<1>4. f \in Injection(S, 0..(n - 1))
  BY <1>2, <1>3, Fun_IsInj
<1>5. f \in Surjection(S, 0..(n - 1))
  BY <1>1, <1>4, FS_Injection
<1>6. \E i \in S : f[i] = k
  <2> HIDE DEF f
  <2> QED
    BY <1>5 DEF Surjection
<1> QED
  BY <1>6

\* Chronological lists every item of the set, each behind the earlier ones.
LEMMA ChronologicalIs ==
  ASSUME NEW S \in SUBSET Item, Keyed(S), IsFiniteSet(S)
  PROVE  LET c == Chronological(S) IN
         /\ Len(c) = Cardinality(S) /\ Len(c) \in Nat
         /\ \A k \in 1..Len(c) : c[k] \in S
         /\ \A k, l \in 1..Len(c) : k < l => Earlier(c[k], c[l])
         /\ \A i \in S : Rank(S, i) + 1 \in 1..Len(c) /\ c[Rank(S, i) + 1] = i
<1> DEFINE n == Cardinality(S)
           c == Chronological(S)
<1>1. n \in Nat
  BY FS_CardinalityType
<1>2. c = [k \in 1..n |-> CHOOSE i \in S : Rank(S, i) = k - 1]
  BY DEF Chronological
<1> HIDE DEF c
<1>3. \A k \in 1..n : c[k] \in S /\ Rank(S, c[k]) = k - 1
  <2> SUFFICES ASSUME NEW k \in 1..n PROVE c[k] \in S /\ Rank(S, c[k]) = k - 1
    OBVIOUS
  <2>1. k - 1 \in 0..(n - 1)
    BY <1>1
  <2>2. \E i \in S : Rank(S, i) = k - 1
    BY <2>1, RankIsOnto
  <2> QED
    BY <1>2, <2>2
<1>4. Len(c) = n
  BY <1>1, <1>2
<1>5. \A k, l \in 1..n : k < l => Earlier(c[k], c[l])
  <2> SUFFICES ASSUME NEW k \in 1..n, NEW l \in 1..n, k < l PROVE Earlier(c[k], c[l])
    OBVIOUS
  <2>1. c[k] \in S /\ c[l] \in S /\ Rank(S, c[k]) < Rank(S, c[l])
    BY <1>1, <1>3
  <2>2. c[k] # c[l] /\ ~Earlier(c[l], c[k])
    <3>1. Rank(S, c[k]) \in Int /\ Rank(S, c[l]) \in Int
      BY <2>1, RankInRange
    <3> QED
      BY <2>1, <3>1, RankGrows
  <2> QED
    BY <2>1, <2>2, EarlierIsOrder
<1>6. \A i \in S : Rank(S, i) + 1 \in 1..n /\ c[Rank(S, i) + 1] = i
  <2> SUFFICES ASSUME NEW i \in S PROVE Rank(S, i) + 1 \in 1..n /\ c[Rank(S, i) + 1] = i
    OBVIOUS
  <2> DEFINE k == Rank(S, i) + 1
  <2>1. Rank(S, i) \in 0..(n - 1)
    BY RankInRange
  <2>2. k \in 1..n
    BY <1>1, <2>1
  <2>3. c[k] \in S /\ Rank(S, c[k]) = Rank(S, i)
    BY <1>3, <2>1, <2>2
  <2>4. ~Earlier(c[k], i) /\ ~Earlier(i, c[k])
    BY <2>1, <2>3, RankGrows
  <2> QED
    BY <2>2, <2>3, <2>4, EarlierIsOrder
<1> QED
  BY <1>1, <1>3, <1>4, <1>5, <1>6 DEF c

\* Newest is the end of that listing: an item with fewer than 2 * MaxTurns later
\* ones is in it, and what is next to it in the listing is so in Newest.
LEMMA NewestIs ==
  ASSUME NEW S \in SUBSET Item, Keyed(S), IsFiniteSet(S)
  PROVE  LET h == Newest(S)
             d == Cardinality(S) - Len(h) IN
         /\ h \in Seq(Item) /\ Len(h) \in Nat /\ d \in Nat
         /\ \A k \in 1..Len(h) : h[k] = Chronological(S)[d + k] /\ d + k \in 1..Cardinality(S)
         /\ \A k \in 1..Len(h) : h[k] \in S
         /\ \A k, l \in 1..Len(h) : k < l => Earlier(h[k], h[l])
         /\ d = 0 \/ Len(h) = 2 * MaxTurns
<1> DEFINE n == Cardinality(S)
           c == Chronological(S)
           m == IF n > 2 * MaxTurns THEN n - 2 * MaxTurns + 1 ELSE 1
           h == SubSeq(c, m, n)
<1>1. /\ Len(c) = n /\ n \in Nat /\ MaxTurns \in Nat
      /\ \A k \in 1..n : c[k] \in S
      /\ \A k, l \in 1..n : k < l => Earlier(c[k], c[l])
  BY ChronologicalIs, RouterAssumption
<1> HIDE DEF c
<1>2. Newest(S) = h
  BY <1>1 DEF Newest, Last, c
<1>3. m \in 1..(n + 1) /\ m \in Int /\ n \in Int
  BY <1>1
<1>4. /\ h \in Seq(Item) /\ Len(h) = n - m + 1
      /\ \A k \in 1..(n - m + 1) : h[k] = c[m + k - 1]
  <2>1. \A i \in m..n : c[i] \in Item
    BY <1>1, <1>3
  <2> HIDE DEF m
  <2> QED
    BY <1>3, <2>1, SubSeqProperties
<1>5. m = 1 \/ n - m + 1 = 2 * MaxTurns
  BY <1>1
<1> HIDE DEF h, m
<1>6. \A k \in 1..Len(h) : m - 1 + k \in 1..n /\ h[k] = c[m - 1 + k]
  BY <1>1, <1>3, <1>4
<1>7. \A k, l \in 1..Len(h) : k < l => Earlier(h[k], h[l])
  <2> SUFFICES ASSUME NEW k \in 1..Len(h), NEW l \in 1..Len(h), k < l
               PROVE  Earlier(h[k], h[l])
    OBVIOUS
  <2>1. m - 1 + k < m - 1 + l
    BY <1>1, <1>3, <1>4
  <2> QED
    BY <1>1, <1>6, <2>1
<1>8. n - Len(h) = m - 1 /\ Len(h) \in Nat /\ m - 1 \in Nat
  BY <1>1, <1>3, <1>4
<1> DEFINE d == n - Len(h)
<1>9. d \in Nat /\ d = m - 1 /\ (d = 0 \/ Len(h) = 2 * MaxTurns)
  BY <1>1, <1>3, <1>4, <1>5, <1>8
<1> HIDE DEF d
<1>10. \A k \in 1..Len(h) : h[k] = c[d + k] /\ d + k \in 1..n /\ h[k] \in S
  BY <1>1, <1>6, <1>9
<1> QED
  BY <1>2, <1>4, <1>7, <1>8, <1>9, <1>10 DEF c, d
-----------------------------------------------------------------------------
(***************************************************************************)
(* The inductive invariant.                                                *)
(***************************************************************************)

\* Executions that were begun are for messages that were sent.
RunsAreBegun ==
  \A r \in Runs : IF r <= runs THEN message[r] \in 1..sent /\ pc[r] # "none"
                  ELSE message[r] = 0 /\ pc[r] = "none"

\* An execution has an instant from the answer of the agent on, and keeps it.
Unanswered == {"none", "admit", "load", "invoke"}
Saving == {"save question", "save answer"}

InstantsAreTaken ==
  \A r \in Runs :
    /\ at[r] <= now
    /\ pc[r] \in Unanswered => at[r] = 0
    /\ pc[r] \in Saving => at[r] # 0

\* An item has the instant of its execution.
FromRun(i) == i.at = at[i.run] /\ pc[i.run] \notin Unanswered

ItemsAreFromRuns ==
  /\ \A i \in table : FromRun(i)
  /\ \A r \in Runs : \A k \in 1..Len(shown[r]) : FromRun(shown[r][k])

ShownIsSorted ==
  \A r \in Runs : \A k, l \in 1..Len(shown[r]) : k < l => shown[r][k].at <= shown[r][l].at

\* What the user heard comes from executions that ended, and what was known when
\* a message was sent had its instant before the answer to that message got one.
HeardIsOver ==
  /\ \A r \in heard : pc[r] \in {"over", "timed out"}
  /\ \A m \in Messages : before[m] \subseteq heard

InstantsFollowConversation ==
  \A p \in Runs : at[p] # 0 => \A q \in before[message[p]] : at[q] <= at[p]

\* What an execution has saved is there, unless another used its instant.
SavedIsThere ==
  \A p \in Runs :
    /\ p \in saved => at[p] # 0 /\ pc[p] \in {"send", "over", "timed out"}
    /\ Alone(p) =>
         /\ p \in saved \/ pc[p] = "save answer" =>
              [at |-> at[p], role |-> User, run |-> p] \in table
         /\ p \in saved => [at |-> at[p], role |-> Assistant, run |-> p] \in table

TableIsKeyed == IsFiniteSet(table) /\ Keyed(table)

IInv ==
  /\ TypeOK /\ RunsAreBegun /\ InstantsAreTaken /\ ItemsAreFromRuns /\ ShownIsSorted
  /\ HeardIsOver /\ InstantsFollowConversation /\ SavedIsThere /\ TableIsKeyed

LEMMA IInvInit == Init => IInv
<1> SUFFICES ASSUME Init PROVE IInv
  OBVIOUS
<1> USE DEF Init
<1>1. TypeOK
  <2>1. /\ now \in 1..MaxTime /\ sent \in 0..MaxMessages /\ runs \in 0..MaxRuns
        /\ at \in [Runs -> 0..MaxTime] /\ message \in [Runs -> 0..MaxMessages]
    BY RouterAssumption
  <2>2. << >> \in Seq(Item)
    BY EmptySeq
  <2>3. shown \in [Runs -> Seq(Item)]
    BY <2>2
  <2> QED
    BY <2>1, <2>3 DEF TypeOK
<1>2. RunsAreBegun
  BY RouterAssumption DEF RunsAreBegun, Runs
<1>3. InstantsAreTaken /\ InstantsFollowConversation
  BY DEF InstantsAreTaken, Unanswered, Saving, InstantsFollowConversation
<1>4. ItemsAreFromRuns /\ ShownIsSorted /\ HeardIsOver
  BY EmptySeq DEF ItemsAreFromRuns, ShownIsSorted, HeardIsOver
<1>5. SavedIsThere
  BY DEF SavedIsThere
<1>6. TableIsKeyed
  BY FS_EmptySet DEF TableIsKeyed, Keyed
<1> QED
  BY <1>1, <1>2, <1>3, <1>4, <1>5, <1>6 DEF IInv

-----------------------------------------------------------------------------
(***************************************************************************)
(* What a step does.                                                       *)
(***************************************************************************)

\* An execution moves from call to call; its instant is set once, and what it
\* was begun for stays.
LEMMA RunMoves ==
  ASSUME IInv, Next, NEW r \in Runs
  PROVE  /\ now <= now' /\ now' \in Nat
         /\ \/ at'[r] = at[r] /\ (pc'[r] \in Saving => pc[r] \in Saving)
            \/ pc[r] = "invoke" /\ at'[r] = now /\ now' = now /\ pc'[r] = "save question"
         /\ pc[r] \notin Unanswered => pc'[r] \notin Unanswered
         /\ pc[r] \in {"over", "timed out"} => pc'[r] = pc[r]
         /\ pc[r] = "send" => pc'[r] \in {"send", "over", "timed out"}
         /\ message'[r] = message[r] \/ pc[r] = "none"
<1>0. now \in Nat /\ runs \in Nat
  <2>1. now \in 1..MaxTime /\ runs \in 0..MaxRuns
    BY DEF IInv, TypeOK
  <2> QED
    BY <2>1, RouterAssumption
<1>1. /\ pc \in [Runs -> {"none", "admit", "load", "invoke", "save question", "save answer",
                         "send", "over", "timed out"}]
      /\ at \in [Runs -> 0..MaxTime] /\ message \in [Runs -> 0..MaxMessages]
  BY DEF IInv, TypeOK
<1> USE DEF Unanswered, Saving
<1>2. ASSUME SendMessage \/ Tick
      PROVE  pc' = pc /\ at' = at /\ message' = message /\ now <= now' /\ now' \in Nat
  <2>1. pc' = pc /\ at' = at /\ message' = message /\ now' \in {now, now + 1}
    BY <1>2 DEF SendMessage, Tick
  <2>2. now <= now' /\ now' \in Nat
    BY <1>0, <2>1
  <2> QED
    BY <2>1, <2>2
<1>3. ASSUME NEW m \in Messages, Deliver(m)
      PROVE  /\ at' = at /\ now' = now /\ runs + 1 \in Runs
             /\ pc' = [pc EXCEPT ![runs + 1] = "admit"] /\ pc[runs + 1] = "none"
             /\ message' = [message EXCEPT ![runs + 1] = m]
  <2>1. runs < MaxRuns
    BY <1>3 DEF Deliver
  <2>2. runs + 1 \in Runs /\ ~(runs + 1 <= runs)
    BY <1>0, <2>1, RouterAssumption DEF Runs
  <2> QED
    BY <1>3, <2>2 DEF Deliver, IInv, RunsAreBegun
<1>4. ASSUME NEW p \in Runs, HandlerStep(p) \/ TimeOut(p)
      PROVE  /\ now' = now /\ message' = message
             /\ pc[p] \notin {"none", "over", "timed out"}
             /\ \/ /\ at' = at
                   /\ \E l \in {"load", "invoke", "save answer", "send", "over", "timed out"} :
                        /\ pc' = [pc EXCEPT ![p] = l]
                        /\ pc[p] \notin Unanswered => l \notin Unanswered
                        /\ l \in Saving => pc[p] \in Saving
                        /\ pc[p] = "send" => l \in {"over", "timed out"}
                \/ /\ pc[p] = "invoke" /\ at' = [at EXCEPT ![p] = now]
                   /\ pc' = [pc EXCEPT ![p] = "save question"]
  <2>1. CASE Admit(p)
    BY <2>1 DEF Admit, Finish
  <2>2. CASE Load(p)
    BY <2>2 DEF Load, Finish
  <2>3. CASE Invoke(p)
    BY <2>3 DEF Invoke, Instant
  <2>4. CASE SaveQuestion(p) \/ SaveAnswer(p)
    BY <2>4 DEF SaveQuestion, SaveAnswer, PutFails
  <2>5. CASE SendReply(p)
    BY <2>5 DEF SendReply, Finish
  <2>6. CASE TimeOut(p)
    BY <2>6 DEF TimeOut
  <2> QED
    BY <1>4, <2>1, <2>2, <2>3, <2>4, <2>5, <2>6 DEF HandlerStep
<1>5. ASSUME NEW m \in Messages, Deliver(m)
      PROVE  /\ at'[r] = at[r] /\ (pc'[r] \in Saving => pc[r] \in Saving)
             /\ pc[r] \notin Unanswered => pc'[r] \notin Unanswered
             /\ pc[r] \in {"over", "timed out"} => pc'[r] = pc[r]
             /\ pc[r] = "send" => pc'[r] \in {"send", "over", "timed out"}
             /\ message'[r] = message[r] \/ pc[r] = "none"
             /\ now' = now
  BY <1>1, <1>3, <1>5
<1>6. ASSUME NEW p \in Runs, HandlerStep(p) \/ TimeOut(p)
      PROVE  /\ \/ at'[r] = at[r] /\ (pc'[r] \in Saving => pc[r] \in Saving)
                \/ pc[r] = "invoke" /\ at'[r] = now /\ pc'[r] = "save question"
             /\ pc[r] \notin Unanswered => pc'[r] \notin Unanswered
             /\ pc[r] \in {"over", "timed out"} => pc'[r] = pc[r]
             /\ pc[r] = "send" => pc'[r] \in {"send", "over", "timed out"}
             /\ message' = message /\ now' = now
  BY <1>1, <1>4, <1>6
<1>7. CASE SendMessage \/ Tick
  BY <1>2, <1>7
<1>8. CASE \E m \in Messages : Deliver(m)
  <2>1. now' = now
    BY <1>5, <1>8
  <2>2. now <= now' /\ now' \in Nat
    BY <1>0, <2>1
  <2> QED
    BY <1>5, <1>8, <2>1, <2>2
<1>9. CASE \E p \in Runs : HandlerStep(p) \/ TimeOut(p)
  <2>1. now' = now
    BY <1>6, <1>9
  <2>2. now <= now' /\ now' \in Nat
    BY <1>0, <2>1
  <2> QED
    BY <1>6, <1>9, <2>1, <2>2
<1> QED
  BY <1>7, <1>8, <1>9 DEF Next

\* A put leaves the table a set with keys: the item of the same key goes.
LEMMA WithIs ==
  ASSUME IInv, NEW r \in Runs, pc[r] \in Saving, NEW role \in {User, Assistant}
  PROVE  LET new == [at |-> at[r], role |-> role, run |-> r] IN
         /\ new \in Item /\ new \in With(r, role)
         /\ With(r, role) \in SUBSET Item
         /\ IsFiniteSet(With(r, role)) /\ Keyed(With(r, role))
         /\ \A i \in With(r, role) : i \in table \/ i = new
         /\ \A i \in table : i.at # at[r] \/ i.role # role => i \in With(r, role)
<1> DEFINE new == [at |-> at[r], role |-> role, run |-> r]
           rest == {i \in table : ~(i.at = at[r] /\ i.role = role)}
<1>1. With(r, role) = rest \union {new}
  BY DEF With
<1>2. table \in SUBSET Item /\ IsFiniteSet(table) /\ Keyed(table)
  BY DEF IInv, TypeOK, TableIsKeyed
<1>3. at[r] \in 1..MaxTime
  <2>1. at[r] \in 0..MaxTime /\ at[r] # 0
    BY DEF IInv, TypeOK, InstantsAreTaken
  <2> QED
    BY <2>1, RouterAssumption
<1>4. new \in Item
  BY <1>3 DEF Item
<1>5. IsFiniteSet(rest)
  BY <1>2, FS_Subset
<1>6. IsFiniteSet(rest \union {new})
  BY <1>5, FS_AddElement
<1>7. Keyed(rest \union {new})
  <2>1. new.at = at[r] /\ new.role = role
    OBVIOUS
  <2> HIDE DEF new
  <2> QED
    BY <1>2, <2>1 DEF Keyed
<1> QED
  BY <1>1, <1>2, <1>4, <1>6, <1>7

\* The table and what was saved change by saving a question or an answer.
LEMMA TableMoves ==
  ASSUME IInv, Next
  PROVE  \/ /\ table' = table /\ saved' = saved
            /\ \A p \in Runs : pc'[p] = "save answer" => pc[p] = "save answer"
         \/ \E p \in Runs :
              /\ pc[p] = "save question" /\ table' = With(p, User) /\ saved' = saved
              /\ \E l \in {"save answer", "send"} : pc' = [pc EXCEPT ![p] = l]
              /\ UNCHANGED <<at, shown>>
         \/ \E p \in Runs :
              /\ pc[p] = "save answer" /\ table' = With(p, Assistant)
              /\ saved' \in {saved, saved \union {p}}
              /\ pc' = [pc EXCEPT ![p] = "send"]
              /\ UNCHANGED <<at, shown>>
<1>1. pc \in [Runs -> {"none", "admit", "load", "invoke", "save question", "save answer",
                      "send", "over", "timed out"}]
  BY DEF IInv, TypeOK
<1>2. CASE SendMessage \/ Tick
  BY <1>2 DEF SendMessage, Tick
<1>0. \A x, l : l # "save answer" /\ pc' = [pc EXCEPT ![x] = l]
              => \A q \in Runs : pc'[q] = "save answer" => pc[q] = "save answer"
  BY <1>1
<1>3. CASE \E m \in Messages : Deliver(m)
  <2>1. table' = table /\ saved' = saved /\ pc' = [pc EXCEPT ![runs + 1] = "admit"]
    BY <1>3 DEF Deliver
  <2> QED
    BY <1>0, <2>1
<1>4. ASSUME NEW p \in Runs, Admit(p) PROVE table' = table /\ saved' = saved
        /\ \A q \in Runs : pc'[q] = "save answer" => pc[q] = "save answer"
  <2>1. /\ table' = table /\ saved' = saved
        /\ \E l \in {"load", "over"} : pc' = [pc EXCEPT ![p] = l]
    BY <1>4 DEF Admit, Finish
  <2> QED
    BY <1>0, <2>1
<1>5. ASSUME NEW p \in Runs, Load(p) PROVE table' = table /\ saved' = saved
        /\ \A q \in Runs : pc'[q] = "save answer" => pc[q] = "save answer"
  <2>1. /\ table' = table /\ saved' = saved
        /\ \E l \in {"invoke", "over"} : pc' = [pc EXCEPT ![p] = l]
    BY <1>5 DEF Load, Finish
  <2> QED
    BY <1>0, <2>1
<1>6. ASSUME NEW p \in Runs, Invoke(p) PROVE table' = table /\ saved' = saved
        /\ \A q \in Runs : pc'[q] = "save answer" => pc[q] = "save answer"
  <2>1. /\ table' = table /\ saved' = saved
        /\ \E l \in {"save question", "send"} : pc' = [pc EXCEPT ![p] = l]
    BY <1>6 DEF Invoke
  <2> QED
    BY <1>0, <2>1
<1>7. ASSUME NEW p \in Runs, SendReply(p) \/ TimeOut(p) PROVE table' = table /\ saved' = saved
        /\ \A q \in Runs : pc'[q] = "save answer" => pc[q] = "save answer"
  <2>1. /\ table' = table /\ saved' = saved
        /\ \E l \in {"over", "timed out"} : pc' = [pc EXCEPT ![p] = l]
    BY <1>7 DEF SendReply, Finish, TimeOut
  <2> QED
    BY <1>0, <2>1
<1>8. ASSUME NEW p \in Runs, SaveQuestion(p) PROVE
        \/ /\ table' = table /\ saved' = saved
           /\ \A q \in Runs : pc'[q] = "save answer" => pc[q] = "save answer"
        \/ /\ pc[p] = "save question" /\ table' = With(p, User) /\ saved' = saved
           /\ \E l \in {"save answer", "send"} : pc' = [pc EXCEPT ![p] = l]
           /\ UNCHANGED <<at, shown>>
  BY <1>1, <1>8 DEF SaveQuestion, PutFails
<1>9. ASSUME NEW p \in Runs, SaveAnswer(p) PROVE
        \/ /\ table' = table /\ saved' = saved
           /\ \A q \in Runs : pc'[q] = "save answer" => pc[q] = "save answer"
        \/ /\ pc[p] = "save answer" /\ table' = With(p, Assistant)
           /\ saved' \in {saved, saved \union {p}}
           /\ pc' = [pc EXCEPT ![p] = "send"]
           /\ UNCHANGED <<at, shown>>
  BY <1>1, <1>9 DEF SaveAnswer, PutFails
<1> QED
  BY <1>2, <1>3, <1>4, <1>5, <1>6, <1>7, <1>8, <1>9 DEF Next, HandlerStep

\* A history is loaded from the table, kept, or dropped.
LEMMA ShownMoves ==
  ASSUME IInv, Next, NEW r \in Runs
  PROVE  \/ shown'[r] = shown[r] \/ shown'[r] = << >>
         \/ /\ pc[r] = "load" /\ at' = at
            /\ \E seen \in SUBSET table :
                 shown'[r] = Newest(seen) /\ (r \notin blind' => seen = table)
<1>1. shown \in [Runs -> Seq(Item)]
  BY DEF IInv, TypeOK
<1>2. CASE SendMessage \/ Tick
  BY <1>2 DEF SendMessage, Tick
<1>3. CASE \E m \in Messages : Deliver(m)
  BY <1>3 DEF Deliver
<1>4. ASSUME NEW p \in Runs, Load(p) PROVE
         \/ shown'[r] = shown[r]
         \/ /\ pc[r] = "load" /\ at' = at
            /\ \E seen \in SUBSET table :
                 shown'[r] = Newest(seen) /\ (r \notin blind' => seen = table)
  BY <1>1, <1>4 DEF Load, Finish
<1>5. ASSUME NEW p \in Runs, Invoke(p) \/ TimeOut(p)
      PROVE  shown'[r] = shown[r] \/ shown'[r] = << >>
  BY <1>1, <1>5 DEF Invoke, TimeOut
<1>6. ASSUME NEW p \in Runs, Admit(p) \/ SaveQuestion(p) \/ SaveAnswer(p) \/ SendReply(p)
      PROVE  shown'[r] = shown[r]
  BY <1>6 DEF Admit, SaveQuestion, SaveAnswer, SendReply
<1> QED
  BY <1>2, <1>3, <1>4, <1>5, <1>6 DEF Next, HandlerStep

-----------------------------------------------------------------------------
(***************************************************************************)
(* Every step preserves the inductive invariant.                           *)
(***************************************************************************)

\* A history that is loaded is a sequence of items of the table, in order.
LEMMA LoadedIs ==
  ASSUME IInv, NEW seen \in SUBSET table
  PROVE  /\ Newest(seen) \in Seq(Item)
         /\ \A k \in 1..Len(Newest(seen)) : Newest(seen)[k] \in table
         /\ \A k, l \in 1..Len(Newest(seen)) :
              k < l => Newest(seen)[k].at <= Newest(seen)[l].at
<1>1. seen \in SUBSET Item /\ IsFiniteSet(seen) /\ Keyed(seen)
  BY FS_Subset DEF IInv, TypeOK, TableIsKeyed, Keyed
<1>2. /\ Newest(seen) \in Seq(Item)
      /\ \A k \in 1..Len(Newest(seen)) : Newest(seen)[k] \in seen
      /\ \A k, l \in 1..Len(Newest(seen)) :
           k < l => Earlier(Newest(seen)[k], Newest(seen)[l])
  BY <1>1, NewestIs
<1>3. \A i, j \in seen : Earlier(i, j) => i.at <= j.at
  <2>1. \A i \in seen : i.at \in Nat
    BY <1>1, RouterAssumption DEF Item
  <2> QED
    BY <2>1 DEF Earlier
<1> QED
  BY <1>2, <1>3

LEMMA TypeStep == IInv /\ Next => TypeOK'
<1> SUFFICES ASSUME IInv, Next PROVE TypeOK'
  OBVIOUS
<1>1. TypeOK
  BY DEF IInv
<1>2. CASE SendMessage
  <2>1. sent' \in 0..MaxMessages
    <3>1. sent \in 0..MaxMessages /\ sent < MaxMessages /\ sent' = sent + 1
      BY <1>1, <1>2 DEF TypeOK, SendMessage
    <3> QED
      BY <3>1, RouterAssumption
  <2> QED
    BY <1>1, <1>2, <2>1 DEF TypeOK, SendMessage
<1>3. CASE Tick
  <2>1. now' \in 1..MaxTime
    <3>1. now \in 1..MaxTime /\ now < MaxTime /\ now' = now + 1
      BY <1>1, <1>3 DEF TypeOK, Tick
    <3> QED
      BY <3>1, RouterAssumption
  <2> QED
    BY <1>1, <1>3, <2>1 DEF TypeOK, Tick
<1>4. ASSUME NEW m \in Messages, Deliver(m) PROVE TypeOK'
  <2>1. runs' \in 0..MaxRuns
    <3>1. runs \in 0..MaxRuns /\ runs < MaxRuns /\ runs' = runs + 1
      BY <1>1, <1>4 DEF TypeOK, Deliver
    <3> QED
      BY <3>1, RouterAssumption
  <2>2. m \in 0..MaxMessages
    BY RouterAssumption DEF Messages
  <2> QED
    BY <1>1, <1>4, <2>1, <2>2 DEF TypeOK, Deliver
<1>5. ASSUME NEW r \in Runs, HandlerStep(r) \/ TimeOut(r) PROVE TypeOK'
  <2>1. message[r] \in Messages
    <3>1. pc[r] # "none"
      BY <1>5 DEF HandlerStep, Admit, Load, Invoke, SaveQuestion, SaveAnswer, SendReply, TimeOut
    <3>2. message[r] \in 1..sent /\ sent \in 0..MaxMessages
      BY <1>1, <3>1 DEF IInv, RunsAreBegun, TypeOK
    <3> QED
      BY <3>2, RouterAssumption DEF Messages
  <2>2. now \in 0..MaxTime
    <3>1. now \in 1..MaxTime
      BY <1>1 DEF TypeOK
    <3> QED
      BY <3>1, RouterAssumption
  <2>3. ASSUME NEW status, Finish(r, status)
        PROVE  /\ acked' \in SUBSET Messages
                /\ pc' = [pc EXCEPT ![r] = "over"] /\ reply' = [reply EXCEPT ![r] = "none"]
    <3>1. /\ acked' = acked \/ acked' = acked \union {message[r]}
          /\ pc' = [pc EXCEPT ![r] = "over"] /\ reply' = [reply EXCEPT ![r] = "none"]
      BY <2>3 DEF Finish
    <3>2. acked \in SUBSET Messages
      BY <1>1 DEF TypeOK
    <3> QED
      BY <2>1, <3>1, <3>2
  <2>4. CASE Admit(r)
    BY <1>1, <2>4, <2>3 DEF TypeOK, Admit
  <2>5. CASE Load(r)
    <3>1. shown' \in [Runs -> Seq(Item)]
      <4>1. \A seen \in SUBSET table : Newest(seen) \in Seq(Item)
        BY LoadedIs
      <4> QED
        BY <1>1, <2>5, <4>1 DEF TypeOK, Load
    <3> QED
      BY <1>1, <2>5, <2>3, <3>1 DEF TypeOK, Load
  <2>6. CASE Invoke(r)
    BY <1>1, <2>2, <2>6, EmptySeq DEF TypeOK, Invoke, Instant
  <2>7. CASE SaveQuestion(r)
    <3>1. With(r, User) \in SUBSET Item
      BY <2>7, WithIs DEF SaveQuestion, Saving
    <3> QED
      BY <1>1, <2>7, <3>1 DEF TypeOK, SaveQuestion, PutFails
  <2>8. CASE SaveAnswer(r)
    <3>1. With(r, Assistant) \in SUBSET Item
      BY <2>8, WithIs DEF SaveAnswer, Saving
    <3> QED
      BY <1>1, <2>8, <3>1 DEF TypeOK, SaveAnswer, PutFails
  <2>9. CASE SendReply(r)
    BY <1>1, <2>9, <2>3 DEF TypeOK, SendReply
  <2>10. CASE TimeOut(r)
    BY <1>1, <2>10, EmptySeq DEF TypeOK, TimeOut
  <2> QED
    BY <1>5, <2>4, <2>5, <2>6, <2>7, <2>8, <2>9, <2>10 DEF HandlerStep
<1> QED
  BY <1>2, <1>3, <1>4, <1>5 DEF Next

LEMMA RunsAreBegunStep == IInv /\ Next => RunsAreBegun'
<1> SUFFICES ASSUME IInv, Next PROVE RunsAreBegun'
  OBVIOUS
<1>0. sent \in Nat /\ runs \in Nat /\ \A r \in Runs : r \in Nat
  <2>1. sent \in 0..MaxMessages /\ runs \in 0..MaxRuns
    BY DEF IInv, TypeOK
  <2> QED
    BY <2>1, RouterAssumption DEF Runs
<1>1. /\ pc \in [Runs -> {"none", "admit", "load", "invoke", "save question", "save answer",
                         "send", "over", "timed out"}]
      /\ message \in [Runs -> 0..MaxMessages]
  BY DEF IInv, TypeOK
<1>2. \A r \in Runs : IF r <= runs THEN message[r] \in 1..sent /\ pc[r] # "none"
                      ELSE message[r] = 0 /\ pc[r] = "none"
  BY DEF IInv, RunsAreBegun
<1>3. ASSUME pc' = pc, message' = message, runs' = runs, sent' \in {sent, sent + 1}
      PROVE  RunsAreBegun'
  <2>1. 1..sent \subseteq 1..sent'
    BY <1>0, <1>3
  <2> QED
    BY <1>2, <1>3, <2>1 DEF RunsAreBegun
<1>4. CASE SendMessage \/ Tick
  BY <1>3, <1>4 DEF SendMessage, Tick
<1>5. ASSUME NEW m \in Messages, Deliver(m) PROVE RunsAreBegun'
  <2>1. /\ sent' = sent /\ runs' = runs + 1 /\ m <= sent
        /\ message' = [message EXCEPT ![runs + 1] = m]
        /\ pc' = [pc EXCEPT ![runs + 1] = "admit"]
    BY <1>5 DEF Deliver
  <2>2. m \in 1..sent
    BY <1>0, <2>1, RouterAssumption DEF Messages
  <2>3. \A r \in Runs : IF r = runs + 1 THEN message'[r] = m /\ pc'[r] = "admit"
                        ELSE message'[r] = message[r] /\ pc'[r] = pc[r]
    BY <1>1, <2>1
  <2>4. \A r \in Runs : r <= runs' <=> r <= runs \/ r = runs + 1
    BY <1>0, <2>1
  <2>5. ~(runs + 1 <= runs)
    BY <1>0
  <2> QED
    BY <1>2, <2>1, <2>2, <2>3, <2>4, <2>5 DEF RunsAreBegun
<1>6. ASSUME NEW p \in Runs, HandlerStep(p) \/ TimeOut(p) PROVE RunsAreBegun'
  <2>1. message' = message /\ sent' = sent /\ runs' = runs /\ pc[p] # "none"
    BY <1>6 DEF HandlerStep, Admit, Load, Invoke, SaveQuestion, SaveAnswer, SendReply, TimeOut
  <2>2. \E l \in {"load", "invoke", "save question", "save answer", "send", "over",
                  "timed out"} : pc' = [pc EXCEPT ![p] = l]
    BY <1>6 DEF HandlerStep, Admit, Load, Invoke, SaveQuestion, SaveAnswer, SendReply, TimeOut,
                Finish, PutFails
  <2>3. \A r \in Runs : pc'[r] = "none" <=> pc[r] = "none"
    BY <1>1, <2>1, <2>2
  <2> QED
    BY <1>2, <2>1, <2>3 DEF RunsAreBegun
<1> QED
  BY <1>4, <1>5, <1>6 DEF Next

LEMMA InstantsAreTakenStep == IInv /\ Next => InstantsAreTaken'
<1> SUFFICES ASSUME IInv, Next, NEW r \in Runs
             PROVE  /\ at'[r] <= now'
                    /\ pc'[r] \in Unanswered => at'[r] = 0
                    /\ pc'[r] \in Saving => at'[r] # 0
  BY DEF InstantsAreTaken
<1>1. /\ now <= now' /\ now' \in Nat
      /\ \/ at'[r] = at[r] /\ (pc'[r] \in Saving => pc[r] \in Saving)
         \/ pc[r] = "invoke" /\ at'[r] = now /\ now' = now /\ pc'[r] = "save question"
      /\ pc[r] \notin Unanswered => pc'[r] \notin Unanswered
  BY RunMoves
<1>2. at[r] <= now /\ (pc[r] \in Unanswered => at[r] = 0) /\ (pc[r] \in Saving => at[r] # 0)
  BY DEF IInv, InstantsAreTaken
<1>3. now \in Nat /\ now # 0 /\ at[r] \in Nat
  <2>1. now \in 1..MaxTime /\ at[r] \in 0..MaxTime
    BY DEF IInv, TypeOK
  <2> QED
    BY <2>1, RouterAssumption
<1>4. CASE at'[r] = at[r] /\ (pc'[r] \in Saving => pc[r] \in Saving)
  <2>1. at'[r] = at[r] /\ at[r] <= now /\ now <= now' /\ now' \in Nat
    BY <1>1, <1>2, <1>4
  <2>2. at'[r] <= now'
    BY <1>3, <2>1
  <2> QED
    BY <1>1, <1>2, <1>4, <2>2
<1>5. CASE pc[r] = "invoke" /\ at'[r] = now /\ now' = now /\ pc'[r] = "save question"
  <2>1. at'[r] = now /\ now' = now
    BY <1>5
  <2>2. at'[r] <= now' /\ at'[r] # 0
    BY <1>3, <2>1
  <2> QED
    BY <1>5, <2>2 DEF Unanswered
<1> QED
  BY <1>1, <1>4, <1>5

\* Who has an instant keeps it.
LEMMA InstantsStay ==
  ASSUME IInv, Next, NEW r \in Runs, pc[r] \notin Unanswered
  PROVE  at'[r] = at[r] /\ pc'[r] \notin Unanswered
BY RunMoves DEF Unanswered

LEMMA ItemsStep == IInv /\ Next => ItemsAreFromRuns' /\ ShownIsSorted' /\ TableIsKeyed'
<1> SUFFICES ASSUME IInv, Next PROVE ItemsAreFromRuns' /\ ShownIsSorted' /\ TableIsKeyed'
  OBVIOUS
<1>1. /\ table \in SUBSET Item /\ shown \in [Runs -> Seq(Item)]
      /\ IsFiniteSet(table) /\ Keyed(table)
      /\ \A i \in table : FromRun(i)
      /\ \A r \in Runs : \A k \in 1..Len(shown[r]) : FromRun(shown[r][k])
      /\ \A r \in Runs : \A k, l \in 1..Len(shown[r]) : k < l => shown[r][k].at <= shown[r][l].at
  BY DEF IInv, TypeOK, TableIsKeyed, ItemsAreFromRuns, ShownIsSorted
<1>2. ASSUME NEW i \in Item, FromRun(i) PROVE FromRun(i)'
  <2>1. i.run \in Runs
    BY DEF Item
  <2> QED
    BY <1>2, <2>1, InstantsStay DEF FromRun
<1>3. ASSUME NEW p \in Runs, NEW role \in {User, Assistant}, pc[p] \in Saving,
             table' = With(p, role)
      PROVE  /\ \A i \in table' : FromRun(i)'
             /\ IsFiniteSet(table') /\ Keyed(table')
  <2> DEFINE new == [at |-> at[p], role |-> role, run |-> p]
  <2>1. /\ new \in Item /\ IsFiniteSet(table') /\ Keyed(table')
        /\ \A i \in table' : i \in table \/ i = new
    BY <1>3, WithIs
  <2>2. new.at = at[p] /\ new.run = p
    OBVIOUS
  <2> HIDE DEF new
  <2>3. FromRun(new)
    BY <1>3, <2>2 DEF FromRun, Saving, Unanswered
  <2> QED
    BY <1>1, <1>2, <2>1, <2>3
<1>4. /\ \A i \in table' : FromRun(i)'
      /\ IsFiniteSet(table') /\ Keyed(table')
  <2>1. CASE table' = table
    BY <1>1, <1>2, <2>1
  <2>2. CASE \E p \in Runs : pc[p] = "save question" /\ table' = With(p, User)
    BY <1>3, <2>2 DEF Saving
  <2>3. CASE \E p \in Runs : pc[p] = "save answer" /\ table' = With(p, Assistant)
    BY <1>3, <2>3 DEF Saving
  <2> QED
    BY <2>1, <2>2, <2>3, TableMoves
<1>5. ASSUME NEW r \in Runs
      PROVE  /\ \A k \in 1..Len(shown'[r]) : FromRun(shown[r][k])'
             /\ \A k, l \in 1..Len(shown'[r]) : k < l => shown'[r][k].at <= shown'[r][l].at
  <2>1. CASE shown'[r] = shown[r]
    <3>1. \A k \in 1..Len(shown[r]) : shown[r][k] \in Item
      BY <1>1
    <3> QED
      BY <1>1, <1>2, <2>1, <3>1
  <2>2. CASE shown'[r] = << >>
    BY <2>2
  <2>3. CASE \E seen \in SUBSET table : shown'[r] = Newest(seen)
    <3>1. /\ \A k \in 1..Len(shown'[r]) : shown'[r][k] \in table
          /\ \A k, l \in 1..Len(shown'[r]) : k < l => shown'[r][k].at <= shown'[r][l].at
      BY <2>3, LoadedIs
    <3> QED
      BY <1>1, <1>2, <3>1
  <2> QED
    BY <2>1, <2>2, <2>3, ShownMoves
<1> QED
  BY <1>4, <1>5 DEF ItemsAreFromRuns, ShownIsSorted, TableIsKeyed, Keyed, FromRun, Unanswered

\* What the user heard grows by executions that end.
LEMMA HeardMoves ==
  ASSUME IInv, Next
  PROVE  /\ \A r \in heard' : r \in heard \/ (r \in Runs /\ pc'[r] \in {"over", "timed out"})
         /\ heard \subseteq heard'
         /\ \/ before' = before
            \/ sent < MaxMessages /\ before' = [before EXCEPT ![sent + 1] = heard]
<1>1. pc \in [Runs -> {"none", "admit", "load", "invoke", "save question", "save answer",
                      "send", "over", "timed out"}]
  BY DEF IInv, TypeOK
<1>2. ASSUME SendMessage
      PROVE  /\ heard' = heard /\ sent < MaxMessages
             /\ before' = [before EXCEPT ![sent + 1] = heard]
  BY <1>2 DEF SendMessage
<1>3. ASSUME Tick \/ \E m \in Messages : Deliver(m)
      PROVE  heard' = heard /\ before' = before
  BY <1>3 DEF Tick, Deliver
<1>4. ASSUME NEW r \in Runs,
             Admit(r) \/ Load(r) \/ Invoke(r) \/ SaveQuestion(r) \/ SaveAnswer(r)
      PROVE  heard' = heard /\ before' = before
  BY <1>4 DEF Admit, Load, Invoke, SaveQuestion, SaveAnswer
<1>5. ASSUME NEW r \in Runs, SendReply(r) \/ TimeOut(r)
      PROVE  /\ heard' = heard \/ heard' = heard \union {r}
             /\ before' = before /\ pc'[r] \in {"over", "timed out"}
  <2>1. \E l \in {"over", "timed out"} : pc' = [pc EXCEPT ![r] = l]
    BY <1>5 DEF SendReply, Finish, TimeOut
  <2>2. pc'[r] \in {"over", "timed out"}
    BY <1>1, <2>1
  <2>3. (heard' = heard \/ heard' = heard \union {r}) /\ before' = before
    BY <1>5 DEF SendReply, TimeOut
  <2> QED
    BY <2>2, <2>3
<1>6. CASE heard' = heard /\ before' = before
  BY <1>6
<1>7. CASE SendMessage
  BY <1>2, <1>7
<1>8. CASE \E r \in Runs : SendReply(r) \/ TimeOut(r)
  BY <1>5, <1>8
<1> QED
  BY <1>3, <1>4, <1>6, <1>7, <1>8 DEF Next, HandlerStep

LEMMA HeardStep == IInv /\ Next => HeardIsOver'
<1> SUFFICES ASSUME IInv, Next PROVE HeardIsOver'
  OBVIOUS
<1>1. /\ heard \in SUBSET Runs /\ before \in [Messages -> SUBSET Runs]
      /\ \A r \in heard : pc[r] \in {"over", "timed out"}
      /\ \A m \in Messages : before[m] \subseteq heard
  BY DEF IInv, TypeOK, HeardIsOver
<1>2. \A r \in heard' : pc'[r] \in {"over", "timed out"}
  BY <1>1, HeardMoves, RunMoves
<1>3. \A m \in Messages : before'[m] = before[m] \/ before'[m] = heard
  BY <1>1, HeardMoves
<1> QED
  BY <1>1, <1>2, <1>3, HeardMoves DEF HeardIsOver

LEMMA InstantsFollowStep == IInv /\ Next => InstantsFollowConversation'
<1> SUFFICES ASSUME IInv, Next, NEW p \in Runs, at'[p] # 0, NEW q \in before'[message'[p]]
             PROVE  at'[q] <= at'[p]
  BY DEF InstantsFollowConversation
<1>1. /\ at \in [Runs -> 0..MaxTime] /\ heard \in SUBSET Runs
      /\ before \in [Messages -> SUBSET Runs] /\ message \in [Runs -> 0..MaxMessages]
  BY DEF IInv, TypeOK
<1>2. /\ \/ at'[p] = at[p]
         \/ pc[p] = "invoke" /\ at'[p] = now
      /\ message'[p] = message[p] \/ pc[p] = "none"
  BY RunMoves
<1>3. pc[p] # "none"
  BY <1>2 DEF IInv, InstantsAreTaken, Unanswered
<1>4. message'[p] = message[p] /\ message[p] \in 1..sent
  BY <1>2, <1>3 DEF IInv, RunsAreBegun
<1>5. message[p] \in Messages /\ message[p] # sent + 1
  <2>1. sent \in 0..MaxMessages
    BY DEF IInv, TypeOK
  <2> QED
    BY <1>4, <2>1, RouterAssumption DEF Messages
<1>6. q \in before[message[p]]
  BY <1>1, <1>4, <1>5, HeardMoves
<1>7. q \in heard /\ q \in Runs /\ pc[q] \in {"over", "timed out"}
  BY <1>1, <1>5, <1>6 DEF IInv, HeardIsOver
<1>8. at'[q] = at[q]
  BY <1>7, InstantsStay DEF Unanswered
<1>9. CASE at'[p] = at[p]
  BY <1>6, <1>8, <1>9 DEF IInv, InstantsFollowConversation
<1>10. CASE at'[p] = now
  BY <1>7, <1>8, <1>10 DEF IInv, InstantsAreTaken
<1> QED
  BY <1>2, <1>9, <1>10

\* The item with which an execution saved its question, or its answer.
Saved(p, role) == [at |-> at[p], role |-> role, run |-> p]

\* A put of one execution leaves the items of another, when it has its instant
\* for itself, and its own item of the other role.
LEMMA PutLeaves ==
  ASSUME IInv, NEW p \in Runs, NEW q \in Runs, NEW role \in {User, Assistant},
         NEW other \in {User, Assistant}, pc[q] \in Saving, Saved(p, role) \in table,
         p = q => role # other, p # q => at[q] # at[p]
  PROVE  Saved(p, role) \in With(q, other)
<1>1. Saved(p, role).at = at[p] /\ Saved(p, role).role = role
  BY DEF Saved
<1>2. \A i \in table : i.at # at[q] \/ i.role # other => i \in With(q, other)
  BY WithIs
<1> QED
  BY <1>1, <1>2

LEMMA SavedStep == IInv /\ Next => SavedIsThere'
<1> SUFFICES ASSUME IInv, Next, NEW p \in Runs
             PROVE  /\ p \in saved' => at'[p] # 0 /\ pc'[p] \in {"send", "over", "timed out"}
                    /\ Alone(p)' =>
                         /\ p \in saved' \/ pc'[p] = "save answer" => Saved(p, User)' \in table'
                         /\ p \in saved' => Saved(p, Assistant)' \in table'
  BY DEF SavedIsThere, Saved
<1>1. pc \in [Runs -> {"none", "admit", "load", "invoke", "save question", "save answer",
                      "send", "over", "timed out"}]
  BY DEF IInv, TypeOK
<1>2. /\ p \in saved => at[p] # 0 /\ pc[p] \in {"send", "over", "timed out"}
      /\ Alone(p) =>
           /\ p \in saved \/ pc[p] = "save answer" => Saved(p, User) \in table
           /\ p \in saved => Saved(p, Assistant) \in table
      /\ pc[p] \in Saving => at[p] # 0
  BY DEF IInv, SavedIsThere, Saved, InstantsAreTaken
<1>3. p \in saved' => p \in saved \/ (pc[p] = "save answer" /\ pc'[p] = "send")
  BY <1>1, TableMoves
<1>4. p \in saved' => at'[p] # 0 /\ pc'[p] \in {"send", "over", "timed out"}
  <2> SUFFICES ASSUME p \in saved'
               PROVE  at'[p] # 0 /\ pc'[p] \in {"send", "over", "timed out"}
    OBVIOUS
  <2>1. at[p] # 0 /\ pc[p] \notin Unanswered /\ pc[p] # "save question"
    BY <1>2, <1>3 DEF Saving, Unanswered
  <2>2. at'[p] = at[p]
    BY <2>1, InstantsStay
  <2>3. pc'[p] \in {"send", "over", "timed out"}
    BY <1>2, <1>3, RunMoves
  <2> QED
    BY <2>1, <2>2, <2>3
<1>5. pc'[p] = "save answer" => pc[p] \in Saving
  BY RunMoves DEF Saving
<1>6. ASSUME Alone(p)', p \in saved' \/ pc'[p] = "save answer"
      PROVE  /\ Saved(p, User)' \in table'
             /\ p \in saved' => Saved(p, Assistant)' \in table'
  <2>1. pc[p] \notin Unanswered /\ at[p] # 0
    BY <1>2, <1>3, <1>5, <1>6 DEF Saving, Unanswered
  <2>2. at'[p] = at[p]
    BY <2>1, InstantsStay
  <2>3. Saved(p, User)' = Saved(p, User) /\ Saved(p, Assistant)' = Saved(p, Assistant)
    BY <2>2 DEF Saved
  <2>4. \A q \in Runs \ {p} : at[q] # at[p]
    <3> SUFFICES ASSUME NEW q \in Runs \ {p} PROVE at[q] # at[p]
      OBVIOUS
    <3>1. at'[q] # at'[p]
      BY <1>6 DEF Alone
    <3>2. at'[q] = at[q] \/ pc[q] = "invoke"
      BY RunMoves
    <3>3. pc[q] = "invoke" => at[q] = 0
      BY DEF IInv, InstantsAreTaken, Unanswered
    <3> QED
      BY <2>1, <2>2, <3>1, <3>2, <3>3
  <2>5. Alone(p)
    BY <2>4 DEF Alone
  <2>6. CASE /\ table' = table /\ saved' = saved
             /\ pc'[p] = "save answer" => pc[p] = "save answer"
    BY <1>2, <1>6, <2>3, <2>5, <2>6
  <2>7. ASSUME NEW q \in Runs, pc[q] = "save question", table' = With(q, User), saved' = saved,
               \E l \in {"save answer", "send"} : pc' = [pc EXCEPT ![q] = l]
        PROVE  /\ Saved(p, User)' \in table'
               /\ p \in saved' => Saved(p, Assistant)' \in table'
    <3>1. pc[q] \in Saving /\ User \in {User, Assistant} /\ Assistant \in {User, Assistant}
      BY <2>7 DEF Saving
    <3>2. CASE q = p
      <4>1. p \notin saved'
        BY <1>2, <2>7, <3>2
      <4>2. Saved(p, User) \in With(p, User)
        BY <3>1, <3>2, WithIs DEF Saved
      <4> QED
        BY <2>3, <2>7, <3>2, <4>1, <4>2
    <3>3. CASE q # p
      <4>1. p \in saved \/ pc[p] = "save answer"
        BY <1>1, <1>6, <2>7, <3>3
      <4>2. Saved(p, User) \in table /\ (p \in saved => Saved(p, Assistant) \in table)
        BY <1>2, <2>5, <4>1
      <4> QED
        BY <2>3, <2>4, <2>7, <3>1, <3>3, <4>2, PutLeaves
    <3> QED
      BY <3>2, <3>3
  <2>8. ASSUME NEW q \in Runs, pc[q] = "save answer", table' = With(q, Assistant),
               saved' \in {saved, saved \union {q}}, pc' = [pc EXCEPT ![q] = "send"]
        PROVE  /\ Saved(p, User)' \in table'
               /\ p \in saved' => Saved(p, Assistant)' \in table'
    <3>0. User # Assistant
      BY DEF User, Assistant
    <3>1. /\ pc[q] \in Saving /\ User \in {User, Assistant} /\ Assistant \in {User, Assistant}
          /\ User # Assistant
      BY <2>8, <3>0 DEF Saving
    <3>2. p \in saved \/ pc[p] = "save answer"
      BY <1>1, <1>3, <1>6, <2>8
    <3>3. Saved(p, User) \in table /\ (p \in saved => Saved(p, Assistant) \in table)
      BY <1>2, <2>5, <3>2
    <3>4. Saved(p, User) \in With(q, Assistant)
      BY <2>4, <3>1, <3>3, PutLeaves
    <3>5. CASE q = p
      <4>1. Saved(p, Assistant) \in With(p, Assistant)
        BY <3>1, <3>5, WithIs DEF Saved
      <4> QED
        BY <2>3, <2>8, <3>4, <3>5, <4>1
    <3>6. CASE q # p
      <4>1. p \in saved' => Saved(p, Assistant) \in With(q, Assistant)
        BY <2>4, <2>8, <3>1, <3>3, <3>6, PutLeaves
      <4> QED
        BY <2>3, <2>8, <3>4, <4>1
    <3> QED
      BY <3>5, <3>6
  <2> QED
    BY <2>6, <2>7, <2>8, TableMoves
<1> QED
  BY <1>4, <1>6

LEMMA IInvStep == IInv /\ [Next]_vars => IInv'
<1> SUFFICES ASSUME IInv, [Next]_vars PROVE IInv'
  OBVIOUS
<1>1. CASE Next
  BY <1>1, TypeStep, RunsAreBegunStep, InstantsAreTakenStep, ItemsStep, HeardStep,
     InstantsFollowStep, SavedStep DEF IInv
<1>2. CASE UNCHANGED vars
  <2> USE <1>2 DEF vars
  <2>1. TypeOK' /\ RunsAreBegun' /\ InstantsAreTaken' /\ HeardIsOver'
    BY DEF IInv, TypeOK, RunsAreBegun, InstantsAreTaken, HeardIsOver
  <2>2. ItemsAreFromRuns' /\ ShownIsSorted' /\ TableIsKeyed'
    BY DEF IInv, ItemsAreFromRuns, FromRun, ShownIsSorted, TableIsKeyed, Keyed
  <2>3. InstantsFollowConversation'
    BY DEF IInv, InstantsFollowConversation
  <2>4. SavedIsThere'
    BY DEF IInv, SavedIsThere, Alone
  <2> QED
    BY <2>1, <2>2, <2>3, <2>4 DEF IInv
<1> QED
  BY <1>1, <1>2

LEMMA IInvHolds == Spec => []IInv
BY IInvInit, IInvStep, PTL DEF Spec

-----------------------------------------------------------------------------
(* Results.                                                                 *)

\* The handler's state and the table are of the declared types: no execution
\* saves a turn without an instant and no answer is given for a message that was
\* not sent (lambda/router/index.py, _save_history and handler).
THEOREM RouterIsTyped == Spec => []TypeOK
<1>1. IInv => TypeOK
  BY DEF IInv
<1> QED
  BY <1>1, IInvHolds, PTL

\* "In chronological order" (_load_history): in no history does what the user
\* knew when sending a message come after that message, however executions
\* overlap, fail and are begun again.
THEOREM HistoryIsChronological == Spec => []HistoryFollowsConversation
<1>1. IInv => HistoryFollowsConversation
  <2> SUFFICES ASSUME IInv, NEW r \in Runs, NEW i \in 1..Len(shown[r]), NEW j \in 1..Len(shown[r]),
                      i < j, at[shown[r][i].run] # at[shown[r][j].run],
                      shown[r][j].run \in before[message[shown[r][i].run]]
               PROVE  FALSE
    BY DEF HistoryFollowsConversation
  <2> DEFINE p == shown[r][i].run
             q == shown[r][j].run
  <2>1. shown[r] \in Seq(Item)
    BY DEF IInv, TypeOK
  <2>2. shown[r][i] \in Item /\ shown[r][j] \in Item
    BY <2>1
  <2>3. p \in Runs /\ q \in Runs /\ shown[r][i].at \in 1..MaxTime
    BY <2>2 DEF Item
  <2>4. shown[r][i].at = at[p] /\ shown[r][j].at = at[q]
    BY DEF IInv, ItemsAreFromRuns, FromRun
  <2>5. at[p] <= at[q]
    BY <2>4 DEF IInv, ShownIsSorted
  <2>6. at[p] # 0 /\ at[p] \in Nat /\ at[q] \in Nat
    <3>1. at[q] \in 0..MaxTime
      BY <2>3 DEF IInv, TypeOK
    <3> QED
      BY <2>3, <2>4, <3>1, RouterAssumption
  <2> HIDE DEF p, q
  <2>7. at[q] <= at[p]
    BY <2>3, <2>6 DEF IInv, InstantsFollowConversation, p, q
  <2>8. at[p] # at[q]
    BY DEF p, q
  <2> QED
    BY <2>5, <2>6, <2>7, <2>8
<1> QED
  BY <1>1, IInvHolds, PTL

-----------------------------------------------------------------------------
(***************************************************************************)
(* What a loaded history shows.                                            *)
(***************************************************************************)

\* A union has at most as many elements as the two sets together.
LEMMA UnionIsBounded ==
  ASSUME NEW S, IsFiniteSet(S), NEW T, IsFiniteSet(T)
  PROVE  /\ IsFiniteSet(S \union T) /\ Cardinality(S \union T) \in Nat
         /\ Cardinality(S) \in Nat /\ Cardinality(T) \in Nat
         /\ Cardinality(S \union T) <= Cardinality(S) + Cardinality(T)
<1>1. IsFiniteSet(S \intersect T)
  BY FS_Subset
<1>2. /\ IsFiniteSet(S \union T)
      /\ Cardinality(S \union T) = Cardinality(S) + Cardinality(T) - Cardinality(S \intersect T)
  BY FS_Union
<1>3. /\ Cardinality(S \intersect T) \in Nat /\ Cardinality(S) \in Nat /\ Cardinality(T) \in Nat
      /\ Cardinality(S \union T) \in Nat
  BY <1>1, <1>2, FS_CardinalityType
<1> QED
  BY <1>2, <1>3

\* An execution has one item of each role at most: newer items of a role are as
\* few as newer executions.
LEMMA NewerItemsAreFew ==
  ASSUME IInv, NEW p \in Runs, NEW role \in {User, Assistant}
  PROVE  LET L == {i \in table : i.at > at[p] /\ i.role = role} IN
         /\ IsFiniteSet(L) /\ Cardinality(L) \in Nat /\ Cardinality(Newer(p)) \in Nat
         /\ Cardinality(L) <= Cardinality(Newer(p))
<1> DEFINE L == {i \in table : i.at > at[p] /\ i.role = role}
           f == [i \in L |-> i.run]
<1>1. IsFiniteSet(Newer(p))
  <2>1. IsFiniteSet(Runs)
    BY FS_Interval, RouterAssumption DEF Runs
  <2> QED
    BY <2>1, FS_Subset DEF Newer
<1>2. /\ table \in SUBSET Item /\ \A i \in table : i.at = at[i.run]
      /\ \A i, j \in table : i.at = j.at /\ i.role = j.role => i = j
  BY DEF IInv, TypeOK, ItemsAreFromRuns, FromRun, TableIsKeyed, Keyed
<1>3. \A i \in L : i.run \in Runs /\ at[i.run] > at[p]
  BY <1>2 DEF Item
<1>4. f \in [L -> Newer(p)]
  BY <1>3 DEF Newer
<1>5. \A i, j \in L : f[i] = f[j] => i = j
  BY <1>2
<1>6. f \in Injection(L, Newer(p))
  BY <1>4, <1>5, Fun_IsInj
<1> HIDE DEF f, L
<1>7. IsFiniteSet(L) /\ Cardinality(L) <= Cardinality(Newer(p))
  BY <1>1, <1>6, FS_Injection
<1> QED
  BY <1>1, <1>7, FS_CardinalityType DEF L

\* Behind the question of an execution with both items come its answer and the
\* items of newer executions.
LEMMA LaterItemsAreFew ==
  ASSUME IInv, NEW p \in Runs, Saved(p, User) \in table, Saved(p, Assistant) \in table,
         Cardinality(Newer(p)) < MaxTurns
  PROVE  LET L == {i \in table : Earlier(Saved(p, User), i)} IN
         IsFiniteSet(L) /\ Cardinality(L) \in Nat /\ Cardinality(L) < 2 * MaxTurns
<1> DEFINE L == {i \in table : Earlier(Saved(p, User), i)}
           A == {Saved(p, Assistant)}
           LU == {i \in table : i.at > at[p] /\ i.role = User}
           LA == {i \in table : i.at > at[p] /\ i.role = Assistant}
<1>1. /\ table \in SUBSET Item
      /\ \A i, j \in table : i.at = j.at /\ i.role = j.role => i = j
  BY DEF IInv, TypeOK, TableIsKeyed, Keyed
<1>2. /\ Saved(p, User).at = at[p] /\ Saved(p, User).role = User
      /\ Saved(p, Assistant).at = at[p] /\ Saved(p, Assistant).role = Assistant
  BY DEF Saved
<1>3. ASSUME NEW i \in L PROVE i \in LU \/ i \in LA \/ i \in A
  <2>1. i.role \in {User, Assistant} /\ i.at \in Int
    BY <1>1, RouterAssumption DEF Item
  <2>2. at[p] < i.at \/ (at[p] = i.at /\ User < i.role)
    BY <1>2 DEF Earlier
  <2>3. CASE at[p] < i.at
    <3>1. i.at > at[p]
      BY <2>3
    <3> QED
      BY <2>1, <3>1
  <2>4. CASE at[p] = i.at /\ User < i.role
    <3>1. i.role = Assistant
      BY <2>1, <2>4 DEF User, Assistant
    <3> QED
      BY <1>1, <1>2, <2>4, <3>1
  <2> QED
    BY <2>2, <2>3, <2>4
<1>4. /\ IsFiniteSet(LU) /\ Cardinality(LU) \in Nat /\ Cardinality(Newer(p)) \in Nat
      /\ Cardinality(LU) <= Cardinality(Newer(p))
      /\ IsFiniteSet(LA) /\ Cardinality(LA) \in Nat
      /\ Cardinality(LA) <= Cardinality(Newer(p))
  BY NewerItemsAreFew
<1>5. IsFiniteSet(A) /\ Cardinality(A) = 1
  BY FS_Singleton
<1> HIDE DEF LU, LA, A
<1>6. L \subseteq (LU \union LA) \union A
  BY <1>3
<1>7. /\ IsFiniteSet(LU \union LA) /\ Cardinality(LU \union LA) \in Nat
      /\ Cardinality(LU \union LA) <= Cardinality(LU) + Cardinality(LA)
  BY <1>4, UnionIsBounded
<1>8. /\ IsFiniteSet((LU \union LA) \union A) /\ Cardinality((LU \union LA) \union A) \in Nat
      /\ Cardinality((LU \union LA) \union A) <= Cardinality(LU \union LA) + Cardinality(A)
  BY <1>5, <1>7, UnionIsBounded
<1> HIDE DEF L
<1>9. /\ IsFiniteSet(L) /\ Cardinality(L) \in Nat
      /\ Cardinality(L) <= Cardinality((LU \union LA) \union A)
  BY <1>6, <1>8, FS_Subset, FS_CardinalityType
<1>10. Cardinality(L) < 2 * MaxTurns
  BY <1>4, <1>5, <1>7, <1>8, <1>9, RouterAssumption
<1> QED
  BY <1>9, <1>10 DEF L

\* The newest items of the table show the turn of an execution that is in it.
LEMMA NewestShows ==
  ASSUME IInv, NEW p \in Runs, Saved(p, User) \in table, Saved(p, Assistant) \in table,
         Cardinality(Newer(p)) < MaxTurns
  PROVE  Shows(Newest(table), p)
<1> DEFINE c == Chronological(table)
           n == Cardinality(table)
           h == Newest(table)
           d == n - Len(h)
           U == Saved(p, User)
           A == Saved(p, Assistant)
           a == Rank(table, U) + 1
           b == Rank(table, A) + 1
           L == {i \in table : Earlier(U, i)}
           E == {i \in table : Earlier(i, U)}
<1>1. table \in SUBSET Item /\ Keyed(table) /\ IsFiniteSet(table)
  BY DEF IInv, TypeOK, TableIsKeyed
<1>2. /\ Len(c) = n /\ n \in Nat
      /\ \A k \in 1..n : c[k] \in table
      /\ \A k, l \in 1..n : k < l => Earlier(c[k], c[l])
      /\ a \in 1..n /\ c[a] = U /\ b \in 1..n /\ c[b] = A
  BY <1>1, ChronologicalIs
<1>3. /\ Len(h) \in Nat /\ d \in Nat /\ (d = 0 \/ Len(h) = 2 * MaxTurns)
      /\ \A k \in 1..Len(h) : h[k] = c[d + k]
  BY <1>1, NewestIs
<1>4. U.at = at[p] /\ U.role = User /\ A.at = at[p] /\ A.role = Assistant
  BY DEF Saved
<1>5. U.at \in Nat /\ A.at = U.at /\ \A i \in table : i.at \in Nat /\ i.role \in {User, Assistant}
  BY <1>1, <1>4, RouterAssumption DEF Item
<1>6. IsFiniteSet(L) /\ Cardinality(L) \in Nat /\ Cardinality(L) < 2 * MaxTurns
  BY LaterItemsAreFew
<1>7. n <= a + Cardinality(L)
  <2>1. table \subseteq (E \union {U}) \union L
    BY <1>1, EarlierIsOrder
  <2>2. IsFiniteSet(E) /\ IsFiniteSet({U}) /\ Cardinality({U}) = 1 /\ Cardinality(E) = a - 1
    <3>1. IsFiniteSet(E) /\ Rank(table, U) \in Int
      BY <1>1, FS_Subset, RankInRange
    <3>2. Cardinality(E) = Rank(table, U)
      BY DEF Rank
    <3>3. Cardinality(E) = a - 1
      <4> HIDE DEF E
      <4> QED
        BY <3>1, <3>2
    <3>4. IsFiniteSet({U}) /\ Cardinality({U}) = 1
      BY FS_Singleton
    <3> HIDE DEF E, U, a
    <3> QED
      BY <3>1, <3>3, <3>4
  <2> HIDE DEF E, L, U
  <2>3. /\ IsFiniteSet(E \union {U}) /\ Cardinality(E \union {U}) \in Nat
        /\ Cardinality(E \union {U}) <= Cardinality(E) + 1 /\ Cardinality(E) \in Nat
    BY <2>2, UnionIsBounded
  <2>4. /\ IsFiniteSet((E \union {U}) \union L) /\ Cardinality((E \union {U}) \union L) \in Nat
        /\ Cardinality((E \union {U}) \union L) <= Cardinality(E \union {U}) + Cardinality(L)
    BY <1>6, <2>3, UnionIsBounded
  <2>5. n <= Cardinality((E \union {U}) \union L)
    BY <2>1, <2>4, FS_Subset
  <2> HIDE DEF a, n
  <2>6. a \in Int /\ n \in Int
    BY <1>2
  <2> QED
    BY <1>6, <2>2, <2>3, <2>4, <2>5, <2>6
<1> HIDE DEF c, n, h, d, U, A, a, b, L, E
<1>8. b = a + 1
  <2>1. Earlier(U, A)
    BY <1>4 DEF Earlier, User, Assistant
  <2>2. a < b
    <3>1. Rank(table, U) < Rank(table, A)
      BY <1>1, <2>1, RankGrows DEF U, A
    <3>2. Rank(table, U) \in Int /\ Rank(table, A) \in Int
      BY <1>1, RankInRange DEF U, A
    <3> QED
      BY <3>1, <3>2 DEF a, b
  <2>3. ASSUME a + 1 < b PROVE FALSE
    <3>1. a + 1 \in 1..n /\ a < a + 1
      BY <1>2, <2>3
    <3> DEFINE x == c[a + 1]
    <3>2. Earlier(U, x) /\ Earlier(x, A) /\ x \in table
      BY <1>2, <2>3, <3>1
    <3> HIDE DEF x
    <3>3. x.at \in Nat /\ x.role \in {User, Assistant}
      BY <1>5, <3>2
    <3> QED
      BY <1>4, <1>5, <3>2, <3>3 DEF Earlier, User, Assistant
  <2> QED
    BY <1>2, <2>2, <2>3
<1>9. a - d \in 1..(Len(h) - 1)
  <2>1. a \in 1..n /\ a + 1 \in 1..n /\ n \in Nat
    BY <1>2, <1>8
  <2>2. n = d + Len(h)
    BY <1>3, <2>1 DEF d
  <2> QED
    BY <1>3, <1>6, <1>7, <2>1, <2>2, RouterAssumption
<1>10. h[a - d] = U /\ h[(a - d) + 1] = A
  <2>1. a - d \in 1..Len(h) /\ (a - d) + 1 \in 1..Len(h)
    BY <1>3, <1>9
  <2>2. d + (a - d) = a /\ d + ((a - d) + 1) = b
    BY <1>2, <1>3, <1>8
  <2> QED
    BY <1>2, <1>3, <2>1, <2>2
<1> QED
  BY <1>9, <1>10 DEF Shows, Saved, U, A, h

\* A query that misses nothing gives the newest items of the table.
LEMMA LoadMoves ==
  ASSUME IInv, Next, NEW r \in Runs, pc[r] = "load", pc'[r] = "invoke", r \notin blind'
  PROVE  shown'[r] = Newest(table)
<1>1. /\ pc \in [Runs -> {"none", "admit", "load", "invoke", "save question", "save answer",
                         "send", "over", "timed out"}]
      /\ shown \in [Runs -> Seq(Item)]
  BY DEF IInv, TypeOK
<1>2. CASE SendMessage \/ Tick
  BY <1>2 DEF SendMessage, Tick
<1>3. ASSUME NEW m \in Messages, Deliver(m) PROVE FALSE
  <2>1. pc' = [pc EXCEPT ![runs + 1] = "admit"]
    BY <1>3 DEF Deliver
  <2> QED
    BY <1>1, <2>1
<1>4. ASSUME NEW p \in Runs, HandlerStep(p) \/ TimeOut(p)
      PROVE  Load(p) /\ p = r
  <2>1. CASE Admit(p) \/ Invoke(p) \/ SaveQuestion(p) \/ SaveAnswer(p) \/ SendReply(p) \/ TimeOut(p)
    <3>1. \E l \in {"load", "save question", "save answer", "send", "over", "timed out"} :
            pc' = [pc EXCEPT ![p] = l]
      BY <2>1 DEF Admit, Invoke, SaveQuestion, SaveAnswer, SendReply, TimeOut, Finish, PutFails
    <3> QED
      BY <1>1, <3>1
  <2>2. CASE Load(p)
    <3>1. \E l \in {"invoke", "over"} : pc' = [pc EXCEPT ![p] = l]
      BY <2>2 DEF Load, Finish
    <3> QED
      BY <1>1, <2>2, <3>1
  <2> QED
    BY <1>4, <2>1, <2>2 DEF HandlerStep
<1>5. CASE Load(r)
  <2>1. \/ \E seen \in SUBSET table :
             /\ shown' = [shown EXCEPT ![r] = Newest(seen)]
             /\ blind' = IF seen = table THEN blind ELSE blind \union {r}
        \/ blind' = blind \union {r}
        \/ pc' = [pc EXCEPT ![r] = "over"]
    BY <1>5 DEF Load, Finish
  <2>2. \E seen \in SUBSET table :
             /\ shown' = [shown EXCEPT ![r] = Newest(seen)]
             /\ blind' = IF seen = table THEN blind ELSE blind \union {r}
    BY <1>1, <2>1
  <2> QED
    BY <1>1, <2>2
<1> QED
  BY <1>2, <1>3, <1>4, <1>5 DEF Next

\* "Persist this turn so future requests have context": whatever turn an
\* execution saved is in the history of every execution that loads one in full,
\* question next to answer, unless its instant was used twice or MaxTurns newer
\* turns take the window - for any number of overlapping, failing and repeated
\* executions.
THEOREM SavedTurnsAreShown == Spec => AnsweredTurnsAreShown
<1>1. IInv /\ [Next]_vars =>
        [\A r \in Runs : pc[r] = "load" /\ pc'[r] = "invoke" /\ r \notin blind' =>
           \A p \in before[message[r]] \intersect saved :
             Alone(p) /\ Cardinality(Newer(p)) < MaxTurns => Shows(shown'[r], p)]_vars
  <2> SUFFICES ASSUME IInv, Next, NEW r \in Runs,
                      pc[r] = "load", pc'[r] = "invoke", r \notin blind',
                      NEW p \in before[message[r]] \intersect saved,
                      Alone(p), Cardinality(Newer(p)) < MaxTurns
               PROVE  Shows(shown'[r], p)
    OBVIOUS
  <2>1. shown'[r] = Newest(table)
    BY LoadMoves
  <2>2. p \in Runs /\ Saved(p, User) \in table /\ Saved(p, Assistant) \in table
    BY DEF IInv, TypeOK, SavedIsThere, Saved
  <2> QED
    BY <2>1, <2>2, NewestShows
<1> QED
  BY <1>1, IInvHolds, PTL DEF Spec, AnsweredTurnsAreShown
=============================================================================
