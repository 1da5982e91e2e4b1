---------------------------- MODULE ServiceProofs ----------------------------
(***************************************************************************)
(* Proofs about the contract server (Contract), for any connections,       *)
(* requests and writes, about the scoped credentials (Credentials) of the  *)
(* process it runs, for any uploads, interval, lifetime and number of      *)
(* bindings, and about the gateway (Gateway), for any chats, number of     *)
(* retries and clock.                                                      *)
(***************************************************************************)
EXTENDS MCLiveness, TLAPS

-----------------------------------------------------------------------------
(* The inductive invariant.                                                 *)

\* An invocation in progress has the connection the server is bound to, until
\* the process exits.
InProgress ==
  /\ runner # Nil => conn \in Callers
  /\ main = "exited" => runner = Nil

\* The flag follows the agent, and the agent the thread.
Loaded ==
  /\ loader \in {"made", "done"} => agent
  /\ ready => loader = "done"

\* "ready" was said because it was so.
PromiseKept ==
  promised => ready /\ runner \notin {"warm-up agent", "starting up", "not ready"}

\* The final save comes last, and holds all there was.
FinalSaveIsLast ==
  sync = "saved" =>
    /\ main \in {"saving", "exited"} /\ saver = {}
    /\ ~lost /\ disk # {} => bucket = disk

ContractIInv ==
  /\ ContractTypeOK /\ InProgress /\ BusyCountsInvocations
  /\ Loaded /\ AgentBehindReady /\ PromiseKept /\ FinalSaveIsLast

-----------------------------------------------------------------------------
(* Facts about the operators.                                               *)

\* Who is asked and what he answers.
LEMMA RunnerFacts ==
  ASSUME NEW k \in Invocations, ready \in BOOLEAN
  PROVE  /\ Runner(k) \in Runners /\ Runner(k) # Nil
         /\ Runner(k) = "full agent" => ready
         /\ Runner(k) = "ready" => ready
         /\ ready => Runner(k) \notin {"warm-up agent", "starting up", "not ready"}
BY DEF Runner, Runners, Invocations, WarmupStatus, Nil

\* Nil is no caller's request and nobody's name.
LEMMA NilFacts ==
  /\ Nil \notin Runners /\ Nil \notin Requests /\ Nil \in Replies
  /\ Runners \subseteq Replies /\ Invocations \subseteq Requests
  /\ {"Healthy", "HealthyBusy", "400", "404", "500"} \subseteq Replies
  /\ "malformed" \in Runners
BY DEF Nil, Runners, Requests, Replies, Invocations, Uncounted

\* An answer keeps the types.
LEMMA AnswerTypes ==
  ASSUME ContractTypeOK, NEW c \in Callers, NEW r \in Replies, AnswerOnly(c, r)
  PROVE  /\ reply' \in [Callers -> Replies]
         /\ request' \in [Callers -> Requests \union {Nil}]
BY NilFacts DEF ContractTypeOK, AnswerOnly

\* A connection that is closed keeps the types.
LEMMA HangupTypes ==
  ASSUME ContractTypeOK, NEW c \in Callers, Hangup(c)
  PROVE  link' \in [Callers -> {"closed", "open", "gone"}] /\ conn' = Nil
BY DEF ContractTypeOK, Hangup

-----------------------------------------------------------------------------
(* Type correctness.                                                        *)

\* The initial states are of the declared types.
LEMMA ContractTypeInit == ContractInit => ContractTypeOK
<1> SUFFICES ASSUME ContractInit PROVE ContractTypeOK
  OBVIOUS
<1>1. sent \in 0..MaxRequests
  BY ContractAssumption DEF ContractInit
<1>2. /\ link \in [Callers -> {"closed", "open", "gone"}]
      /\ request \in [Callers -> Requests \union {Nil}]
      /\ reply \in [Callers -> Replies]
  BY NilFacts DEF ContractInit
<1> QED
  BY <1>1, <1>2 DEF ContractInit, ContractTypeOK

\* Start-up keeps the types.
LEMMA StartupTypes ==
  ASSUME ContractTypeOK, Startup
  PROVE  ContractTypeOK'
<1>1. CASE Restore
  BY <1>1 DEF Restore, ContractTypeOK, loadVars, callVars
<1>2. CASE NoPersistence
  BY <1>2 DEF NoPersistence, ContractTypeOK, syncVars, loadVars, callVars
<1>3. CASE StartPeriodicSave
  BY <1>3 DEF StartPeriodicSave, ContractTypeOK, loadVars, callVars
<1>4. CASE PublishSync
  BY <1>4 DEF PublishSync, ContractTypeOK, loadVars, callVars
<1>5. CASE InitLightweight
  BY <1>5 DEF InitLightweight, ContractTypeOK, syncVars, callVars
<1>6. CASE StartServer
  BY <1>6 DEF StartServer, EnsureFullAgentStarted, ContractTypeOK, syncVars, callVars
<1> QED
  BY <1>1, <1>2, <1>3, <1>4, <1>5, <1>6 DEF Startup

\* The loader keeps the types.
LEMMA LoadTypes ==
  ASSUME ContractTypeOK, Load
  PROVE  ContractTypeOK'
BY DEF Load, MakeAgent, AnnounceAgent, LoadFails, ContractTypeOK, syncVars, callVars

\* The single thread keeps the types, as long as it counts invocations.
LEMMA ServeTypes ==
  ASSUME ContractTypeOK, InProgress, BusyCountsInvocations, Serve
  PROVE  ContractTypeOK'
<1> USE DEF syncVars, loadVars
<1>1. CASE EndOfConnection
  <2>1. conn \in Callers
    BY <1>1 DEF EndOfConnection, ContractTypeOK
  <2>2. link' \in [Callers -> {"closed", "open", "gone"}] /\ conn' = Nil
    BY <1>1, <2>1, HangupTypes DEF EndOfConnection
  <2> QED
    BY <1>1, <2>2 DEF EndOfConnection, ContractTypeOK
<1>2. CASE ServeUncounted
  <2>1. conn \in Callers
    BY <1>2 DEF ServeUncounted, ContractTypeOK
  <2>2. PICK r \in Replies : AnswerOnly(conn, r)
    BY <1>2, NilFacts DEF ServeUncounted, PingStatus
  <2>3. /\ reply' \in [Callers -> Replies]
        /\ request' \in [Callers -> Requests \union {Nil}]
    BY <2>1, <2>2, AnswerTypes
  <2>4. Hangup(conn) \/ UNCHANGED <<link, conn>>
    BY <1>2 DEF ServeUncounted
  <2>5. link' \in [Callers -> {"closed", "open", "gone"}] /\ conn' \in Callers \union {Nil}
    BY <2>1, <2>4, HangupTypes DEF ContractTypeOK
  <2> QED
    BY <1>2, <2>3, <2>5 DEF ServeUncounted, ContractTypeOK
<1>3. CASE Begin
  <2>1. runner' \in Runners
    BY <1>3, RunnerFacts DEF Begin, ContractTypeOK
  <2>2. loader' \in {"none", "loading", "made", "done", "failed"}
    BY <1>3 DEF Begin, EnsureFullAgentStarted, ContractTypeOK
  <2>3. promised' \in BOOLEAN /\ busy' \in Nat
    BY <1>3 DEF Begin, ContractTypeOK
  <2> QED
    BY <1>3, <2>1, <2>2, <2>3 DEF Begin, ContractTypeOK
<1>4. CASE Finish
  <2>1. conn \in Callers /\ runner \in Runners /\ busy = 1
    BY <1>4 DEF Finish, ContractTypeOK, InProgress, BusyCountsInvocations
  <2>2. PICK r \in Replies : AnswerOnly(conn, r)
    BY <1>4, <2>1, NilFacts DEF Finish
  <2>3. /\ reply' \in [Callers -> Replies]
        /\ request' \in [Callers -> Requests \union {Nil}]
    BY <2>1, <2>2, AnswerTypes
  <2>4. Hangup(conn) \/ UNCHANGED <<link, conn>>
    BY <1>4 DEF Finish
  <2>5. link' \in [Callers -> {"closed", "open", "gone"}] /\ conn' \in Callers \union {Nil}
    BY <2>1, <2>4, HangupTypes DEF ContractTypeOK
  <2>6. busy' \in Nat /\ runner' = Nil
    BY <1>4, <2>1 DEF Finish, CountDown
  <2> QED
    BY <1>4, <2>3, <2>5, <2>6 DEF Finish, ContractTypeOK
<1>5. ASSUME NEW c \in Callers, Accept(c) PROVE ContractTypeOK'
  BY <1>5 DEF Accept, ContractTypeOK
<1> QED
  BY <1>1, <1>2, <1>3, <1>4, <1>5 DEF Serve

\* Callers, the periodic save, the agent's writes and the handler keep the types.
LEMMA OtherTypes ==
  ASSUME ContractTypeOK, BusyCountsInvocations,
         \/ AgentWrites \/ PeriodicSaveBegins \/ PeriodicSaveEnds \/ Sigterm \/ Shutdown
         \/ \E c \in Callers : Send(c) \/ Leave(c)
  PROVE  ContractTypeOK'
<1>1. CASE AgentWrites
  BY <1>1 DEF AgentWrites, ContractTypeOK, loadVars, callVars
<1>2. CASE PeriodicSaveBegins
  BY <1>2 DEF PeriodicSaveBegins, ContractTypeOK, loadVars, callVars
<1>3. CASE PeriodicSaveEnds
  BY <1>3 DEF PeriodicSaveEnds, ContractTypeOK, loadVars, callVars
<1>4. CASE Sigterm
  BY <1>4 DEF Sigterm, ContractTypeOK, syncVars, loadVars, callVars
<1>5. CASE FinalSave
  BY <1>5 DEF FinalSave, ContractTypeOK, loadVars, callVars
<1>6. CASE Exit
  <2>1. busy' \in Nat
    BY <1>6 DEF Exit, BusyCountsInvocations, ContractTypeOK
  <2> QED
    BY <1>6, <2>1 DEF Exit, ContractTypeOK, syncVars, loadVars
<1>7. ASSUME NEW c \in Callers, Send(c) PROVE ContractTypeOK'
  <2>1. sent' \in 0..MaxRequests
    BY <1>7, ContractAssumption DEF Send, ContractTypeOK
  <2>2. /\ link' \in [Callers -> {"closed", "open", "gone"}]
        /\ reply' \in [Callers -> Replies]
        /\ request' \in [Callers -> Requests \union {Nil}]
    BY <1>7, NilFacts DEF Send, ContractTypeOK
  <2> QED
    BY <1>7, <2>1, <2>2 DEF Send, ContractTypeOK, syncVars, loadVars
<1>8. ASSUME NEW c \in Callers, Leave(c) PROVE ContractTypeOK'
  BY <1>8 DEF Leave, ContractTypeOK, syncVars, loadVars
<1> QED
  BY <1>1, <1>2, <1>3, <1>4, <1>5, <1>6, <1>7, <1>8 DEF Shutdown

\* Every step keeps the types.
LEMMA ContractTypeStep ==
  ASSUME ContractIInv, [ContractNext]_contractVars
  PROVE  ContractTypeOK'
<1> USE DEF ContractIInv
<1>1. CASE Startup
  BY <1>1, StartupTypes
<1>2. CASE Load
  BY <1>2, LoadTypes
<1>3. CASE Serve
  BY <1>3, ServeTypes
<1>4. CASE \/ AgentWrites \/ PeriodicSaveBegins \/ PeriodicSaveEnds \/ Sigterm \/ Shutdown
           \/ \E c \in Callers : Send(c) \/ Leave(c)
  BY <1>4, OtherTypes
<1>5. CASE UNCHANGED contractVars
  BY <1>5 DEF ContractTypeOK, contractVars, syncVars, loadVars, callVars
<1> QED
  BY <1>1, <1>2, <1>3, <1>4, <1>5 DEF ContractNext

-----------------------------------------------------------------------------
(* The other parts of the invariant.                                        *)

\* What a step does to the invocation in progress: it begins one, ends one, or
\* leaves it, its count and what is promised alone.
LEMMA InvocationStep ==
  ASSUME ContractIInv, [ContractNext]_contractVars
  PROVE  \/ Begin \/ Finish \/ Exit
         \/ /\ UNCHANGED <<runner, busy, promised>>
            /\ main' = "exited" => main = "exited"
            /\ runner # Nil => conn' \in Callers
<1> USE DEF contractVars, syncVars, loadVars, callVars
<1>0. runner # Nil => conn \in Callers
  BY DEF ContractIInv, InProgress
<1>1. CASE Startup
  BY <1>0, <1>1 DEF Startup, Restore, NoPersistence, StartPeriodicSave, PublishSync,
              InitLightweight, StartServer
<1>2. CASE Load
  BY <1>0, <1>2 DEF Load
<1>3. CASE EndOfConnection
  BY <1>0, <1>3 DEF EndOfConnection
<1>4. CASE ServeUncounted
  BY <1>0, <1>4 DEF ServeUncounted
<1>5. CASE \E c \in Callers : Accept(c)
  BY <1>5 DEF Accept
<1>6. CASE AgentWrites \/ PeriodicSaveBegins \/ PeriodicSaveEnds \/ Sigterm \/ FinalSave
  BY <1>0, <1>6 DEF AgentWrites, PeriodicSaveBegins, PeriodicSaveEnds, Sigterm, FinalSave
<1>7. CASE \E c \in Callers : Send(c) \/ Leave(c)
  BY <1>0, <1>7 DEF Send, Leave
<1>8. CASE UNCHANGED contractVars
  BY <1>0, <1>8
<1> QED
  BY <1>1, <1>2, <1>3, <1>4, <1>5, <1>6, <1>7, <1>8 DEF ContractNext, Serve, Shutdown

\* The count, and the connection of the invocation.
LEMMA CountStep ==
  ASSUME ContractIInv, [ContractNext]_contractVars
  PROVE  BusyCountsInvocations' /\ InProgress'
<1> USE DEF ContractIInv
<1>1. CASE Begin
  <2>1. runner = Nil /\ busy = 0 /\ conn \in Callers
    BY <1>1 DEF Begin, BusyCountsInvocations, ContractTypeOK
  <2>2. runner' # Nil
    BY <1>1, RunnerFacts DEF Begin, ContractTypeOK
  <2> QED
    BY <1>1, <2>1, <2>2 DEF Begin, BusyCountsInvocations, InProgress
<1>2. CASE Finish
  BY <1>2 DEF Finish, CountDown, BusyCountsInvocations, InProgress
<1>3. CASE Exit
  BY <1>3 DEF Exit, BusyCountsInvocations, InProgress
<1>4. CASE /\ UNCHANGED <<runner, busy, promised>>
           /\ main' = "exited" => main = "exited"
           /\ runner # Nil => conn' \in Callers
  BY <1>4 DEF BusyCountsInvocations, InProgress
<1> QED
  BY <1>1, <1>2, <1>3, <1>4, InvocationStep

\* The loader alone changes what it makes.
LEMMA LoaderStep ==
  ASSUME ContractIInv, [ContractNext]_contractVars
  PROVE  /\ Loaded' /\ (agent => agent') /\ (ready => ready')
<1> USE DEF ContractIInv, Loaded, contractVars, syncVars, callVars
<1>1. CASE Load
  BY <1>1 DEF Load, MakeAgent, AnnounceAgent, LoadFails
<1>2. CASE StartServer \/ Begin
  BY <1>2 DEF StartServer, Begin, EnsureFullAgentStarted
<1>3. CASE ~Load /\ ~StartServer /\ ~Begin
  <2>1. UNCHANGED <<loader, agent, ready>>
    BY <1>3 DEF loadVars, ContractNext, Startup, Restore, NoPersistence, StartPeriodicSave,
                PublishSync, InitLightweight, Serve, EndOfConnection, ServeUncounted, Finish,
                Accept, AgentWrites, Send, Leave, PeriodicSaveBegins, PeriodicSaveEnds,
                Sigterm, Shutdown, FinalSave, Exit
  <2> QED
    BY <2>1
<1> QED
  BY <1>1, <1>2, <1>3

\* Who answers was fit to answer, and what was promised is kept.
LEMMA RunnerStep ==
  ASSUME ContractIInv, [ContractNext]_contractVars
  PROVE  AgentBehindReady' /\ PromiseKept'
<1> USE DEF ContractIInv
<1>1. ready \in BOOLEAN /\ (ready => agent) /\ (agent => agent') /\ (ready => ready')
  BY LoaderStep DEF Loaded, ContractTypeOK
<1>2. CASE Begin
  <2>1. PICK k \in Invocations : runner' = Runner(k)
    BY <1>2 DEF Begin
  <2>2. /\ runner' = "full agent" => ready
        /\ runner' = "ready" => ready
        /\ ready => runner' \notin {"warm-up agent", "starting up", "not ready"}
    BY <1>1, <2>1, RunnerFacts
  <2>3. AgentBehindReady'
    BY <1>1, <2>2 DEF AgentBehindReady
  <2>4. promised' = (promised \/ runner' = "ready")
    BY <1>2 DEF Begin
  <2> QED
    BY <1>1, <2>2, <2>3, <2>4 DEF PromiseKept
<1>3. CASE Finish \/ Exit
  <2>1. runner' = Nil /\ promised' = promised
    BY <1>3 DEF Finish, Exit
  <2> QED
    BY <1>1, <2>1 DEF AgentBehindReady, PromiseKept, Nil
<1>4. CASE UNCHANGED <<runner, busy, promised>>
  BY <1>1, <1>4 DEF AgentBehindReady, PromiseKept
<1> QED
  BY <1>2, <1>3, <1>4, InvocationStep

\* Nothing is saved or written after the final save.
LEMMA FinalSaveStep ==
  ASSUME ContractIInv, [ContractNext]_contractVars
  PROVE  FinalSaveIsLast'
<1> USE DEF ContractIInv, FinalSaveIsLast
<1>1. CASE Startup
  BY <1>1 DEF Startup, Restore, NoPersistence, StartPeriodicSave, PublishSync,
              InitLightweight, StartServer, syncVars, loadVars, callVars
<1>2. CASE Load
  BY <1>2 DEF Load, syncVars
<1>3. CASE Serve
  BY <1>3 DEF Serve, EndOfConnection, ServeUncounted, Begin, Finish, Accept, syncVars
<1>4. CASE AgentWrites
  BY <1>4 DEF AgentWrites
<1>5. CASE \E c \in Callers : Send(c) \/ Leave(c)
  BY <1>5 DEF Send, Leave, syncVars
<1>6. CASE PeriodicSaveBegins \/ PeriodicSaveEnds
  BY <1>6 DEF PeriodicSaveBegins, PeriodicSaveEnds
<1>7. CASE Sigterm
  BY <1>7 DEF Sigterm, syncVars
<1>8. CASE FinalSave
  BY <1>8 DEF FinalSave, SaveLockFree
<1>9. CASE Exit
  BY <1>9 DEF Exit, syncVars
<1>10. CASE UNCHANGED contractVars
  BY <1>10 DEF contractVars, syncVars
<1> QED
  BY <1>1, <1>2, <1>3, <1>4, <1>5, <1>6, <1>7, <1>8, <1>9, <1>10 DEF ContractNext, Shutdown

-----------------------------------------------------------------------------
(* Theorems.                                                                *)

LEMMA ContractBegin == ContractInit => ContractIInv
<1> SUFFICES ASSUME ContractInit PROVE ContractIInv
  OBVIOUS
<1>1. ContractTypeOK
  BY ContractTypeInit
<1>2. InProgress /\ BusyCountsInvocations /\ Loaded /\ AgentBehindReady /\ FinalSaveIsLast
  BY DEF ContractInit, InProgress, BusyCountsInvocations, Loaded, AgentBehindReady,
         FinalSaveIsLast, Nil
<1>3. PromiseKept
  BY DEF ContractInit, PromiseKept
<1> QED
  BY <1>1, <1>2, <1>3 DEF ContractIInv

LEMMA ContractStep == ContractIInv /\ [ContractNext]_contractVars => ContractIInv'
  BY ContractTypeStep, CountStep, LoaderStep, RunnerStep, FinalSaveStep DEF ContractIInv

\* The invariant holds in every state.
LEMMA ContractInvariance == ContractSpec => []ContractIInv
  BY ContractBegin, ContractStep, PTL DEF ContractSpec

\* Type correctness of the contract server (contract.py:33-51).
THEOREM ContractTypeCorrect == ContractSpec => []ContractTypeOK
<1>1. ContractIInv => ContractTypeOK
  BY DEF ContractIInv
<1> QED
  BY <1>1, ContractInvariance, PTL

\* However requests end, the count is of those in progress (contract.py:93-108).
THEOREM BusyCountIsExact == ContractSpec => []BusyCountsInvocations
<1>1. ContractIInv => BusyCountsInvocations
  BY DEF ContractIInv
<1> QED
  BY <1>1, ContractInvariance, PTL

\* No request gets to an agent that is not there (contract.py:201, 264-265).
THEOREM AgentIsThere == ContractSpec => []AgentBehindReady
<1>1. ContractIInv => AgentBehindReady
  BY DEF ContractIInv
<1> QED
  BY <1>1, ContractInvariance, PTL

\* After "ready" nobody gets a lesser answer (contract.py:148).
THEOREM ReadyPromiseKept == ContractSpec => []ReadyIsKept
<1>1. ContractIInv => ReadyIsKept
  BY DEF ContractIInv, PromiseKept, ReadyIsKept
<1> QED
  BY <1>1, ContractInvariance, PTL

\* SIGTERM saves everything there is (contract.py:307-316).
THEOREM SigtermSavesAll == ContractSpec => []SavedAtExit
<1>1. ContractIInv => SavedAtExit
  BY DEF ContractIInv, FinalSaveIsLast, SavedAtExit
<1> QED
  BY <1>1, ContractInvariance, PTL

\* What the server answers about itself is true, in every order of its threads
\* (contract.py:68-76, 93-108, 146-148, 201).
THEOREM ServerIsTruthful == ContractSpec => []ServerTellsTruth
  BY BusyCountIsExact, AgentIsThere, ReadyPromiseKept, PTL DEF ServerTellsTruth
-----------------------------------------------------------------------------
(***************************************************************************)
(* The scoped credentials.                                                 *)
(***************************************************************************)

(* The inductive invariant.                                                 *)

\* A thread that was given up, or that runs, has had its attempt; only the
\* stop ends it; and without a thread nobody has asked for credentials.
Threads ==
  /\ leaked + (IF loop = "none" THEN 0 ELSE 1) <= tries
  /\ loop = "ended" => stopped
  /\ loop = "none" => age = NoneYet

\* As long as refreshes succeed, credentials are no older than the time the
\* thread has been waiting for.
Fresh ==
  loop \in {"waiting", "due"} /\ ~stale /\ ~stopped /\ age # NoneYet =>
    age <= Interval - due

\* An upload's credentials were then as old, at most, when it got them.
FreshWhenTaken ==
  \A u \in Uploads :
    using[u] # NoneYet /\ ~tainted[u] /\ spent[u] < Lifetime =>
      using[u] <= Interval + spent[u]

CredentialsIInv == CredentialsTypeOK /\ Threads /\ Fresh /\ FreshWhenTaken

-----------------------------------------------------------------------------
(* Type correctness.                                                        *)

\* Times stay within their bounds.
LEMMA TimeFacts ==
  /\ Interval \in Nat /\ Lifetime \in Nat /\ NoneYet \in Nat /\ MaxBindings \in Nat
  /\ 0 < Interval /\ Interval < Lifetime /\ NoneYet = Lifetime + 1
  /\ Interval \in 0..Interval /\ 0 \in 0..NoneYet /\ NoneYet \in 0..NoneYet
  /\ 0 \in 0..Lifetime /\ NoneYet # 0 /\ WaitTime = Interval
  /\ \A a \in 0..NoneYet :
       /\ Older(a) \in 0..NoneYet
       /\ Older(a) <= a + 1
       /\ Older(a) = NoneYet <=> a = NoneYet
BY CredentialsAssumption DEF NoneYet, WaitTime, Older

\* The initial state has the invariant.
LEMMA CredentialsBegin == CredentialsInit => CredentialsIInv
<1> SUFFICES ASSUME CredentialsInit PROVE CredentialsIInv
  OBVIOUS
<1>1. /\ tries \in 0..MaxBindings /\ leaked \in 0..MaxBindings
      /\ due \in 0..Interval /\ age \in 0..NoneYet
  BY TimeFacts DEF CredentialsInit
<1>2. /\ using \in [Uploads -> 0..NoneYet] /\ spent \in [Uploads -> 0..Lifetime]
      /\ tainted \in [Uploads -> BOOLEAN]
  BY TimeFacts DEF CredentialsInit
<1>3. CredentialsTypeOK
  BY <1>1, <1>2 DEF CredentialsInit, CredentialsTypeOK
<1>4. Threads /\ Fresh /\ FreshWhenTaken
  BY TimeFacts DEF CredentialsInit, Threads, Fresh, FreshWhenTaken
<1> QED
  BY <1>3, <1>4 DEF CredentialsIInv

\* There are no more threads than attempts.
LEMMA LeakFacts ==
  ASSUME CredentialsIInv, BindingFails
  PROVE  leaked' = leaked + 1 /\ leaked + 1 <= tries /\ leaked' \in 0..MaxBindings
<1>1. leaked + 1 <= tries
  BY DEF CredentialsIInv, Threads, BindingFails
<1>2. tries \in 0..MaxBindings /\ leaked \in 0..MaxBindings /\ leaked' = leaked + 1
  BY DEF CredentialsIInv, CredentialsTypeOK, BindingFails
<1> QED
  BY <1>1, <1>2, CredentialsAssumption

\* Binding the session.
LEMMA BindingStep ==
  ASSUME CredentialsIInv, StartLoop \/ BindingFails \/ Binds
  PROVE  CredentialsIInv'
<1>0. BindingFails => CredentialsTypeOK' /\ Threads'
  <2> SUFFICES ASSUME BindingFails PROVE CredentialsTypeOK' /\ Threads'
    OBVIOUS
  <2>1. leaked' = leaked + 1 /\ leaked + 1 <= tries /\ leaked' \in 0..MaxBindings
    BY LeakFacts
  <2>2. age' = NoneYet /\ age' \in 0..NoneYet /\ loop' = "none"
    BY TimeFacts DEF BindingFails
  <2>3. CredentialsTypeOK'
    BY <2>1, <2>2 DEF BindingFails, CredentialsIInv, CredentialsTypeOK, uploadVars
  <2>4. Threads'
    BY <2>1, <2>2 DEF BindingFails, CredentialsIInv, CredentialsTypeOK, Threads
  <2> QED
    BY <2>3, <2>4
<1> USE TimeFacts DEF CredentialsIInv, CredentialsTypeOK, Threads, bindVars, loopVars, uploadVars
<1>1. CASE StartLoop
  <2>1. CredentialsTypeOK' /\ Threads'
    BY <1>1 DEF StartLoop
  <2>2. Fresh' /\ FreshWhenTaken'
    BY <1>1 DEF StartLoop, Fresh, FreshWhenTaken
  <2> QED
    BY <2>1, <2>2
<1>2. CASE BindingFails
  <2>1. CredentialsTypeOK' /\ Threads'
    BY <1>0, <1>2
  <2>2. Fresh' /\ FreshWhenTaken'
    BY <1>2 DEF BindingFails, Fresh, FreshWhenTaken
  <2> QED
    BY <2>1, <2>2
<1>3. CASE Binds
  BY <1>3 DEF Binds, Fresh, FreshWhenTaken
<1> QED
  BY <1>1, <1>2, <1>3

\* The refresh thread.
LEMMA ThreadStep ==
  ASSUME CredentialsIInv, WaitEnds \/ LoopEnds \/ Refresh \/ RefreshFails
  PROVE  CredentialsIInv'
<1> USE TimeFacts DEF CredentialsIInv, CredentialsTypeOK, Threads, Fresh, FreshWhenTaken,
                      bindVars, uploadVars
<1>1. CASE WaitEnds
  BY <1>1 DEF WaitEnds
<1>2. CASE LoopEnds
  BY <1>2 DEF LoopEnds
<1>3. CASE Refresh
  <2>1. due' \in 0..Interval /\ age' \in 0..NoneYet /\ loop' = "waiting"
    BY <1>3 DEF Refresh, Issue
  <2>2. CredentialsTypeOK'
    BY <1>3, <2>1 DEF Refresh, Issue
  <2>3. Threads' /\ Fresh' /\ FreshWhenTaken'
    BY <1>3 DEF Refresh, Issue
  <2> QED
    BY <2>2, <2>3
<1>4. CASE RefreshFails
  BY <1>4 DEF RefreshFails, AfterFailedRefresh
<1> QED
  BY <1>1, <1>2, <1>3, <1>4

\* Uploads.
LEMMA UploadStep ==
  ASSUME CredentialsIInv, NEW u \in Uploads, Get(u) \/ UploadEnds(u)
  PROVE  CredentialsIInv'
<1> USE TimeFacts DEF CredentialsIInv, bindVars, loopVars
<1>1. CASE Get(u)
  <2>0. age \in 0..NoneYet /\ age' \in 0..NoneYet /\ stale' \in BOOLEAN
    BY <1>1 DEF Get, Issue, CredentialsTypeOK
  <2>1. /\ using' \in [Uploads -> 0..NoneYet]
        /\ using' = [using EXCEPT ![u] = age']
    BY <1>1, <2>0 DEF Get, Issue, CredentialsTypeOK
  <2>2. /\ spent' \in [Uploads -> 0..Lifetime]
        /\ spent' = [spent EXCEPT ![u] = 0]
    BY <1>1 DEF Get, CredentialsTypeOK
  <2>3. stopped \/ (stale /\ age # NoneYet) \in BOOLEAN
    BY DEF CredentialsTypeOK
  <2>4. /\ tainted' \in [Uploads -> BOOLEAN]
        /\ tainted' = [tainted EXCEPT ![u] = stopped \/ (stale /\ age # NoneYet)]
    BY <1>1 DEF Get, CredentialsTypeOK
  <2>5. CredentialsTypeOK'
    BY <1>1, <2>0, <2>1, <2>2, <2>4 DEF Get, CredentialsTypeOK
  <2>6. Threads'
    BY <1>1, <2>0 DEF Get, Issue, Threads
  <2>7. Fresh'
    BY <1>1 DEF Get, Issue, Fresh, CredentialsTypeOK
  <2>8. ~stopped /\ ~(stale /\ age # NoneYet) => age' <= Interval
    BY <1>1 DEF Get, Issue, Fresh, Threads, CredentialsTypeOK
  <2>9. FreshWhenTaken'
    <3> SUFFICES ASSUME NEW w \in Uploads,
                        using'[w] # NoneYet, ~tainted'[w], spent'[w] < Lifetime
                 PROVE  using'[w] <= Interval + spent'[w]
      BY DEF FreshWhenTaken
    <3>1. CASE w = u
      <4>1. ~stopped /\ ~(stale /\ age # NoneYet)
        BY <3>1, <2>4 DEF CredentialsTypeOK
      <4>2. using'[w] = age' /\ spent'[w] = 0
        BY <3>1, <2>1, <2>2 DEF CredentialsTypeOK
      <4> QED
        BY <4>1, <4>2, <2>0, <2>8
    <3>2. CASE w # u
      <4>1. using'[w] = using[w] /\ spent'[w] = spent[w] /\ tainted'[w] = tainted[w]
        BY <3>2, <2>1, <2>2, <2>4 DEF CredentialsTypeOK
      <4> QED
        BY <4>1 DEF FreshWhenTaken
    <3> QED
      BY <3>1, <3>2
  <2> QED
    BY <2>5, <2>6, <2>7, <2>9
<1>2. CASE UploadEnds(u)
  <2>1. CredentialsTypeOK'
    BY <1>2 DEF UploadEnds, CredentialsTypeOK
  <2>2. Threads' /\ Fresh'
    BY <1>2 DEF UploadEnds, Threads, Fresh
  <2>3. FreshWhenTaken'
    BY <1>2 DEF UploadEnds, FreshWhenTaken, CredentialsTypeOK
  <2> QED
    BY <2>1, <2>2, <2>3
<1> QED
  BY <1>1, <1>2

\* Time.
LEMMA TickStep ==
  ASSUME CredentialsIInv, Tick
  PROVE  CredentialsIInv'
<1> USE TimeFacts DEF CredentialsIInv, bindVars
<1>1. /\ due' \in 0..Interval /\ age' \in 0..NoneYet /\ age \in 0..NoneYet
      /\ due \in 0..Interval /\ age' = Older(age)
  BY DEF Tick, CredentialsTypeOK
<1>2. \A u \in Uploads : using[u] \in 0..NoneYet /\ spent[u] \in 0..Lifetime
  BY DEF CredentialsTypeOK
<1>3. \A u \in Uploads : using'[u] = Older(using[u])
  BY DEF Tick
<1>4. \A u \in Uploads :
        spent'[u] = IF using[u] # NoneYet /\ spent[u] < Lifetime THEN spent[u] + 1 ELSE spent[u]
  BY DEF Tick
<1>5. using' \in [Uploads -> 0..NoneYet]
  BY <1>2 DEF Tick
<1>6. spent' \in [Uploads -> 0..Lifetime]
  BY <1>2 DEF Tick
<1>7. CredentialsTypeOK'
  BY <1>1, <1>5, <1>6 DEF Tick, CredentialsTypeOK
<1>8. Threads'
  BY <1>1 DEF Tick, Threads
<1>9. Fresh'
  <2> SUFFICES ASSUME loop' \in {"waiting", "due"}, ~stale', ~stopped', age' # NoneYet
               PROVE  age' <= Interval - due'
    BY DEF Fresh
  <2>1. loop = "waiting" /\ due > 0 /\ due' = due - 1 /\ ~stale /\ ~stopped
    BY <1>1 DEF Tick
  <2>2. age # NoneYet
    BY <1>1
  <2>3. age <= Interval - due
    BY <2>1, <2>2 DEF Fresh
  <2> QED
    BY <2>1, <2>3, <1>1
<1>10. FreshWhenTaken'
  <2> SUFFICES ASSUME NEW u \in Uploads,
                      using'[u] # NoneYet, ~tainted'[u], spent'[u] < Lifetime
               PROVE  using'[u] <= Interval + spent'[u]
    BY DEF FreshWhenTaken
  <2>1. using[u] # NoneYet /\ ~tainted[u]
    BY <1>2, <1>3 DEF Tick
  <2>2. spent[u] < Lifetime /\ spent'[u] = spent[u] + 1
    BY <1>2, <1>4, <2>1
  <2>3. using[u] <= Interval + spent[u]
    BY <2>1, <2>2 DEF FreshWhenTaken
  <2> QED
    BY <1>2, <1>3, <2>2, <2>3
<1> QED
  BY <1>7, <1>8, <1>9, <1>10

\* Every step keeps the invariant.
LEMMA CredentialsStep ==
  ASSUME CredentialsIInv, [CredentialsNext]_credentialVars
  PROVE  CredentialsIInv'
<1> USE DEF CredentialsIInv, CredentialsTypeOK, Threads, Fresh, FreshWhenTaken
<1>1. CASE StartLoop \/ BindingFails \/ Binds
  BY <1>1, BindingStep
<1>2. CASE WaitEnds \/ LoopEnds \/ Refresh \/ RefreshFails
  BY <1>2, ThreadStep
<1>3. CASE \E u \in Uploads : Get(u) \/ UploadEnds(u)
  BY <1>3, UploadStep
<1>4. CASE Stop
  BY <1>4 DEF Stop, bindVars, uploadVars
<1>5. CASE Outage
  BY <1>5 DEF Outage, bindVars, loopVars, uploadVars
<1>6. CASE Tick
  BY <1>6, TickStep
<1>7. CASE UNCHANGED credentialVars
  BY <1>7 DEF credentialVars, bindVars, loopVars, uploadVars
<1> QED
  BY <1>1, <1>2, <1>3, <1>4, <1>5, <1>6, <1>7 DEF CredentialsNext

-----------------------------------------------------------------------------
(* Theorems.                                                                *)

\* The invariant holds in every state.
LEMMA CredentialsInvariance == CredentialsSpec => []CredentialsIInv
<1>1. CredentialsIInv /\ [CredentialsNext]_credentialVars => CredentialsIInv'
  BY CredentialsStep
<1> QED
  BY CredentialsBegin, <1>1, PTL DEF CredentialsSpec

\* Type correctness of the scoped credentials (scoped_credentials.py:23-37).
THEOREM CredentialsTypeCorrect == CredentialsSpec => []CredentialsTypeOK
<1>1. CredentialsIInv => CredentialsTypeOK
  BY DEF CredentialsIInv
<1> QED
  BY <1>1, CredentialsInvariance, PTL

LEMMA TimeIsLeft == CredentialsIInv => UploadsOutliveTheirKeys
<1> SUFFICES ASSUME CredentialsIInv, NEW u \in Uploads,
                    using[u] = Lifetime, spent[u] < Lifetime - Interval
             PROVE  tainted[u]
  BY DEF UploadsOutliveTheirKeys
<1>1. spent[u] \in 0..Lifetime /\ tainted[u] \in BOOLEAN
  BY DEF CredentialsIInv, CredentialsTypeOK
<1>2. spent[u] < Lifetime /\ using[u] # NoneYet /\ ~(using[u] <= Interval + spent[u])
  BY <1>1, TimeFacts
<1> QED
  BY <1>1, <1>2 DEF CredentialsIInv, FreshWhenTaken

\* With any interval shorter than the lifetime, an upload has the difference of
\* the two before its credentials can expire (scoped_credentials.py:21, 84).
THEOREM UploadsHaveTime == CredentialsSpec => []UploadsOutliveTheirKeys
  BY TimeIsLeft, CredentialsInvariance, PTL
-----------------------------------------------------------------------------
(* The gateway: its inductive invariants.                                   *)

\* The run that the current attempt started, if any.
Own(c) == IF mine[c] = "no" THEN 0 ELSE 1

\* Runs are those of attempts that were given up and that of the current one,
\* or of the one that was answered; every attempt was given up once at most.
Tally(c) ==
  /\ mine[c] # "no" => stage[c] = "calling"
  /\ stage[c] = "backoff" => attempt[c] < MaxRetries
  /\ carried[c] + running[c] <= severed[c] + Own(c) + 1
  /\ stage[c] \in {"new", "calling", "backoff"} => carried[c] + running[c] <= severed[c] + Own(c)
  /\ severed[c] <= attempt[c] + 1
  /\ stage[c] \in {"new", "calling"} => severed[c] <= attempt[c]

CallIInv == GatewayTypeOK /\ \A c \in Chats : Tally(c)

\* The reply of c was written to its file, if it ever is.
PastReply == {"file", "uploading", "text", "done"}
Written(c) == stage[c] \in PastReply

\* A file that is there was written by a chat under its own name, and is still
\* being sent; what was read of it and sent was written in the same second.
FileIInv ==
  /\ GatewayTypeOK
  /\ \A c \in Chats : named[c] = wrote[c]
  /\ NoFileLeft
  /\ \A s \in Seconds : files[s] # Nowhere => Written(files[s]) /\ wrote[files[s]] = s
  /\ \A c \in Chats : attached[c] # Nowhere =>
       Written(c) /\ Written(attached[c]) /\ wrote[attached[c]] = wrote[c]
  /\ \A c \in Chats : received[c] # Nowhere =>
       Written(c) /\ Written(received[c]) /\ wrote[received[c]] = wrote[c]

-----------------------------------------------------------------------------
(* What steps do.                                                           *)

\* A message moves, and no other one.
LEMMA MoveFacts ==
  ASSUME stage \in [Chats -> Stages], NEW c \in Chats, NEW from, NEW to \in Stages,
         Move(c, from, to)
  PROVE  /\ stage' \in [Chats -> Stages] /\ stage[c] = from /\ stage'[c] = to
         /\ \A d \in Chats \ {c} : stage'[d] = stage[d]
BY DEF Move

\* A step of the proxy, or of AgentCore for it.
CallStep(c) == Call(c) \/ Reach(c) \/ RunEnds(c) \/ Proxy(c)

\* Such a step concerns one chat and no file.
LEMMA CallFrame ==
  ASSUME GatewayTypeOK, NEW c \in Chats, CallStep(c)
  PROVE  /\ UNCHANGED <<now, fileVars>>
         /\ stage' \in [Chats -> Stages]
         /\ stage' # stage =>
              stage[c] \in {"new", "calling", "backoff"} /\ stage'[c] \in {"calling", "backoff", "replied"}
         /\ \A d \in Chats \ {c} : stage'[d] = stage[d]
<1> USE DEF GatewayTypeOK
<1>0. {"calling", "backoff", "replied"} \subseteq Stages
  BY DEF Stages
<1>1. CASE Call(c)
  BY <1>0, <1>1, MoveFacts DEF Call
<1>2. CASE Reach(c) \/ RunEnds(c)
  BY <1>2 DEF Reach, RunEnds
<1>3. CASE Wake(c)
  BY <1>0, <1>3, MoveFacts DEF Wake
<1>4. CASE Answered(c) \/ ColdStartError(c) \/ Throttled(c) \/ FailedCall(c)
  <2>1. PICK to \in {"backoff", "replied"} : Move(c, "calling", to)
    BY <1>4 DEF Answered, ColdStartError, Throttled, FailedCall, Return, SleepAndRetry
  <2>2. UNCHANGED <<now, fileVars>>
    BY <1>4 DEF Answered, ColdStartError, Throttled, FailedCall
  <2> QED
    BY <1>0, <2>1, <2>2, MoveFacts
<1> QED
  BY <1>1, <1>2, <1>3, <1>4 DEF CallStep, Proxy

\* A step of the delivery concerns one chat and no call.
LEMMA DeliveryFrame ==
  ASSUME GatewayTypeOK, NEW c \in Chats, Delivery(c)
  PROVE  /\ UNCHANGED <<now, invokeVars>>
         /\ stage' \in [Chats -> Stages]
         /\ stage[c] \in {"replied", "file", "uploading", "text"}
         /\ stage'[c] \in {"file", "uploading", "text", "done"}
         /\ \A d \in Chats \ {c} : stage'[d] = stage[d]
<1>1. PICK from \in {"replied", "file", "uploading", "text"},
           to \in {"file", "uploading", "text", "done"} : Move(c, from, to)
  BY DEF Delivery, SendShort, WriteFile, WriteFails, ReadFile, SendFile, SendText
<1>2. UNCHANGED <<now, invokeVars>>
  BY DEF Delivery, SendShort, WriteFile, WriteFails, ReadFile, SendFile, SendText
<1>3. to \in Stages
  BY DEF Stages
<1> QED
  BY <1>1, <1>2, <1>3, MoveFacts DEF GatewayTypeOK

\* What a step of the delivery leaves in the files and with the chats.
LEMMA DeliveryTypes ==
  ASSUME GatewayTypeOK, NEW c \in Chats, Delivery(c)
  PROVE  /\ named' \in [Chats -> Seconds] /\ wrote' \in [Chats -> Seconds]
         /\ files' \in [Seconds -> Chats \union {Nowhere}] /\ leftover' \subseteq Seconds
         /\ attached' \in [Chats -> Chats \union {Nowhere}]
         /\ received' \in [Chats -> Chats \union {Nowhere}]
<1>1. /\ named \in [Chats -> Seconds] /\ wrote \in [Chats -> Seconds] /\ now \in Seconds
      /\ files \in [Seconds -> Chats \union {Nowhere}] /\ leftover \subseteq Seconds
      /\ attached \in [Chats -> Chats \union {Nowhere}]
      /\ received \in [Chats -> Chats \union {Nowhere}]
  BY DEF GatewayTypeOK
<1>2. CASE SendShort(c)
  BY <1>1, <1>2 DEF SendShort, fileVars
<1>3. CASE WriteFile(c) \/ WriteFails(c)
  BY <1>1, <1>3 DEF WriteFile, WriteFails, Overwrite, FileName
<1>4. CASE ReadFile(c)
  BY <1>1, <1>4 DEF ReadFile
<1>5. CASE SendFile(c)
  <2>1. named' = named /\ wrote' = wrote /\ attached' = attached
    BY <1>5 DEF SendFile
  <2>2. /\ files' = files \/ files' = [files EXCEPT ![named[c]] = Nowhere]
        /\ leftover' \subseteq leftover \union {named[c]}
    BY <1>5 DEF SendFile, Unlink, Remove
  <2>3. received' = received \/ received' = [received EXCEPT ![c] = attached[c]]
    BY <1>5 DEF SendFile
  <2> QED
    BY <1>1, <2>1, <2>2, <2>3
<1>6. CASE SendText(c)
  BY <1>1, <1>6 DEF SendText
<1> QED
  BY <1>2, <1>3, <1>4, <1>5, <1>6 DEF Delivery

-----------------------------------------------------------------------------
(* Calls.                                                                   *)

\* What a step of the proxy does to the counts of its chat.
LEMMA CountFacts ==
  ASSUME CallIInv, NEW c \in Chats, CallStep(c)
  PROVE  /\ attempt' \in [Chats -> 0..MaxRetries]
         /\ running' \in [Chats -> Nat] /\ carried' \in [Chats -> Nat]
         /\ mine' \in [Chats -> {"no", "runs", "ended"}]
         /\ severed' \in [Chats -> Nat] /\ text' \in [Chats -> Texts]
         /\ \A d \in Chats \ {c} :
              /\ attempt'[d] = attempt[d] /\ running'[d] = running[d]
              /\ carried'[d] = carried[d] /\ mine'[d] = mine[d] /\ severed'[d] = severed[d]
         /\ Tally(c)'
<1>1. /\ attempt \in [Chats -> 0..MaxRetries] /\ running \in [Chats -> Nat]
      /\ carried \in [Chats -> Nat] /\ mine \in [Chats -> {"no", "runs", "ended"}]
      /\ severed \in [Chats -> Nat] /\ text \in [Chats -> Texts] /\ stage \in [Chats -> Stages]
  BY DEF CallIInv, GatewayTypeOK
<1>2. Tally(c) /\ MaxRetries \in Nat
  BY GatewayAssumption DEF CallIInv
<1>3. {"answer", "partial", "no response", "starting up", "busy", "unexpected"} \subseteq Texts
  BY DEF Texts, Apologies
<1>4. {"calling", "backoff", "replied"} \subseteq Stages
  BY DEF Stages
<1>5. CASE Call(c)
  BY <1>4, <1>1, <1>2, <1>5, MoveFacts DEF Call, invokeVars, Tally, Own
<1>6. CASE Reach(c)
  BY <1>1, <1>2, <1>6 DEF Reach, Tally, Own
<1>7. CASE RunEnds(c)
  BY <1>1, <1>2, <1>7 DEF RunEnds, Tally, Own
<1>8. CASE Wake(c)
  BY <1>4, <1>1, <1>2, <1>8, MoveFacts DEF Wake, Tally, Own
<1>9. CASE Answered(c)
  <2>1. PICK to \in {"backoff", "replied"} :
          Move(c, "calling", to) /\ (to = "backoff" => attempt[c] < MaxRetries)
    BY <1>9 DEF Answered, SleepAndRetry, Return
  <2>2. /\ stage[c] = "calling" /\ stage'[c] = to
        /\ to = "backoff" => attempt[c] < MaxRetries
    BY <1>1, <1>4, <2>1, MoveFacts
  <2>3. attempt' = attempt /\ running' = running /\ carried' = carried
    BY <1>9 DEF Answered, SleepAndRetry, Return
  <2>4. text' \in [Chats -> Texts]
    BY <1>1, <1>3, <1>9 DEF Answered, SleepAndRetry, Return
  <2>5. /\ mine' \in [Chats -> {"no", "runs", "ended"}] /\ severed' = severed
        /\ mine[c] = "ended" /\ mine'[c] = "no" /\ \A d \in Chats \ {c} : mine'[d] = mine[d]
    BY <1>1, <1>9 DEF Answered
  <2>7. to = "replied"
    <3>1. PICK t \in Texts : Return(c, t)
      BY <1>3, <1>9 DEF Answered
    <3> QED
      BY <1>1, <1>4, <3>1, <2>2, MoveFacts DEF Return
  <2>6. Tally(c)'
    BY <1>1, <1>2, <2>2, <2>3, <2>5, <2>7 DEF Tally, Own
  <2> QED
    BY <1>1, <2>3, <2>4, <2>5, <2>6
<1>10. CASE ColdStartError(c)
  <2>1. PICK to \in {"backoff", "replied"} :
          Move(c, "calling", to) /\ (to = "backoff" => attempt[c] < MaxRetries)
    BY <1>10 DEF ColdStartError, SleepAndRetry, Return
  <2>2. /\ stage[c] = "calling" /\ stage'[c] = to
        /\ to = "backoff" => attempt[c] < MaxRetries
    BY <1>1, <1>4, <2>1, MoveFacts
  <2>3. attempt' = attempt /\ running' = running /\ carried' = carried
    BY <1>10 DEF ColdStartError, SleepAndRetry, Return
  <2>4. text' \in [Chats -> Texts]
    BY <1>1, <1>3, <1>10 DEF ColdStartError, SleepAndRetry, Return
  <2>5. /\ mine' \in [Chats -> {"no", "runs", "ended"}] /\ severed' \in [Chats -> Nat]
        /\ mine'[c] = "no"
        /\ severed'[c] = IF mine[c] = "no" THEN severed[c] ELSE severed[c] + 1
        /\ \A d \in Chats \ {c} : mine'[d] = mine[d] /\ severed'[d] = severed[d]
    <3>1. GiveUpAttempt(c)
      BY <1>10 DEF ColdStartError
    <3> QED
      BY <1>1, <3>1 DEF GiveUpAttempt
  <2>6. Tally(c)'
    BY <1>1, <1>2, <2>2, <2>3, <2>5 DEF Tally, Own
  <2> QED
    BY <1>1, <2>3, <2>4, <2>5, <2>6
<1>11. CASE Throttled(c)
  <2>1. PICK to \in {"backoff", "replied"} :
          Move(c, "calling", to) /\ (to = "backoff" => attempt[c] < MaxRetries)
    BY <1>11 DEF Throttled, SleepAndRetry, Return
  <2>2. /\ stage[c] = "calling" /\ stage'[c] = to
        /\ to = "backoff" => attempt[c] < MaxRetries
    BY <1>1, <1>4, <2>1, MoveFacts
  <2>3. attempt' = attempt /\ running' = running /\ carried' = carried
    BY <1>11 DEF Throttled, SleepAndRetry, Return
  <2>4. text' \in [Chats -> Texts]
    BY <1>1, <1>3, <1>11 DEF Throttled, SleepAndRetry, Return
  <2>5. /\ mine' = mine /\ severed' = severed /\ mine[c] = "no"
    BY <1>11 DEF Throttled
  <2>6. Tally(c)'
    BY <1>1, <1>2, <2>2, <2>3, <2>5 DEF Tally, Own
  <2> QED
    BY <1>1, <2>3, <2>4, <2>5, <2>6
<1>12. CASE FailedCall(c)
  <2>1. PICK to \in {"backoff", "replied"} :
          Move(c, "calling", to) /\ (to = "backoff" => attempt[c] < MaxRetries)
    BY <1>12 DEF FailedCall, SleepAndRetry, Return
  <2>2. /\ stage[c] = "calling" /\ stage'[c] = to
        /\ to = "backoff" => attempt[c] < MaxRetries
    BY <1>1, <1>4, <2>1, MoveFacts
  <2>3. attempt' = attempt /\ running' = running /\ carried' = carried
    BY <1>12 DEF FailedCall, SleepAndRetry, Return
  <2>4. text' \in [Chats -> Texts]
    BY <1>1, <1>3, <1>12 DEF FailedCall, SleepAndRetry, Return
  <2>5. /\ mine' \in [Chats -> {"no", "runs", "ended"}] /\ severed' \in [Chats -> Nat]
        /\ mine'[c] = "no"
        /\ severed'[c] = IF mine[c] = "no" THEN severed[c] ELSE severed[c] + 1
        /\ \A d \in Chats \ {c} : mine'[d] = mine[d] /\ severed'[d] = severed[d]
    BY <1>1, <1>12 DEF FailedCall, GiveUpAttempt
  <2>6. Tally(c)'
    BY <1>1, <1>2, <2>2, <2>3, <2>5 DEF Tally, Own
  <2> QED
    BY <1>1, <2>3, <2>4, <2>5, <2>6
<1> QED
  BY <1>5, <1>6, <1>7, <1>8, <1>9, <1>10, <1>11, <1>12 DEF CallStep, Proxy

\* Every step keeps the types and the counts.
LEMMA CallInvariantStep ==
  ASSUME CallIInv, [GatewayNext]_gatewayVars
  PROVE  CallIInv'
<1> USE DEF CallIInv
<1>1. ASSUME NEW c \in Chats, CallStep(c) PROVE CallIInv'
  <2>1. GatewayTypeOK'
    BY <1>1, CallFrame, CountFacts DEF GatewayTypeOK, fileVars
  <2>2. ASSUME NEW d \in Chats \ {c} PROVE Tally(d)'
    <3>1. Tally(d) /\ stage'[d] = stage[d]
      BY <1>1, <2>2, CallFrame
    <3>2. /\ attempt'[d] = attempt[d] /\ running'[d] = running[d]
          /\ carried'[d] = carried[d] /\ mine'[d] = mine[d] /\ severed'[d] = severed[d]
      BY <1>1, <2>2, CountFacts
    <3> QED
      BY <3>1, <3>2 DEF Tally, Own
  <2>3. Tally(c)'
    BY <1>1, CountFacts
  <2> QED
    BY <2>1, <2>2, <2>3
<1>2. ASSUME NEW c \in Chats, Delivery(c) PROVE CallIInv'
  <2>1. /\ UNCHANGED <<now, invokeVars>> /\ stage' \in [Chats -> Stages]
        /\ stage[c] \in {"replied", "file", "uploading", "text"}
        /\ stage'[c] \in {"file", "uploading", "text", "done"}
        /\ \A d \in Chats \ {c} : stage'[d] = stage[d]
    BY <1>2, DeliveryFrame
  <2>2. /\ named' \in [Chats -> Seconds] /\ wrote' \in [Chats -> Seconds]
        /\ files' \in [Seconds -> Chats \union {Nowhere}] /\ leftover' \subseteq Seconds
        /\ attached' \in [Chats -> Chats \union {Nowhere}]
        /\ received' \in [Chats -> Chats \union {Nowhere}]
    BY <1>2, DeliveryTypes
  <2>6. GatewayTypeOK'
    BY <2>1, <2>2 DEF GatewayTypeOK, invokeVars
  <2>7. ASSUME NEW d \in Chats PROVE Tally(d)'
    <3>1. Tally(d) /\ Tally(c)
      BY <2>7
    <3> QED
      BY <3>1, <2>1 DEF Tally, Own, invokeVars
  <2> QED
    BY <2>6, <2>7
<1>3. CASE Clock
  <2>1. now' \in Seconds
    BY <1>3, GatewayAssumption DEF Clock, GatewayTypeOK, Seconds
  <2> QED
    BY <1>3, <2>1 DEF Clock, GatewayTypeOK, Tally, Own, invokeVars, fileVars
<1>4. CASE UNCHANGED gatewayVars
  BY <1>4 DEF GatewayTypeOK, Tally, Own, gatewayVars, invokeVars, fileVars
<1> QED
  BY <1>1, <1>2, <1>3, <1>4 DEF GatewayNext, CallStep

-----------------------------------------------------------------------------
(* Files.                                                                   *)

\* A chat that is past its reply stays there.
LEMMA WrittenStays ==
  ASSUME GatewayTypeOK, [GatewayNext]_gatewayVars, NEW c \in Chats, Written(c)
  PROVE  Written(c)' /\ wrote'[c] = wrote[c]
<1>1. ASSUME NEW d \in Chats, CallStep(d) PROVE Written(c)' /\ wrote'[c] = wrote[c]
  BY <1>1, CallFrame DEF Written, PastReply, fileVars
<1>2. ASSUME NEW d \in Chats, Delivery(d) PROVE Written(c)' /\ wrote'[c] = wrote[c]
  <2>1. Written(c)'
    BY <1>2, DeliveryFrame DEF Written, PastReply
  <2>2. WriteFile(d) \/ WriteFails(d) => d # c
    BY DEF WriteFile, WriteFails, Move, Written, PastReply
  <2> QED
    BY <1>2, <2>1, <2>2 DEF Delivery, SendShort, WriteFile, WriteFails, Overwrite, ReadFile,
                            SendFile, SendText, GatewayTypeOK, fileVars
<1>3. CASE Clock \/ UNCHANGED gatewayVars
  BY <1>3 DEF Clock, gatewayVars, fileVars, Written, PastReply
<1> QED
  BY <1>1, <1>2, <1>3 DEF GatewayNext, CallStep

\* What the files and the chats hold points to chats.
LEMMA HoldersAreChats ==
  ASSUME GatewayTypeOK
  PROVE  /\ \A s \in Seconds : files[s] # Nowhere => files[s] \in Chats
         /\ \A c \in Chats : attached[c] # Nowhere => attached[c] \in Chats
         /\ \A c \in Chats : received[c] # Nowhere => received[c] \in Chats
BY DEF GatewayTypeOK

\* A step that writes no file, and sends none, keeps what files hold; it may
\* move chats that are not sending a file.
LEMMA FilesUntouched ==
  ASSUME FileIInv, [GatewayNext]_gatewayVars, UNCHANGED fileVars, GatewayTypeOK',
         \A c \in Chats : stage[c] \in {"file", "uploading"} => stage'[c] = stage[c]
  PROVE  FileIInv'
<1>1. named' = named /\ wrote' = wrote /\ files' = files /\ attached' = attached
      /\ received' = received /\ leftover' = leftover
  BY DEF fileVars
<1>2. \A c \in Chats : Written(c) => stage'[c] \in PastReply
  BY WrittenStays DEF FileIInv, Written
<1>3. NoFileLeft'
  BY <1>1 DEF FileIInv, NoFileLeft
<1>4. \A s \in Seconds : files'[s] # Nowhere => stage'[files'[s]] \in PastReply /\ wrote'[files'[s]] = s
  BY <1>1, <1>2, HoldersAreChats DEF FileIInv, Written
<1>5. \A c \in Chats : attached'[c] # Nowhere =>
        stage'[c] \in PastReply /\ stage'[attached'[c]] \in PastReply /\ wrote'[attached'[c]] = wrote'[c]
  BY <1>1, <1>2, HoldersAreChats DEF FileIInv, Written
<1>6. \A c \in Chats : received'[c] # Nowhere =>
        stage'[c] \in PastReply /\ stage'[received'[c]] \in PastReply /\ wrote'[received'[c]] = wrote'[c]
  BY <1>1, <1>2, HoldersAreChats DEF FileIInv, Written
<1> QED
  BY <1>1, <1>3, <1>4, <1>5, <1>6 DEF FileIInv, Written

\* A step of the delivery keeps what the files hold.
LEMMA DeliveryKeepsFiles ==
  ASSUME FileIInv, NEW c \in Chats, Delivery(c), GatewayTypeOK'
  PROVE  FileIInv'
<1>0. GatewayNext /\ GatewayTypeOK
  BY DEF GatewayNext, FileIInv
<1>1. /\ named \in [Chats -> Seconds] /\ wrote \in [Chats -> Seconds] /\ now \in Seconds
      /\ files \in [Seconds -> Chats \union {Nowhere}] /\ leftover \subseteq Seconds
      /\ attached \in [Chats -> Chats \union {Nowhere}]
      /\ received \in [Chats -> Chats \union {Nowhere}]
      /\ stage \in [Chats -> Stages]
  BY <1>0 DEF GatewayTypeOK
<1>2. \A d \in Chats : Written(d) => stage'[d] \in PastReply /\ wrote'[d] = wrote[d]
  BY <1>0, WrittenStays DEF Written
<1>3. /\ \A d \in Chats \ {c} : stage'[d] = stage[d]
      /\ stage'[c] \in {"file", "uploading", "text", "done"}
  BY <1>0, DeliveryFrame
<1>4. stage'[c] \in PastReply
  BY <1>3 DEF Written, PastReply
<1>5. CASE SendShort(c) \/ (WriteFails(c) /\ UNCHANGED <<named, wrote, files, leftover>>)
  <2>1. stage[c] = "replied" /\ UNCHANGED fileVars
    BY <1>5 DEF SendShort, WriteFails, Move, fileVars
  <2> QED
    BY <1>0, <1>3, <2>1, FilesUntouched
<1>6. CASE WriteFile(c) \/ (WriteFails(c) /\ Overwrite(c) /\ leftover' = leftover \union {now})
  <2>1. /\ stage[c] = "replied" /\ (stage'[c] = "file" \/ now \in leftover')
        /\ leftover \ {now} \subseteq leftover'
        /\ named'[c] = now /\ wrote'[c] = now /\ files'[now] = c
        /\ \A d \in Chats \ {c} : named'[d] = named[d] /\ wrote'[d] = wrote[d]
        /\ \A s \in Seconds \ {now} : files'[s] = files[s]
        /\ attached' = attached /\ received' = received
    BY <1>1, <1>6 DEF WriteFile, WriteFails, Overwrite, FileName, Move
  <2>2. ~Written(c)
    BY <2>1 DEF Written, PastReply
  <2>3. \A d \in Chats : named'[d] = wrote'[d]
    BY <2>1 DEF FileIInv
  <2>4. NoFileLeft'
    BY <1>3, <2>1 DEF FileIInv, NoFileLeft
  <2>5. \A s \in Seconds : files'[s] # Nowhere => stage'[files'[s]] \in PastReply /\ wrote'[files'[s]] = s
    <3>1. ASSUME NEW s \in Seconds \ {now}, files[s] # Nowhere
          PROVE  stage'[files[s]] \in PastReply /\ wrote'[files[s]] = s
      <4>1. files[s] \in Chats /\ Written(files[s]) /\ wrote[files[s]] = s
        BY <3>1, <1>0, HoldersAreChats DEF FileIInv
      <4> QED
        BY <4>1, <1>2 DEF Written, PastReply
    <3> QED
      BY <3>1, <2>1, <1>4 DEF Written, PastReply
  <2>6. ASSUME NEW d \in Chats, attached[d] # Nowhere
        PROVE  stage'[d] \in PastReply /\ stage'[attached[d]] \in PastReply /\ wrote'[attached[d]] = wrote'[d]
    <3>1. /\ attached[d] \in Chats /\ Written(d) /\ Written(attached[d])
          /\ wrote[attached[d]] = wrote[d]
      BY <2>6, <1>0, HoldersAreChats DEF FileIInv
    <3> QED
      BY <3>1, <1>2 DEF Written, PastReply
  <2>7. ASSUME NEW d \in Chats, received[d] # Nowhere
        PROVE  stage'[d] \in PastReply /\ stage'[received[d]] \in PastReply /\ wrote'[received[d]] = wrote'[d]
    <3>1. /\ received[d] \in Chats /\ Written(d) /\ Written(received[d])
          /\ wrote[received[d]] = wrote[d]
      BY <2>7, <1>0, HoldersAreChats DEF FileIInv
    <3> QED
      BY <3>1, <1>2 DEF Written, PastReply
  <2> QED
    BY <2>1, <2>3, <2>4, <2>5, <2>6, <2>7 DEF FileIInv, Written
<1>7. ASSUME UNCHANGED <<named, wrote>>,
             \A s \in Seconds : files'[s] # Nowhere => files'[s] = files[s],
             NoFileLeft',
             \A d \in Chats : attached'[d] # Nowhere =>
               \/ attached'[d] = attached[d]
               \/ d = c /\ Written(c) /\ attached'[c] = files[named[c]],
             \A d \in Chats : received'[d] # Nowhere =>
               \/ received'[d] = received[d]
               \/ d = c /\ Written(c) /\ received'[c] \in {attached[c], c}
      PROVE  FileIInv'
  <2>1. ASSUME NEW s \in Seconds, files'[s] # Nowhere
        PROVE  stage'[files'[s]] \in PastReply /\ wrote'[files'[s]] = s
    <3>1. /\ files'[s] = files[s] /\ files[s] \in Chats
          /\ Written(files[s]) /\ wrote[files[s]] = s
      BY <2>1, <1>7, <1>0, HoldersAreChats DEF FileIInv
    <3> QED
      BY <3>1, <1>2 DEF Written, PastReply
  <2>2. ASSUME NEW d \in Chats, attached'[d] # Nowhere
        PROVE  stage'[d] \in PastReply /\ stage'[attached'[d]] \in PastReply /\ wrote'[attached'[d]] = wrote'[d]
    <3>1. /\ attached'[d] \in Chats /\ Written(d) /\ Written(attached'[d])
          /\ wrote[attached'[d]] = wrote[d]
      <4>1. CASE attached'[d] = attached[d]
        BY <4>1, <2>2, <1>0, HoldersAreChats DEF FileIInv
      <4>2. CASE d = c /\ Written(c) /\ attached'[c] = files[named[c]]
        <5>1. named[c] = wrote[c] /\ named[c] \in Seconds
          BY <1>1 DEF FileIInv
        <5>2. files[named[c]] # Nowhere
          BY <4>2, <2>2
        <5> QED
          BY <4>2, <5>1, <5>2, <1>0, HoldersAreChats DEF FileIInv
      <4> QED
        BY <4>1, <4>2, <2>2, <1>7
    <3> QED
      BY <3>1, <1>2 DEF Written, PastReply
  <2>3. ASSUME NEW d \in Chats, received'[d] # Nowhere
        PROVE  stage'[d] \in PastReply /\ stage'[received'[d]] \in PastReply /\ wrote'[received'[d]] = wrote'[d]
    <3>1. /\ received'[d] \in Chats /\ Written(d) /\ Written(received'[d])
          /\ wrote[received'[d]] = wrote[d]
      <4>1. CASE received'[d] = received[d]
        BY <4>1, <2>3, <1>0, HoldersAreChats DEF FileIInv
      <4>2. CASE d = c /\ Written(c) /\ received'[c] = attached[c]
        BY <4>2, <2>3, <1>0, HoldersAreChats DEF FileIInv
      <4>3. CASE d = c /\ Written(c) /\ received'[c] = c
        BY <4>3
      <4> QED
        BY <4>1, <4>2, <4>3, <2>3, <1>7
    <3> QED
      BY <3>1, <1>2 DEF Written, PastReply
  <2> QED
    BY <1>7, <2>1, <2>2, <2>3 DEF FileIInv, Written
<1>8. CASE ReadFile(c)
  <2>1. /\ stage[c] = "file" /\ stage'[c] = "uploading"
        /\ UNCHANGED <<named, wrote, files, leftover, received>>
        /\ attached'[c] = files[named[c]]
        /\ \A d \in Chats \ {c} : attached'[d] = attached[d]
    BY <1>1, <1>8 DEF ReadFile, Move
  <2>2. NoFileLeft'
    BY <1>3, <2>1 DEF FileIInv, NoFileLeft
  <2>3. Written(c)
    BY <2>1 DEF Written, PastReply
  <2> QED
    BY <1>7, <2>1, <2>2, <2>3
<1>9. CASE SendFile(c)
  <2>1. /\ stage[c] = "uploading" /\ UNCHANGED <<named, wrote, attached>>
        /\ received' = received \/ received' = [received EXCEPT ![c] = attached[c]]
        /\ \/ files' = [files EXCEPT ![named[c]] = Nowhere] /\ leftover' = leftover \ {named[c]}
           \/ files' = files /\ leftover' = leftover \union {named[c]}
    BY <1>1, <1>9 DEF SendFile, Unlink, Remove, Move
  <2>2. named[c] \in Seconds
    BY <1>1
  <2>3. /\ files'[named[c]] = Nowhere \/ named[c] \in leftover'
        /\ leftover \ {named[c]} \subseteq leftover'
        /\ files'[named[c]] \in {Nowhere, files[named[c]]}
        /\ \A s \in Seconds \ {named[c]} : files'[s] = files[s]
    BY <1>1, <2>1, <2>2
  <2>4. NoFileLeft'
    <3>1. ASSUME NEW s \in Seconds, files'[s] # Nowhere, s \notin leftover'
          PROVE  \E d \in Chats : stage'[d] \in {"file", "uploading"} /\ named'[d] = s
      <4>1. s # named[c] /\ files[s] # Nowhere /\ s \notin leftover
        BY <3>1, <2>3
      <4>2. PICK d \in Chats : stage[d] \in {"file", "uploading"} /\ named[d] = s
        BY <4>1 DEF FileIInv, NoFileLeft
      <4> QED
        BY <4>1, <4>2, <1>3, <2>1
    <3> QED
      BY <3>1 DEF NoFileLeft
  <2>5. Written(c)
    BY <2>1 DEF Written, PastReply
  <2>6. \A d \in Chats : received'[d] = received[d] \/ (d = c /\ received'[c] = attached[c])
    BY <1>1, <2>1
  <2> QED
    BY <1>7, <2>1, <2>3, <2>4, <2>5, <2>6
<1>10. CASE SendText(c)
  <2>1. /\ stage[c] = "text" /\ UNCHANGED <<named, wrote, files, leftover, attached>>
        /\ received' = received \/ received' = [received EXCEPT ![c] = c]
    BY <1>10 DEF SendText, Move
  <2>2. NoFileLeft'
    BY <1>3, <2>1 DEF FileIInv, NoFileLeft
  <2>3. Written(c)
    BY <2>1 DEF Written, PastReply
  <2>4. \A d \in Chats : received'[d] = received[d] \/ (d = c /\ received'[c] = c)
    BY <1>1, <2>1
  <2> QED
    BY <1>7, <2>1, <2>2, <2>3, <2>4
<1> QED
  BY <1>5, <1>6, <1>8, <1>9, <1>10 DEF Delivery, WriteFails, FileName

\* Every step keeps what the files hold.
LEMMA FileInvariantStep ==
  ASSUME FileIInv, GatewayTypeOK', [GatewayNext]_gatewayVars
  PROVE  FileIInv'
<1>0. GatewayTypeOK
  BY DEF FileIInv
<1>1. ASSUME NEW c \in Chats, CallStep(c) PROVE FileIInv'
  <2>1. UNCHANGED fileVars
    BY <1>0, <1>1, CallFrame
  <2>2. ASSUME NEW d \in Chats, stage[d] \in {"file", "uploading"} PROVE stage'[d] = stage[d]
    BY <1>0, <1>1, <2>2, CallFrame
  <2> QED
    BY <2>1, <2>2, FilesUntouched
<1>2. ASSUME NEW c \in Chats, Delivery(c) PROVE FileIInv'
  BY <1>2, DeliveryKeepsFiles
<1>3. CASE Clock \/ UNCHANGED gatewayVars
  BY <1>3, FilesUntouched DEF Clock, gatewayVars
<1> QED
  BY <1>1, <1>2, <1>3 DEF GatewayNext, CallStep

-----------------------------------------------------------------------------
(* Theorems.                                                                *)

LEMMA InitialCalls == GatewayInit => CallIInv
<1> SUFFICES ASSUME GatewayInit PROVE CallIInv
  OBVIOUS
<1>1. 0 \in 0..MaxRetries /\ 0 \in Seconds
  BY GatewayAssumption DEF Seconds
<1>2. "new" \in Stages /\ "no response" \in Texts
  BY DEF Stages, Texts
<1>3. GatewayTypeOK
  BY <1>1, <1>2 DEF GatewayInit, GatewayTypeOK
<1>4. ASSUME NEW c \in Chats PROVE Tally(c)
  <2>1. /\ stage[c] = "new" /\ attempt[c] = 0 /\ running[c] = 0 /\ carried[c] = 0
        /\ mine[c] = "no" /\ severed[c] = 0
    BY DEF GatewayInit
  <2> QED
    BY <2>1 DEF Tally, Own
<1> QED
  BY <1>3, <1>4 DEF CallIInv

LEMMA InitialFiles == GatewayInit => FileIInv
BY InitialCalls DEF GatewayInit, CallIInv, FileIInv, NoFileLeft, Written, PastReply

LEMMA CallInvariance == GatewaySpec => []CallIInv
BY InitialCalls, CallInvariantStep, PTL DEF GatewaySpec

LEMMA FileInvariance == GatewaySpec => []FileIInv
<1>1. CallIInv => GatewayTypeOK
  BY DEF CallIInv
<1> QED
  BY <1>1, InitialFiles, CallInvariance, FileInvariantStep, PTL DEF GatewaySpec

\* The variables of the gateway keep their types (agentcore_proxy.py,
\* weixin_file_patch.py).
THEOREM GatewayTypeCorrect == GatewaySpec => []GatewayTypeOK
<1>1. CallIInv => GatewayTypeOK
  BY DEF CallIInv
<1> QED
  BY <1>1, CallInvariance, PTL

LEMMA RepeatsAreTallied == CallIInv => RepeatedOnlyWhenSevered
<1>1. ASSUME CallIInv, NEW c \in Chats
      PROVE  carried[c] + running[c] <= 1 + severed[c] /\ severed[c] <= attempt[c] + 1
  <2>1. /\ Tally(c) /\ stage[c] \in Stages /\ mine[c] \in {"no", "runs", "ended"}
        /\ carried[c] \in Nat /\ running[c] \in Nat /\ severed[c] \in Nat
        /\ attempt[c] \in Nat
    BY <1>1 DEF CallIInv, GatewayTypeOK
  <2> QED
    BY <2>1 DEF Tally, Own, Stages
<1> QED
  BY <1>1 DEF RepeatedOnlyWhenSevered

\* However often _invoke_with_retry tries, the agent repeats a message only for
\* an attempt that was given up after it had reached the runtime
\* (agentcore_proxy.py:114-162).
THEOREM RepeatsAreSevered == GatewaySpec => []RepeatedOnlyWhenSevered
  BY RepeatsAreTallied, CallInvariance, PTL

\* The file of a reply is removed with the last delivery that could read it,
\* whatever fails (weixin_file_patch.py:69-95).
THEOREM FilesAreRemoved == GatewaySpec => []NoFileLeft
<1>1. FileIInv => NoFileLeft
  BY DEF FileIInv
<1> QED
  BY <1>1, FileInvariance, PTL

\* Replies of different chats are mixed up only within one second of the file
\* name (weixin_file_patch.py:72).
THEOREM MixedOnlyInSameSecond == GatewaySpec => []OthersReplyOnlyInSameSecond
<1>1. FileIInv => OthersReplyOnlyInSameSecond
  BY DEF FileIInv, OthersReplyOnlyInSameSecond
<1> QED
  BY <1>1, FileInvariance, PTL

\* A file belongs to the replies of its second and is gone with them
\* (weixin_file_patch.py:69-95).
THEOREM FilesAreKeptApart == GatewaySpec => []FilesStayApart
  BY FilesAreRemoved, MixedOnlyInSameSecond, PTL DEF FilesStayApart

\* How far a message is from its end: the stage it is in, and two more steps for
\* every attempt that is left.
StageLeft ==
  [new |-> 7, calling |-> 6, backoff |-> 5, replied |-> 4, file |-> 3, uploading |-> 2,
   text |-> 1, done |-> 0]
MessageLeft(c) == StageLeft[stage[c]] + 2 * (MaxRetries - attempt[c])

\* A step that moves a message takes it nearer its end, and none takes it back.
MessagesComeToAnEnd ==
  [][\A c \in Chats : UNCHANGED <<stage[c], attempt[c]>> \/ MessageLeft(c)' < MessageLeft(c)]_gatewayVars

\* A message has at most 2 * MaxRetries + 7 moves, as MessageLeft is never negative.
MessageBounded == \A c \in Chats : MessageLeft(c) \in 0..(2 * MaxRetries + 7)

\* The stages in numbers.
LEMMA StageFacts ==
  /\ \A st \in Stages : StageLeft[st] \in 0..7
  /\ StageLeft["new"] = 7 /\ StageLeft["calling"] = 6 /\ StageLeft["backoff"] = 5
  /\ StageLeft["replied"] = 4 /\ StageLeft["file"] = 3 /\ StageLeft["uploading"] = 2
  /\ StageLeft["text"] = 1 /\ StageLeft["done"] = 0
BY DEF StageLeft, Stages

\* A step of the proxy or of a delivery takes its message nearer the end, or leaves
\* it where it is, and leaves the other messages alone.
LEMMA MessageStep ==
  ASSUME GatewayTypeOK, NEW c \in Chats, CallStep(c) \/ Delivery(c), NEW d \in Chats
  PROVE  UNCHANGED <<stage[d], attempt[d]>> \/ MessageLeft(d)' < MessageLeft(d)
<1>1. /\ stage \in [Chats -> Stages] /\ attempt \in [Chats -> 0..MaxRetries]
      /\ attempt[c] \in Nat /\ attempt[c] <= MaxRetries /\ MaxRetries \in Nat
  BY GatewayAssumption DEF GatewayTypeOK
<1>2. CASE c # d
  <2>1. stage'[d] = stage[d]
    BY <1>2, CallFrame, DeliveryFrame
  <2>2. attempt'[d] = attempt[d]
    <3>1. CASE Delivery(c)
      BY <3>1, DeliveryFrame DEF invokeVars
    <3>2. CASE CallStep(c)
      BY <1>1, <1>2, <3>2 DEF CallStep, Proxy, Call, Reach, RunEnds, Wake, Answered, ColdStartError,
                              Throttled, FailedCall, Return, SleepAndRetry, invokeVars
    <3> QED
      BY <3>1, <3>2
  <2> QED
    BY <2>1, <2>2
<1>3. CASE c = d /\ Wake(c)
  <2>1. /\ stage[c] = "backoff" /\ stage'[c] = "calling" /\ attempt'[c] = attempt[c] + 1
    BY <1>1, <1>3 DEF Wake, Move
  <2>2. 6 + 2 * (MaxRetries - (attempt[c] + 1)) < 5 + 2 * (MaxRetries - attempt[c])
    BY <1>1
  <2> QED
    BY <1>3, <2>1, <2>2, StageFacts DEF MessageLeft
<1>4. CASE c = d /\ (Reach(c) \/ RunEnds(c))
  BY <1>4 DEF Reach, RunEnds
<1>5. CASE c = d /\ ~Wake(c) /\ ~Reach(c) /\ ~RunEnds(c)
  <2>1. attempt'[c] = attempt[c]
    BY <1>5, DeliveryFrame DEF CallStep, Proxy, Call, Answered, ColdStartError, Throttled,
                               FailedCall, Return, SleepAndRetry, invokeVars
  <2>2. StageLeft[stage'[c]] < StageLeft[stage[c]]
    <3>1. CASE CallStep(c)
      <4>1. \/ Move(c, "new", "calling")
            \/ Move(c, "calling", "backoff")
            \/ Move(c, "calling", "replied")
        BY <1>5, <3>1 DEF CallStep, Proxy, Call, Answered, ColdStartError, Throttled, FailedCall,
                          Return, SleepAndRetry
      <4> QED
        BY <1>1, <4>1, StageFacts DEF Move
    <3>2. CASE Delivery(c)
      <4>1. \/ Move(c, "replied", "text") \/ Move(c, "replied", "file")
            \/ Move(c, "file", "uploading")
            \/ Move(c, "uploading", "done") \/ Move(c, "uploading", "text")
            \/ Move(c, "text", "done")
        BY <3>2 DEF Delivery, SendShort, WriteFile, WriteFails, ReadFile, SendFile, SendText
      <4> QED
        BY <1>1, <4>1, StageFacts DEF Move
    <3> QED
      BY <3>1, <3>2
  <2>3. stage'[c] \in Stages /\ stage[c] \in Stages
    BY <1>1, CallFrame, DeliveryFrame
  <2>4. 2 * (MaxRetries - attempt[c]) \in Nat
    BY <1>1
  <2> QED
    BY <1>5, <2>1, <2>2, <2>3, <2>4, StageFacts DEF MessageLeft
<1> QED
  BY <1>2, <1>3, <1>4, <1>5

\* A message that was taken has a bounded number of moves before it, and each of them
\* takes it nearer its end: no retry, late run or lost file brings it back
\* (agentcore_proxy.py:114-162, weixin_file_patch.py:38-95).
THEOREM MessagesEnd == GatewaySpec => []MessageBounded /\ MessagesComeToAnEnd
<1>1. GatewayTypeOK => MessageBounded
  <2> SUFFICES ASSUME GatewayTypeOK, NEW c \in Chats
               PROVE  MessageLeft(c) \in 0..(2 * MaxRetries + 7)
    BY DEF MessageBounded
  <2>1. /\ StageLeft[stage[c]] \in 0..7
        /\ attempt[c] \in Nat /\ attempt[c] <= MaxRetries /\ MaxRetries \in Nat
    BY StageFacts, GatewayAssumption DEF GatewayTypeOK
  <2>2. /\ 2 * (MaxRetries - attempt[c]) \in Nat
        /\ 2 * (MaxRetries - attempt[c]) <= 2 * MaxRetries
    BY <2>1
  <2> QED
    BY <2>1, <2>2 DEF MessageLeft
<1>2. ASSUME GatewayTypeOK, [GatewayNext]_gatewayVars, NEW d \in Chats
      PROVE  UNCHANGED <<stage[d], attempt[d]>> \/ MessageLeft(d)' < MessageLeft(d)
  <2>1. CASE \E c \in Chats : CallStep(c) \/ Delivery(c)
    BY <1>2, <2>1, MessageStep
  <2>2. CASE Clock \/ UNCHANGED gatewayVars
    BY <2>2 DEF Clock, gatewayVars, invokeVars
  <2> QED
    BY <1>2, <2>1, <2>2 DEF GatewayNext, CallStep
<1>3. GatewayTypeOK /\ [GatewayNext]_gatewayVars =>
        [\A c \in Chats :
           UNCHANGED <<stage[c], attempt[c]>> \/ MessageLeft(c)' < MessageLeft(c)]_gatewayVars
  BY <1>2
<1> QED
  BY <1>1, <1>3, GatewayTypeCorrect, PTL DEF GatewaySpec, MessagesComeToAnEnd
-----------------------------------------------------------------------------
(* The three of them in one state space (MCLiveness).                       *)

\* A step of the composition is a step of one part, and none of the others.
LEMMA StepIsOfOnePart ==
  ASSUME [PartNext]_partVars
  PROVE  /\ [ContractNext]_contractVars /\ [CredentialsNext]_credentialVars
         /\ [GatewayNext]_gatewayVars
BY DEF PartNext, partVars, OnlyServer, OnlyCredentials, OnlyGateway

LEMMA BeginIsOfEachPart ==
  ASSUME PartInit PROVE ContractInit /\ CredentialsInit /\ GatewayInit
BY DEF PartInit

\* What the server, the credentials and the gateway promise they promise in the
\* composition, for any constants (contract.py, scoped_credentials.py,
\* agentcore_proxy.py, weixin_file_patch.py).
THEOREM PartsKeepPromises ==
  PartSpec => [](/\ ServerTellsTruth /\ SavedAtExit /\ UploadsOutliveTheirKeys
                 /\ RepeatedOnlyWhenSevered /\ FilesStayApart)
<1>1. ContractIInv => ServerTellsTruth /\ SavedAtExit
  BY DEF ContractIInv, PromiseKept, ReadyIsKept, ServerTellsTruth, FinalSaveIsLast, SavedAtExit
<1>2. CallIInv => GatewayTypeOK
  BY DEF CallIInv
<1>3. FileIInv => FilesStayApart
  BY DEF FileIInv, FilesStayApart, OthersReplyOnlyInSameSecond
<1> QED
  BY <1>1, <1>2, <1>3, BeginIsOfEachPart, StepIsOfOnePart, ContractBegin, ContractStep,
     CredentialsBegin, CredentialsStep, TimeIsLeft, InitialCalls, CallInvariantStep,
     RepeatsAreTallied, InitialFiles, FileInvariantStep, PTL
  DEF PartSpec
=============================================================================
