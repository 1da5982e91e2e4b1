--------------------------- MODULE EntrancesProofs ---------------------------
(***************************************************************************)
(* Proofs about Cron, TokenMetrics, SignIn, Webhook, Replies and           *)
(* GatewayStart, each for any constants.                                   *)
(***************************************************************************)
EXTENDS Cron, TokenMetrics, SignIn, Webhook, Replies, GatewayStart, TLAPS

-----------------------------------------------------------------------------
(* Cron.                                                                    *)

\* The attempt that is due, or the one that asks AgentCore, has not run the
\* prompt except where botocore repeated it; the one that has an answer did.
Account(o) ==
  /\ runs[o] <= 1 + repeats[o] + deaths[o]
  /\ cronAt[o] \in {"due", "invoking", "raised"} => runs[o] <= repeats[o] + deaths[o]
  /\ tellings[o] <= 1 + deaths[o] /\ tellings[o] <= runs[o]
  /\ cronAt[o] \notin {"sent", "ended"} => tellings[o] <= deaths[o]
  /\ cronAt[o] \in {"reading", "secret", "sending"} => tellings[o] < runs[o]
  /\ cronAt[o] # "ended" => crashes[o] <= MaxReruns

CronIInv == CronTypeOK /\ \A o \in Firings : Account(o)

\* A firing whose counts changed in a step, and the others.
OthersAlike(o) ==
  \A p \in Firings \ {o} :
    /\ cronAt'[p] = cronAt[p] /\ crashes'[p] = crashes[p] /\ runs'[p] = runs[p]
    /\ tellings'[p] = tellings[p] /\ repeats'[p] = repeats[p] /\ deaths'[p] = deaths[p]

CronPlaces == {"due", "invoking", "reading", "secret", "sending", "sent", "raised", "ended"}

LEMMA GotoFacts ==
  ASSUME cronAt \in [Firings -> CronPlaces], NEW o \in Firings, NEW from, NEW to \in CronPlaces,
         Goto(o, from, to)
  PROVE  /\ cronAt' \in [Firings -> CronPlaces] /\ cronAt[o] = from /\ cronAt'[o] = to
         /\ \A p \in Firings \ {o} : cronAt'[p] = cronAt[p]
BY DEF Goto

LEMMA CronTypes ==
  ASSUME CronTypeOK
  PROVE  /\ cronAt \in [Firings -> CronPlaces]
         /\ crashes \in [Firings -> 0..(MaxReruns + 1)] /\ sends \in [Firings -> 0..MaxSends]
         /\ runs \in [Firings -> Nat] /\ tellings \in [Firings -> Nat]
         /\ repeats \in [Firings -> Nat] /\ deaths \in [Firings -> Nat]
         /\ event \in [Firings -> Events] /\ bodyKey \in {"payload", "response"}
         /\ cached \in BOOLEAN /\ MaxReruns \in Nat /\ MaxSends \in Nat /\ MaxSends # 0
BY CronAssumption DEF CronTypeOK, CronPlaces

\* Steps that only move the attempt on.
QuietStep(o) == Refuse(o) \/ Invoke(o) \/ ReadNothing(o) \/ ReadOutput(o) \/ ReturnOk(o)

LEMMA QuietStepKeeps ==
  ASSUME CronIInv, NEW o \in Firings, QuietStep(o)
  PROVE  CronTypeOK' /\ OthersAlike(o) /\ Account(o)'
<1>1. /\ UNCHANGED <<event, bodyKey, crashes, runs, cached, tellings, repeats, deaths>>
      /\ sends' = sends \/ sends' = [sends EXCEPT ![o] = 1]
  BY DEF QuietStep, Refuse, Invoke, ReadNothing, ReadOutput, ReturnOk
<1>2. PICK from \in CronPlaces, to \in CronPlaces :
        /\ Goto(o, from, to)
        /\ to \in {"invoking", "secret", "ended"}
        /\ to = "invoking" => from = "due"
        /\ to = "secret" => from = "reading"
  BY DEF QuietStep, Refuse, Invoke, ReadNothing, ReadOutput, ReturnOk, CronPlaces
<1>3. /\ cronAt' \in [Firings -> CronPlaces] /\ cronAt[o] = from /\ cronAt'[o] = to
      /\ \A p \in Firings \ {o} : cronAt'[p] = cronAt[p]
  BY <1>2, CronTypes, GotoFacts DEF CronIInv
<1>4. sends' \in [Firings -> 0..MaxSends]
  <2>1. sends \in [Firings -> 0..MaxSends] /\ 1 \in 0..MaxSends
    BY CronTypes DEF CronIInv
  <2> QED
    BY <1>1, <2>1
<1>5. Account(o)'
  BY <1>1, <1>2, <1>3 DEF CronIInv, Account
<1> QED
  BY <1>1, <1>3, <1>4, <1>5 DEF CronIInv, CronTypeOK, CronPlaces, OthersAlike

\* The counts one step adds to.
LEMMA Bumped ==
  ASSUME NEW f \in [Firings -> Nat], NEW o \in Firings, NEW g,
         g = f \/ g = [f EXCEPT ![o] = @ + 1]
  PROVE  /\ g \in [Firings -> Nat] /\ g[o] \in {f[o], f[o] + 1}
         /\ \A p \in Firings \ {o} : g[p] = f[p]
OBVIOUS

LEMMA AnswerKeeps ==
  ASSUME CronIInv, NEW o \in Firings, Answer(o) \/ InvokeFails(o)
  PROVE  CronTypeOK' /\ OthersAlike(o) /\ Account(o)'
<1>1. /\ UNCHANGED <<event, bodyKey, crashes, sends, cached, tellings, repeats, deaths>>
      /\ runs' = runs \/ runs' = [runs EXCEPT ![o] = @ + 1]
  BY DEF Answer, InvokeFails
<1>2. PICK to \in {"reading", "ended"} :
        Goto(o, "invoking", to) /\ (to = "reading" => runs' = [runs EXCEPT ![o] = @ + 1])
  BY DEF Answer, InvokeFails
<1>3. /\ cronAt' \in [Firings -> CronPlaces] /\ cronAt[o] = "invoking" /\ cronAt'[o] = to
      /\ \A p \in Firings \ {o} : cronAt'[p] = cronAt[p]
  BY <1>2, CronTypes, GotoFacts DEF CronIInv, CronPlaces
<1>4. /\ runs' \in [Firings -> Nat] /\ runs'[o] \in {runs[o], runs[o] + 1}
      /\ \A p \in Firings \ {o} : runs'[p] = runs[p]
  BY <1>1, CronTypes, Bumped DEF CronIInv
<1>5. to = "reading" => runs'[o] = runs[o] + 1
  BY <1>2, CronTypes DEF CronIInv
<1>6. /\ runs[o] \in Nat /\ tellings[o] \in Nat /\ repeats[o] \in Nat /\ deaths[o] \in Nat
      /\ Account(o)
  BY CronTypes DEF CronIInv
<1>7. Account(o)'
  BY <1>1, <1>3, <1>4, <1>5, <1>6 DEF Account
<1> QED
  BY <1>1, <1>3, <1>4, <1>7 DEF CronIInv, CronTypeOK, CronPlaces, OthersAlike

LEMMA SendAgainKeeps ==
  ASSUME CronIInv, NEW o \in Firings, SendAgain(o)
  PROVE  CronTypeOK' /\ OthersAlike(o) /\ Account(o)'
<1>1. UNCHANGED <<event, bodyKey, cronAt, crashes, cached, tellings, deaths>>
  BY DEF SendAgain
<1>2. /\ runs' = [runs EXCEPT ![o] = @ + 1] /\ repeats' = [repeats EXCEPT ![o] = @ + 1]
      /\ sends' = [sends EXCEPT ![o] = @ + 1]
      /\ cronAt[o] = "invoking" /\ sends[o] < MaxSends
  BY DEF SendAgain
<1>3. /\ runs' \in [Firings -> Nat] /\ runs'[o] = runs[o] + 1
      /\ \A p \in Firings \ {o} : runs'[p] = runs[p]
      /\ repeats' \in [Firings -> Nat] /\ repeats'[o] = repeats[o] + 1
      /\ \A p \in Firings \ {o} : repeats'[p] = repeats[p]
  BY <1>2, CronTypes DEF CronIInv
<1>4. sends' \in [Firings -> 0..MaxSends]
  BY <1>2, CronTypes DEF CronIInv
<1>5. /\ runs[o] \in Nat /\ tellings[o] \in Nat /\ repeats[o] \in Nat /\ deaths[o] \in Nat
      /\ Account(o)
  BY CronTypes DEF CronIInv
<1>6. Account(o)'
  BY <1>1, <1>2, <1>3, <1>5 DEF Account
<1> QED
  BY <1>1, <1>3, <1>4, <1>6 DEF CronIInv, CronTypeOK, OthersAlike

LEMMA DeliverKeeps ==
  ASSUME CronIInv, NEW o \in Firings, Deliver(o)
  PROVE  CronTypeOK' /\ OthersAlike(o) /\ Account(o)'
<1>1. /\ UNCHANGED <<event, bodyKey, crashes, sends, runs, cached, repeats, deaths>>
      /\ tellings' = tellings \/ tellings' = [tellings EXCEPT ![o] = @ + 1]
      /\ Goto(o, "sending", "sent")
  BY DEF Deliver
<1>2. /\ cronAt' \in [Firings -> CronPlaces] /\ cronAt[o] = "sending" /\ cronAt'[o] = "sent"
      /\ \A p \in Firings \ {o} : cronAt'[p] = cronAt[p]
  BY <1>1, CronTypes, GotoFacts DEF CronIInv, CronPlaces
<1>3. /\ tellings' \in [Firings -> Nat] /\ tellings'[o] \in {tellings[o], tellings[o] + 1}
      /\ \A p \in Firings \ {o} : tellings'[p] = tellings[p]
  BY <1>1, CronTypes, Bumped DEF CronIInv
<1>4. /\ runs[o] \in Nat /\ tellings[o] \in Nat /\ repeats[o] \in Nat /\ deaths[o] \in Nat
      /\ Account(o)
  BY CronTypes DEF CronIInv
<1>5. Account(o)'
  BY <1>1, <1>2, <1>3, <1>4 DEF Account
<1> QED
  BY <1>1, <1>2, <1>3, <1>5 DEF CronIInv, CronTypeOK, CronPlaces, OthersAlike

\* The attempt goes wrong, and is counted; or the token is there.
LEMMA DeathKeeps ==
  ASSUME CronIInv, NEW o \in Firings, Dies(o) \/ GetSecret(o)
  PROVE  CronTypeOK' /\ OthersAlike(o) /\ Account(o)'
<1>1. /\ UNCHANGED <<event, bodyKey, crashes, sends, runs, tellings, repeats>>
      /\ cached' \in BOOLEAN
  BY CronTypes DEF Dies, GetSecret, CronIInv
<1>2. PICK from \in CronPlaces, to \in {"sending", "raised"} :
        /\ Goto(o, from, to) /\ from \notin {"due", "raised", "ended"}
        /\ IF to = "raised" THEN deaths' = [deaths EXCEPT ![o] = @ + 1]
                            ELSE from = "secret" /\ deaths' = deaths
  <2>1. CASE Dies(o)
    <3>1. cronAt[o] \in CronPlaces
      BY CronTypes DEF CronIInv
    <3> QED
      BY <2>1, <3>1 DEF Dies, Goto
  <2>2. CASE GetSecret(o)
    BY <2>2 DEF GetSecret, CronPlaces
  <2> QED
    BY <2>1, <2>2
<1>3. /\ cronAt' \in [Firings -> CronPlaces] /\ cronAt[o] = from /\ cronAt'[o] = to
      /\ \A p \in Firings \ {o} : cronAt'[p] = cronAt[p]
  BY <1>2, CronTypes, GotoFacts DEF CronIInv, CronPlaces
<1>4. /\ deaths' \in [Firings -> Nat]
      /\ deaths'[o] = IF to = "raised" THEN deaths[o] + 1 ELSE deaths[o]
      /\ \A p \in Firings \ {o} : deaths'[p] = deaths[p]
  BY <1>2, CronTypes DEF CronIInv
<1>5. /\ runs[o] \in Nat /\ tellings[o] \in Nat /\ repeats[o] \in Nat /\ deaths[o] \in Nat
      /\ Account(o)
  BY CronTypes DEF CronIInv
<1>6. Account(o)'
  BY <1>1, <1>2, <1>3, <1>4, <1>5 DEF Account
<1> QED
  BY <1>1, <1>3, <1>4, <1>6 DEF CronIInv, CronTypeOK, CronPlaces, OthersAlike

LEMMA AgainKeeps ==
  ASSUME CronIInv, NEW o \in Firings, Again(o)
  PROVE  CronTypeOK' /\ OthersAlike(o) /\ Account(o)'
<1>1. /\ UNCHANGED <<event, bodyKey, sends, runs, cached, tellings, repeats, deaths>>
      /\ crashes' = [crashes EXCEPT ![o] = @ + 1]
  BY DEF Again
<1>2. PICK to \in {"due", "ended"} :
        Goto(o, "raised", to) /\ (to = "due" => crashes[o] < MaxReruns)
  BY DEF Again
<1>3. /\ cronAt' \in [Firings -> CronPlaces] /\ cronAt[o] = "raised" /\ cronAt'[o] = to
      /\ \A p \in Firings \ {o} : cronAt'[p] = cronAt[p]
  BY <1>2, CronTypes, GotoFacts DEF CronIInv, CronPlaces
<1>4. /\ runs[o] \in Nat /\ tellings[o] \in Nat /\ repeats[o] \in Nat /\ deaths[o] \in Nat
      /\ Account(o) /\ crashes[o] \in Nat /\ MaxReruns \in Nat
  BY CronTypes DEF CronIInv
<1>5. crashes[o] <= MaxReruns
  BY <1>3, <1>4 DEF Account
<1>6. /\ crashes' \in [Firings -> 0..(MaxReruns + 1)] /\ crashes'[o] = crashes[o] + 1
      /\ \A p \in Firings \ {o} : crashes'[p] = crashes[p]
  BY <1>1, <1>4, <1>5, CronTypes DEF CronIInv
<1>7. Account(o)'
  BY <1>1, <1>2, <1>3, <1>4, <1>6 DEF Account
<1> QED
  BY <1>1, <1>3, <1>6, <1>7 DEF CronIInv, CronTypeOK, CronPlaces, OthersAlike

LEMMA CronInvariantStep ==
  ASSUME CronIInv, [CronNext]_cronVars
  PROVE  CronIInv'
<1>1. ASSUME NEW o \in Firings, CronTypeOK', OthersAlike(o), Account(o)' PROVE CronIInv'
  <2>1. ASSUME NEW p \in Firings \ {o} PROVE Account(p)'
    BY <1>1, <2>1 DEF CronIInv, Account, OthersAlike
  <2> QED
    BY <1>1, <2>1 DEF CronIInv
<1>2. ASSUME NEW o \in Firings, Handle(o) \/ Answer(o) \/ SendAgain(o) \/ Dies(o) \/ Again(o)
      PROVE  CronIInv'
  <2>1. CronTypeOK' /\ OthersAlike(o) /\ Account(o)'
    BY <1>2, QuietStepKeeps, AnswerKeeps, SendAgainKeeps, DeliverKeeps, DeathKeeps, AgainKeeps
    DEF Handle, QuietStep
  <2> QED
    BY <1>1, <2>1
<1>3. CASE UNCHANGED cronVars
  BY <1>3 DEF cronVars, CronIInv, CronTypeOK, Account
<1> QED
  BY <1>2, <1>3 DEF CronNext

LEMMA CronInitial == CronInit => CronIInv
<1> SUFFICES ASSUME CronInit PROVE CronIInv
  OBVIOUS
<1>1. 0 \in 0..(MaxReruns + 1) /\ 0 \in 0..MaxSends
  BY CronAssumption
<1>2. CronTypeOK
  BY <1>1 DEF CronInit, CronTypeOK
<1>3. ASSUME NEW o \in Firings PROVE Account(o)
  <2>1. /\ cronAt[o] = "due" /\ crashes[o] = 0 /\ runs[o] = 0 /\ tellings[o] = 0
        /\ repeats[o] = 0 /\ deaths[o] = 0
    BY DEF CronInit
  <2> QED
    BY <2>1, CronAssumption DEF Account
<1> QED
  BY <1>2, <1>3 DEF CronIInv

LEMMA CronInvariance == CronSpec => []CronIInv
BY CronInitial, CronInvariantStep, PTL DEF CronSpec

\* An error of AgentCore never makes Lambda run the prompt again: each further
\* run is one botocore repeated or that of an attempt that died, or that got no
\* token (cron/index.py:86-110, 133-140).
THEOREM PromptRunsAreAccounted == CronSpec => []RunsAreAccounted
<1>1. CronIInv => RunsAreAccounted
  BY DEF CronIInv, Account, RunsAreAccounted
<1> QED
  BY <1>1, CronInvariance, PTL

\* The chat hears of a firing again only after an attempt died, and of no run
\* twice (cron/index.py:142-159).
THEOREM ToldOncePerAttempt == CronSpec => []ToldAgainOnlyAfterDeath
<1>1. CronIInv => ToldAgainOnlyAfterDeath
  BY DEF CronIInv, Account, ToldAgainOnlyAfterDeath
<1> QED
  BY <1>1, CronInvariance, PTL

\* Both together: what a firing does twice is owed to a failure.
THEOREM FiringsAreAccounted == CronSpec => []FiringIsAccounted
  BY PromptRunsAreAccounted, ToldOncePerAttempt, PTL DEF FiringIsAccounted

-----------------------------------------------------------------------------
(* TokenMetrics.                                                            *)

\* What a collection has found out about the day it began in, whichever day it
\* is now.
MetricsIInv ==
  /\ MetricsTypeOK /\ plain + ofUsers <= MaxTotal
  /\ alarm # "none" => collect = "idle"
  /\ ~rolled => last = 0
  /\ collect = "started" => floor <= last + plain
  /\ rolled /\ collect = "started" => floor <= last
  /\ collect = "summed" /\ ~rolled => sum <= plain
  /\ collect = "summed" /\ ~blind => floor <= sum
  /\ AlarmMeansOverBudget
  /\ NoOverrunMissed

LEMMA MetricsInvariantStep ==
  ASSUME MetricsIInv, [MetricsNext]_metricVars
  PROVE  MetricsIInv'
<1>1. /\ plain \in 0..MaxTotal /\ ofUsers \in 0..MaxTotal /\ last \in 0..MaxTotal
      /\ floor \in 0..MaxTotal /\ sum \in 0..(2 * MaxTotal)
      /\ MaxTotal \in Nat /\ Budget \in Nat /\ MaxUse \in Nat
      /\ collect \in {"idle", "started", "summed"} /\ blind \in BOOLEAN /\ rolled \in BOOLEAN
      /\ alarm \in {"none", "quiet", "raised", "lost"}
  BY TokenMetricsAssumption DEF MetricsIInv, MetricsTypeOK
<1>2. CASE ReportUsage
  BY <1>1, <1>2 DEF ReportUsage, MetricsIInv, MetricsTypeOK, AlarmMeansOverBudget, NoOverrunMissed
<1>3. CASE CollectionStarts
  <2>1. /\ UNCHANGED <<plain, ofUsers, sum, blind>> /\ collect' = "started" /\ floor' = plain
        /\ last' = 0 /\ alarm' = "none"
    BY <1>3 DEF CollectionStarts
  <2>2. rolled' \in BOOLEAN /\ ~rolled'
    BY <1>3 DEF CollectionStarts
  <2>3. MetricsTypeOK' /\ plain' + ofUsers' <= MaxTotal
    BY <1>1, <2>1, <2>2 DEF MetricsIInv, MetricsTypeOK
  <2> QED
    BY <1>1, <2>1, <2>2, <2>3 DEF MetricsIInv, AlarmMeansOverBudget, NoOverrunMissed
<1>4. CASE ReadSum
  <2>1. /\ UNCHANGED <<plain, ofUsers, floor, alarm, last, rolled>>
        /\ collect = "started" /\ collect' = "summed"
    BY <1>4 DEF ReadSum
  <2>2. \/ sum' = last + plain /\ blind' \in BOOLEAN /\ ~blind'
        \/ sum' = 0 /\ blind' \in BOOLEAN /\ blind'
    BY <1>4 DEF ReadSum, MetricSum
  <2>3. MetricsTypeOK'
    BY <1>1, <2>1, <2>2 DEF MetricsIInv, MetricsTypeOK
  <2>4. CASE sum' = last + plain
    BY <1>1, <2>1, <2>3, <2>4 DEF MetricsIInv, AlarmMeansOverBudget, NoOverrunMissed
  <2>5. CASE sum' = 0 /\ blind'
    BY <1>1, <2>1, <2>3, <2>5 DEF MetricsIInv, AlarmMeansOverBudget, NoOverrunMissed
  <2> QED
    BY <2>2, <2>4, <2>5
<1>5. CASE Evaluate
  BY <1>1, <1>5
  DEF Evaluate, SendAlarm, ExceedsBudget, MetricsIInv, MetricsTypeOK, AlarmMeansOverBudget,
      NoOverrunMissed
<1>6. CASE Midnight
  BY <1>1, <1>6 DEF Midnight, MetricsIInv, MetricsTypeOK, AlarmMeansOverBudget, NoOverrunMissed
<1>7. CASE UNCHANGED metricVars
  BY <1>7 DEF metricVars, MetricsIInv, MetricsTypeOK, AlarmMeansOverBudget, NoOverrunMissed
<1> QED
  BY <1>2, <1>3, <1>4, <1>5, <1>6, <1>7 DEF MetricsNext

LEMMA MetricsInitial == MetricsInit => MetricsIInv
<1> SUFFICES ASSUME MetricsInit PROVE MetricsIInv
  OBVIOUS
<1>1. /\ plain = 0 /\ ofUsers = 0 /\ collect = "idle" /\ floor = 0 /\ sum = 0
      /\ alarm = "none" /\ last = 0
  BY DEF MetricsInit
<1>2. blind \in BOOLEAN /\ rolled \in BOOLEAN /\ ~blind /\ ~rolled
  BY DEF MetricsInit
<1>3. MetricsTypeOK
  BY <1>1, <1>2, TokenMetricsAssumption DEF MetricsTypeOK
<1> QED
  BY <1>1, <1>2, <1>3, TokenMetricsAssumption
  DEF MetricsIInv, AlarmMeansOverBudget, NoOverrunMissed

LEMMA MetricsInvariance == MetricsSpec => []MetricsIInv
BY MetricsInitial, MetricsInvariantStep, PTL DEF MetricsSpec

\* The alarm is right about its day unless midnight passed since the collection
\* began, for any budget (token_metrics/index.py:48, 68, 150).
THEOREM AlarmIsRight == MetricsSpec => []AlarmMeansOverBudget
<1>1. MetricsIInv => AlarmMeansOverBudget
  BY DEF MetricsIInv
<1> QED
  BY <1>1, MetricsInvariance, PTL

\* No usage published before a collection began escapes it, whatever the clock
\* does meanwhile, if CloudWatch answers (token_metrics/index.py:148-167).
THEOREM OverrunsAreSeen == MetricsSpec => []NoOverrunMissed
<1>1. MetricsIInv => NoOverrunMissed
  BY DEF MetricsIInv
<1> QED
  BY <1>1, MetricsInvariance, PTL

\* Both together: the alarm is raised when it must be, and only then.
THEOREM AlarmsAreTrue == MetricsSpec => []AlarmIsTrue
  BY AlarmIsRight, OverrunsAreSeen, PTL DEF AlarmIsTrue

-----------------------------------------------------------------------------
(* SignIn.                                                                  *)

\* The verifier and the state are of the same click; a code in the address, and
\* an authorization the page leaves for, are of a click that is over: so an
\* error of a click that found no configuration makes the address a stranger.
\* Without tokens nothing is asked any more: what is under way was so when they
\* went.
SignInIInv ==
  /\ SignInTypeOK
  /\ verifier \in {0, expected}
  /\ query # 0 => click[query] = "done"
  /\ leaving # 0 => click[leaving] = "done"
  /\ starting = "config" => (shown = "signed_out" /\ asking = 0) \/ query # expected
  /\ tokens \/ asking <= outlived
  /\ OwnVerifier
  /\ NoSignOutDuringExchange
  /\ ReadyHasTokens

LEMMA SignInTypes ==
  ASSUME SignInIInv
  PROVE  /\ tokens \in BOOLEAN /\ verifier \in 0..MaxSignIns /\ expected \in 0..MaxSignIns
         /\ query \in 0..MaxSignIns /\ leaving \in 0..MaxSignIns /\ proof \in 0..MaxSignIns
         /\ loads \in 1..MaxLoads
         /\ click \in [SignIns -> {"none", "digest", "done"}]
         /\ code \in [SignIns -> {"none", "issued", "used"}]
         /\ asking \in Nat /\ outlived \in Nat /\ asking <= MaxAsks /\ outlived <= MaxAsks
         /\ MaxLoads \in Nat /\ MaxSignIns \in Nat /\ MaxAsks \in Nat
         /\ \A k \in 0..MaxSignIns : k # 0 => k \in SignIns
BY SignInAssumption DEF SignInIInv, SignInTypeOK, SignIns

\* A load keeps what is stored and finishes every click.
LEMMA LoadedKeeps ==
  ASSUME SignInIInv, NEW u \in 0..MaxSignIns, Loaded(u), UNCHANGED storageVars,
         code' \in [SignIns -> {"none", "issued", "used"}],
         u # 0 => click[u] = "done"
  PROVE  SignInIInv'
<1>1. /\ loads' \in 1..MaxLoads /\ starting' = "config" /\ query' = u /\ shown' = "signed_out"
      /\ leaving' = 0 /\ proof' = 0 /\ UNCHANGED <<tokens, verifier, expected>>
      /\ asking' = 0 /\ outlived' = 0
  BY SignInTypes DEF Loaded, storageVars
<1>2. /\ click' \in [SignIns -> {"none", "digest", "done"}]
      /\ \A k \in SignIns : click[k] = "done" => click'[k] = "done"
  BY SignInTypes DEF Loaded
<1>3. u # 0 => click'[u] = "done"
  BY <1>2, SignInTypes
<1> QED
  BY <1>1, <1>2, <1>3, SignInTypes
  DEF SignInIInv, SignInTypeOK, OwnVerifier, NoSignOutDuringExchange, ReadyHasTokens

LEMMA SignInInvariantStep ==
  ASSUME SignInIInv, [SignInNext]_signInVars
  PROVE  SignInIInv'
<1>1. CASE Reload
  <2>1. PICK u \in {query, 0} : Loaded(u)
    BY <1>1 DEF Reload
  <2>2. u \in 0..MaxSignIns /\ (u # 0 => click[u] = "done")
    BY <2>1, SignInTypes DEF SignInIInv
  <2>3. UNCHANGED storageVars /\ code' \in [SignIns -> {"none", "issued", "used"}]
    BY <1>1, SignInTypes DEF Reload
  <2> QED
    BY <2>1, <2>2, <2>3, LoadedKeeps
<1>2. CASE Redirect
  <2>1. leaving # 0 /\ click[leaving] = "done"
    BY <1>2 DEF Redirect, SignInIInv, SignInTypeOK
  <2>2. PICK u \in {leaving, 0} : Loaded(u)
    BY <1>2 DEF Redirect
  <2>3. u \in 0..MaxSignIns /\ (u # 0 => click[u] = "done")
    BY <2>1, <2>2, SignInTypes
  <2>4. UNCHANGED storageVars /\ code' \in [SignIns -> {"none", "issued", "used"}]
    BY <1>2, SignInTypes DEF Redirect
  <2> QED
    BY <2>2, <2>3, <2>4, LoadedKeeps
<1>3. ASSUME NEW k \in SignIns, Click(k) PROVE SignInIInv'
  <2>1. /\ UNCHANGED <<storageVars, loads, starting, query, shown, leaving, proof, code, askVars>>
        /\ click' = [click EXCEPT ![k] = "digest"] /\ click[k] = "none"
    <3>1. k >= k
      BY SignInAssumption DEF SignIns
    <3> QED
      BY <1>3, <3>1 DEF Click
  <2>2. /\ click' \in [SignIns -> {"none", "digest", "done"}]
        /\ \A j \in SignIns : click[j] = "done" => click'[j] = "done"
    BY <2>1, SignInTypes
  <2>3. (query # 0 => click'[query] = "done") /\ (leaving # 0 => click'[leaving] = "done")
    BY <2>2, SignInTypes DEF SignInIInv
  <2> QED
    BY <2>1, <2>2, <2>3
    DEF SignInIInv, SignInTypeOK, OwnVerifier, NoSignOutDuringExchange, ReadyHasTokens,
        storageVars, askVars
<1>4. ASSUME NEW k \in SignIns, Digest(k) PROVE SignInIInv'
  <2>1. /\ UNCHANGED <<tokens, loads, starting, query, proof, code, askVars>>
        /\ click' = [click EXCEPT ![k] = "done"] /\ click[k] = "digest" /\ starting # "away"
        /\ verifier' = k /\ expected' = k
        /\ \/ Configured /\ leaving' = k /\ shown' = shown
           \/ ~Configured /\ shown' = "error" /\ leaving' = leaving
    BY <1>4 DEF Digest, StorePair
  <2>2. /\ click' \in [SignIns -> {"none", "digest", "done"}] /\ click'[k] = "done"
        /\ \A j \in SignIns : click[j] = "done" => click'[j] = "done"
    BY <2>1, SignInTypes
  <2>3. (query # 0 => click'[query] = "done") /\ (leaving' # 0 => click'[leaving'] = "done")
    BY <2>1, <2>2, SignInTypes DEF SignInIInv
  <2>4. query # k /\ k \in 0..MaxSignIns /\ k # 0
    <3>1. k \in 0..MaxSignIns /\ k # 0
      BY SignInTypes DEF SignIns
    <3> QED
      BY <2>1, <3>1 DEF SignInIInv
  <2> QED
    BY <2>1, <2>2, <2>3, <2>4
    DEF SignInIInv, SignInTypeOK, OwnVerifier, NoSignOutDuringExchange, ReadyHasTokens,
        Configured, askVars
<1>5. CASE Navigate
  <2>1. /\ UNCHANGED <<storageVars, loads, query, shown, leaving, proof, code, askVars>>
        /\ starting' = "away" /\ leaving # 0
        /\ click' = [k \in SignIns |-> IF click[k] = "digest" THEN "done" ELSE click[k]]
    BY <1>5 DEF Navigate
  <2>2. /\ click' \in [SignIns -> {"none", "digest", "done"}]
        /\ \A k \in SignIns : click[k] = "done" => click'[k] = "done"
    BY <2>1, SignInTypes
  <2>3. (query # 0 => click'[query] = "done") /\ (leaving # 0 => click'[leaving] = "done")
    BY <2>2, SignInTypes DEF SignInIInv
  <2> QED
    BY <2>1, <2>2, <2>3
    DEF SignInIInv, SignInTypeOK, OwnVerifier, NoSignOutDuringExchange, ReadyHasTokens,
        storageVars, askVars
<1>6. CASE GotConfig
  <2>1. UNCHANGED <<storageVars, loads, query, click, leaving, code, askVars>>
        /\ starting = "config"
    BY <1>6 DEF GotConfig
  <2>2. CASE query = 0 /\ starting' = "done" /\ shown' = (IF tokens THEN "ready" ELSE "signed_out")
             /\ UNCHANGED proof
    BY <2>1, <2>2
    DEF SignInIInv, SignInTypeOK, OwnVerifier, NoSignOutDuringExchange, ReadyHasTokens,
        storageVars, askVars
  <2>3. CASE query # 0 /\ ExpectedReturn /\ starting' = "exchanging" /\ proof' = verifier
             /\ UNCHANGED shown
    BY <2>1, <2>3, SignInTypes
    DEF SignInIInv, SignInTypeOK, OwnVerifier, NoSignOutDuringExchange, ReadyHasTokens, storageVars,
        ExpectedReturn, askVars
  <2>4. CASE query # 0 /\ ~ExpectedReturn /\ starting' = "done" /\ shown' = "error"
             /\ UNCHANGED proof
    BY <2>1, <2>4
    DEF SignInIInv, SignInTypeOK, OwnVerifier, NoSignOutDuringExchange, ReadyHasTokens,
        storageVars, askVars
  <2> QED
    BY <1>6, <2>2, <2>3, <2>4 DEF GotConfig
<1>7. CASE NoConfig \/ Refused
  BY <1>7
  DEF NoConfig, Refused, SignInIInv, SignInTypeOK, OwnVerifier, NoSignOutDuringExchange,
      ReadyHasTokens, storageVars, askVars
<1>8. CASE Redeem
  <2>1. /\ UNCHANGED <<storageVars, loads, query, shown, click, leaving, proof, askVars>>
        /\ starting = "exchanging" /\ starting' \in {"granted", "refused"}
    BY <1>8 DEF Redeem
  <2>2. code' \in [SignIns -> {"none", "issued", "used"}]
    BY <1>8, SignInTypes DEF Redeem
  <2> QED
    BY <2>1, <2>2
    DEF SignInIInv, SignInTypeOK, OwnVerifier, NoSignOutDuringExchange, ReadyHasTokens,
        storageVars, askVars
<1>9. CASE Exchanged
  BY <1>9, SignInTypes
  DEF Exchanged, SignInIInv, SignInTypeOK, OwnVerifier, NoSignOutDuringExchange, ReadyHasTokens,
      askVars
<1>10. CASE SignOutOfAll \/ AnswerExpired
  <2>1. /\ UNCHANGED <<expected, loads, starting, query, click, leaving, proof, code>>
        /\ starting # "away" /\ verifier' = 0 /\ shown' = "signed_out" /\ tokens' = FALSE
    BY <1>10 DEF SignOutOfAll, AnswerExpired, ClearTokens
  <2>2. /\ asking' \in 0..MaxAsks /\ outlived' = asking'
        /\ asking = 0 => asking' = 0
    BY <1>10, SignInTypes DEF SignOutOfAll, AnswerExpired
  <2>3. outlived' \in 0..MaxAsks /\ tokens' \in BOOLEAN /\ verifier' \in 0..MaxSignIns
    <3>1. outlived' \in 0..MaxAsks
      BY <2>2
    <3>2. tokens' \in BOOLEAN
      BY <2>1
    <3>3. 0 \in 0..MaxSignIns
      BY SignInTypes
    <3> QED
      BY <2>1, <3>1, <3>2, <3>3
  <2>4. SignInTypeOK'
    BY <2>1, <2>2, <2>3 DEF SignInIInv, SignInTypeOK
  <2> QED
    BY <2>1, <2>2, <2>4, SignInTypes DEF SignInIInv, OwnVerifier, NoSignOutDuringExchange,
        ReadyHasTokens
<1>11. CASE Say \/ AnswerEnds
  <2>1. /\ UNCHANGED <<tokens, verifier, expected, loads, starting, query, click, leaving, proof,
                       code, outlived>>
        /\ starting # "away" /\ shown' \in {"signed_out", "ready", "busy", "error"}
    BY <1>11 DEF Say, AnswerEnds, storageVars, SignInIInv, SignInTypeOK
  <2>2. asking' \in 0..MaxAsks
    BY <1>11, SignInTypes DEF Say, AnswerEnds
  <2>3. SignInTypeOK'
    BY <2>1, <2>2 DEF SignInIInv, SignInTypeOK
  <2>4. ~(shown = "signed_out" /\ asking = 0)
    BY <1>11, SignInTypes DEF Say, AnswerEnds
  <2>5. ~tokens => asking' <= asking
    BY <1>11, SignInTypes DEF Say, AnswerEnds
  <2>6. tokens' \/ asking' <= outlived'
    BY <2>1, <2>2, <2>5, SignInTypes DEF SignInIInv
  <2>7. ~tokens /\ shown' = "ready" => asking' < outlived'
    BY <1>11, <2>1, SignInTypes DEF Say, AnswerEnds, SignInIInv, ReadyHasTokens
  <2> QED
    BY <2>1, <2>3, <2>4, <2>6, <2>7 DEF SignInIInv, OwnVerifier, NoSignOutDuringExchange,
       ReadyHasTokens
<1>12. CASE UNCHANGED signInVars
  BY <1>12
  DEF signInVars, SignInIInv, SignInTypeOK, OwnVerifier, NoSignOutDuringExchange, ReadyHasTokens
<1> QED
  BY <1>1, <1>2, <1>3, <1>4, <1>5, <1>6, <1>7, <1>8, <1>9, <1>10, <1>11, <1>12 DEF SignInNext

LEMMA SignInInitial == SignInInit => SignInIInv
<1> SUFFICES ASSUME SignInInit PROVE SignInIInv
  OBVIOUS
<1>1. /\ verifier = 0 /\ expected = 0 /\ loads = 1 /\ starting = "config" /\ query = 0
      /\ shown = "signed_out" /\ leaving = 0 /\ proof = 0 /\ asking = 0 /\ outlived = 0
  BY DEF SignInInit
<1>2. /\ tokens \in BOOLEAN /\ click \in [SignIns -> {"none", "digest", "done"}]
      /\ code \in [SignIns -> {"none", "issued", "used"}]
  BY DEF SignInInit
<1>3. SignInTypeOK
  BY <1>1, <1>2, SignInAssumption DEF SignInTypeOK
<1> QED
  BY <1>1, <1>3 DEF SignInIInv, OwnVerifier, NoSignOutDuringExchange, ReadyHasTokens

LEMMA SignInInvariance == SignInSpec => []SignInIInv
BY SignInInitial, SignInInvariantStep, PTL DEF SignInSpec

\* A code is exchanged with its own verifier, whatever was clicked and reloaded
\* before (app.mjs, completeSignIn).
THEOREM VerifierIsOwn == SignInSpec => []OwnVerifier
<1>1. SignInIInv => OwnVerifier
  BY DEF SignInIInv
<1> QED
  BY <1>1, SignInInvariance, PTL

\* No exchange signs a user in who signed out meanwhile (app.mjs, signIn).
THEOREM ExchangeOffersNoSignOut == SignInSpec => []NoSignOutDuringExchange
<1>1. SignInIInv => NoSignOutDuringExchange
  BY DEF SignInIInv
<1> QED
  BY <1>1, SignInInvariance, PTL

\* The page is ready without tokens only through an answer that was under way
\* when they went (app.mjs, web/src/state.mjs).
THEOREM ReadyIsSignedIn == SignInSpec => []ReadyHasTokens
<1>1. SignInIInv => ReadyHasTokens
  BY DEF SignInIInv
<1> QED
  BY <1>1, SignInInvariance, PTL

\* The three together.
THEOREM SignInIsRight == SignInSpec => []SignInHolds
  BY VerifierIsOwn, ExchangeOffersNoSignOut, ReadyIsSignedIn, PTL DEF SignInHolds

-----------------------------------------------------------------------------
(* Webhook.                                                                 *)

Requests == [platform : Platforms \union {"follow-up", "health"},
             actor : Actors \union {"none"}, kind : Kinds, signed : Nat]

\* What was found out about the request of k: its actor was listed when it is
\* listed now, or when it is served and not everybody is; and it is signed when
\* it is judged.
Admission(k) ==
  /\ phase[k] # "free" => serving[k].actor \in Actors
  /\ phase[k] # "free" /\ serving[k].actor \in allowed => ~gated \/ listed[k]
  /\ phase[k] \in Working => ~gated \/ listed[k]
  /\ phase[k] \in Judging /\ serving[k].platform \in Signing =>
       serving[k].signed # 0 /\ serving[k].signed = cache[k]

\* Nothing is left to a follow-up for a sender that was never listed, unless
\* everybody is allowed.
DeferredWereListed == \A d \in deferred : ~gated \/ d[2]

WebhookIInv ==
  /\ WebhookTypeOK
  /\ serving \in [Containers -> Requests]
  /\ \A k \in Containers : Admission(k)
  /\ DeferredWereListed
  /\ IdentityIsComplete

\* The parts of it that are functions on the containers.
LEMMA ContainerTypes ==
  ASSUME WebhookIInv
  PROVE  /\ phase \in [Containers -> Phases] /\ serving \in [Containers -> Requests]
         /\ listed \in [Containers -> BOOLEAN] /\ cache \in [Containers -> 0..MaxVersions]
         /\ current \in Nat /\ current # 0 /\ current <= MaxVersions
BY WebhookAssumption DEF WebhookIInv, WebhookTypeOK, Versions

LEMMA PhaseNames ==
  /\ {"free", "verify", "check", "lookup", "put channel", "put user", "turn"} = Phases
  /\ Working = {"lookup", "put channel", "put user", "turn"}
  /\ Judging = {"lookup", "put channel", "put user", "turn", "check"}
  /\ Signing = {"slack", "discord"}
BY DEF Phases, Working, Judging, Signing

-----------------------------------------------------------------------------
(* Steps of one container.                                                  *)

ContainerStep(k) ==
  Arrive(k) \/ FollowUp(k) \/ Verify(k) \/ Check(k) \/ Lookup(k) \/ PutFails(k)
    \/ PutChannel(k) \/ PutUser(k) \/ TurnEnds(k) \/ Recycle(k)

\* What k does leaves the other containers alone.
Local(k) ==
  /\ phase' \in [Containers -> Phases] /\ serving' \in [Containers -> Requests]
  /\ listed' \in [Containers -> BOOLEAN] /\ cache' \in [Containers -> 0..MaxVersions]
  /\ \A j \in Containers \ {k} :
       /\ phase'[j] = phase[j] /\ serving'[j] = serving[j]
       /\ listed'[j] = listed[j] /\ cache'[j] = cache[j]

LEMMA NoRequestIsRequest == NoRequest \in Requests
BY DEF NoRequest, Requests, Platforms, Kinds

\* A handler that goes on, or is over.
LEMMA ProceedFacts ==
  ASSUME phase \in [Containers -> Phases], serving \in [Containers -> Requests],
         listed \in [Containers -> BOOLEAN], NEW k \in Containers,
         NEW p \in Phases, Proceed(k, p)
  PROVE  /\ phase' \in [Containers -> Phases] /\ serving' \in [Containers -> Requests]
         /\ listed' \in [Containers -> BOOLEAN]
         /\ \A j \in Containers \ {k} :
              phase'[j] = phase[j] /\ serving'[j] = serving[j] /\ listed'[j] = listed[j]
         /\ phase'[k] = p
         /\ p # "free" => serving' = serving /\ listed' = listed
<1>1. phase' \in [Containers -> Phases] /\ phase'[k] = p
      /\ \A j \in Containers \ {k} : phase'[j] = phase[j]
  BY DEF Proceed
<1>2. serving' \in [Containers -> Requests] /\ \A j \in Containers \ {k} : serving'[j] = serving[j]
  BY NoRequestIsRequest DEF Proceed
<1>3. listed' \in [Containers -> BOOLEAN] /\ \A j \in Containers \ {k} : listed'[j] = listed[j]
  BY DEF Proceed
<1>4. p # "free" => serving' = serving /\ listed' = listed
  BY DEF Proceed
<1> QED
  BY <1>1, <1>2, <1>3, <1>4

\* A request that comes is not judged yet, or needs no signature.
LEMMA ArriveStep ==
  ASSUME WebhookIInv, NEW k \in Containers, Arrive(k), UNCHANGED gated
  PROVE  Local(k) /\ Admission(k)'
<1>1. PICK p \in Platforms, a \in Actors, t \in Kinds, v \in 0..current :
        LET q == [platform |-> p, actor |-> a, kind |-> t, signed |-> v] IN
        /\ p \in Signing \/ v = 0
        /\ Route(q) # "free"
        /\ serving' = [serving EXCEPT ![k] = q]
        /\ phase' = [phase EXCEPT ![k] = Route(q)]
        /\ listed' = [listed EXCEPT ![k] = a \in allowed]
  BY DEF Arrive
<1> DEFINE q == [platform |-> p, actor |-> a, kind |-> t, signed |-> v]
<1>2. q \in Requests /\ q.platform = p /\ q.actor = a
  BY ContainerTypes DEF Requests
<1>3. Route(q) \in {"verify", "check"} /\ (p \in Signing => Route(q) = "verify")
  BY <1>1, <1>2, PhaseNames DEF Route
<1>4. cache' = cache /\ allowed' = allowed
  BY DEF Arrive
<1>5. serving' = [serving EXCEPT ![k] = q] /\ phase' = [phase EXCEPT ![k] = Route(q)]
  BY <1>1
<1> HIDE DEF q
<1>6. serving' \in [Containers -> Requests] /\ \A j \in Containers \ {k} : serving'[j] = serving[j]
  BY <1>2, <1>5, ContainerTypes
<1>7. phase' \in [Containers -> Phases] /\ \A j \in Containers \ {k} : phase'[j] = phase[j]
  BY <1>3, <1>5, ContainerTypes, PhaseNames
<1>8. listed' \in [Containers -> BOOLEAN] /\ \A j \in Containers \ {k} : listed'[j] = listed[j]
  BY <1>1, ContainerTypes
<1>9. Local(k)
  BY <1>4, <1>6, <1>7, <1>8, ContainerTypes DEF Local
<1>10. phase'[k] = Route(q) /\ serving'[k] = q /\ listed'[k] = (a \in allowed)
  BY <1>1, ContainerTypes DEF q
<1>11. phase'[k] \notin Working /\ (phase'[k] \in Judging => p \notin Signing)
  BY <1>3, <1>10, PhaseNames
<1> QED
  BY <1>2, <1>4, <1>9, <1>10, <1>11 DEF Admission

\* A signature is compared with the version the container then holds.
LEMMA VerifyStep ==
  ASSUME WebhookIInv, NEW k \in Containers, Verify(k), UNCHANGED gated
  PROVE  Local(k) /\ Admission(k)'
<1>0. phase[k] = "verify" /\ allowed' = allowed /\ Admission(k)
  BY DEF Verify, WebhookIInv
<1>1. CASE cache[k] = 0 /\ Proceed(k, "free") /\ UNCHANGED cache
  <2>1. Local(k) /\ phase'[k] = "free"
    BY <1>1, ContainerTypes, ProceedFacts, PhaseNames DEF Local
  <2> QED
    BY <2>1, PhaseNames DEF Admission
<1>2. ASSUME ~(cache[k] = 0 /\ Proceed(k, "free") /\ UNCHANGED cache)
      PROVE  Local(k) /\ Admission(k)'
  <2> DEFINE version == IF cache[k] = 0 THEN current ELSE cache[k]
             to == IF Verified(k, version) /\ serving[k].kind = "message" THEN "check" ELSE "free"
  <2>1. cache' = [cache EXCEPT ![k] = version] /\ Proceed(k, to)
    BY <1>2 DEF Verify
  <2>2. version \in 0..MaxVersions /\ version # 0
    <3>1. current \in Nat /\ current # 0 /\ current <= MaxVersions /\ cache[k] \in 0..MaxVersions
      BY ContainerTypes
    <3> QED
      BY <3>1, WebhookAssumption
  <2>3. to \in {"check", "free"} /\ to \in Phases
        /\ (to = "check" => serving[k].signed = version)
    BY PhaseNames DEF Verified
  <2> HIDE DEF version, to
  <2>4. /\ phase' \in [Containers -> Phases] /\ serving' \in [Containers -> Requests]
        /\ listed' \in [Containers -> BOOLEAN]
        /\ \A j \in Containers \ {k} :
             phase'[j] = phase[j] /\ serving'[j] = serving[j] /\ listed'[j] = listed[j]
        /\ phase'[k] = to
        /\ to # "free" => serving' = serving /\ listed' = listed
    BY <2>1, <2>3, ContainerTypes, ProceedFacts
  <2>5. cache' \in [Containers -> 0..MaxVersions] /\ cache'[k] = version
        /\ \A j \in Containers \ {k} : cache'[j] = cache[j]
    BY <2>1, <2>2, ContainerTypes
  <2>6. Admission(k)'
    BY <1>0, <2>2, <2>3, <2>4, <2>5, PhaseNames DEF Admission
  <2> QED
    BY <2>4, <2>5, <2>6 DEF Local
<1> QED
  BY <1>1, <1>2

\* Only a listed sender passes the allowlist, or leaves a follow-up.
LEMMA CheckStep ==
  ASSUME WebhookIInv, NEW k \in Containers, Check(k), UNCHANGED gated
  PROVE  Local(k) /\ Admission(k)' /\ DeferredWereListed' /\ deferred' \subseteq Actors \X BOOLEAN
<1>0. /\ phase[k] = "check" /\ allowed' = allowed /\ cache' = cache /\ Admission(k)
      /\ DeferredWereListed /\ deferred \subseteq Actors \X BOOLEAN /\ listed[k] \in BOOLEAN
  BY ContainerTypes DEF Check, WebhookIInv, WebhookTypeOK
<1>1. PICK yes \in IsAllowed(k) :
        IF yes /\ serving[k].platform = "discord"
        THEN /\ Proceed(k, "free")
             /\ deferred' \in {deferred, deferred \union {<<serving[k].actor, listed[k]>>}}
        ELSE Proceed(k, IF yes THEN "lookup" ELSE "free") /\ UNCHANGED deferred
  BY DEF Check
<1>2. serving[k].actor \in Actors /\ (yes => ~gated \/ listed[k])
  BY <1>0, PhaseNames DEF IsAllowed, Admission
<1>3. CASE yes /\ serving[k].platform = "discord"
  <2>1. Proceed(k, "free") /\ "free" \in Phases
    BY <1>1, <1>3, PhaseNames
  <2>2. Local(k) /\ phase'[k] = "free"
    BY <1>0, <2>1, ContainerTypes, ProceedFacts DEF Local
  <2>3. deferred' \subseteq deferred \union {<<serving[k].actor, listed[k]>>}
    BY <1>1, <1>3
  <2>4. DeferredWereListed' /\ deferred' \subseteq Actors \X BOOLEAN
    BY <1>0, <1>2, <1>3, <2>3 DEF DeferredWereListed
  <2> QED
    BY <2>2, <2>4, PhaseNames DEF Admission
<1>4. CASE ~(yes /\ serving[k].platform = "discord")
  <2> DEFINE to == IF yes THEN "lookup" ELSE "free"
  <2>1. Proceed(k, to) /\ deferred' = deferred
    BY <1>1, <1>4
  <2>2. to \in {"lookup", "free"} /\ to \in Phases /\ (to = "lookup" => yes)
    BY PhaseNames
  <2> HIDE DEF to
  <2>3. /\ phase' \in [Containers -> Phases] /\ serving' \in [Containers -> Requests]
        /\ listed' \in [Containers -> BOOLEAN]
        /\ \A j \in Containers \ {k} :
             phase'[j] = phase[j] /\ serving'[j] = serving[j] /\ listed'[j] = listed[j]
        /\ phase'[k] = to
        /\ to # "free" => serving' = serving /\ listed' = listed
    BY <2>1, <2>2, ContainerTypes, ProceedFacts
  <2>4. Admission(k)'
    BY <1>0, <1>2, <2>2, <2>3, PhaseNames DEF Admission
  <2>5. Local(k)
    BY <1>0, <2>3, ContainerTypes DEF Local
  <2> QED
    BY <1>0, <2>1, <2>4, <2>5 DEF DeferredWereListed
<1> QED
  BY <1>3, <1>4

\* A follow-up is what a listed sender left.
LEMMA FollowUpStep ==
  ASSUME WebhookIInv, NEW k \in Containers, FollowUp(k), UNCHANGED gated
  PROVE  Local(k) /\ Admission(k)' /\ DeferredWereListed' /\ deferred' \subseteq Actors \X BOOLEAN
<1>0. /\ allowed' = allowed /\ cache' = cache /\ phase' = [phase EXCEPT ![k] = "lookup"]
      /\ DeferredWereListed /\ deferred \subseteq Actors \X BOOLEAN
  BY DEF FollowUp, WebhookIInv, WebhookTypeOK
<1>1. PICK d \in deferred :
       /\ serving' = [serving EXCEPT ![k] =
            [platform |-> "follow-up", actor |-> d[1], kind |-> "message", signed |-> 0]]
       /\ listed' = [listed EXCEPT ![k] = d[2]]
       /\ deferred' \in {deferred, deferred \ {d}}
  BY DEF FollowUp
<1> DEFINE q == [platform |-> "follow-up", actor |-> d[1], kind |-> "message", signed |-> 0]
<1>2. d[1] \in Actors /\ d[2] \in BOOLEAN /\ (~gated \/ d[2])
  BY <1>0, <1>1 DEF DeferredWereListed
<1>3. q \in Requests /\ q.platform = "follow-up" /\ q.actor = d[1]
  BY <1>2 DEF Requests, Kinds
<1>4. serving' = [serving EXCEPT ![k] = q]
  BY <1>1
<1> HIDE DEF q
<1>5. serving' \in [Containers -> Requests] /\ \A j \in Containers \ {k} : serving'[j] = serving[j]
  BY <1>3, <1>4, ContainerTypes
<1>6. phase' \in [Containers -> Phases] /\ \A j \in Containers \ {k} : phase'[j] = phase[j]
  BY <1>0, ContainerTypes, PhaseNames
<1>7. listed' \in [Containers -> BOOLEAN] /\ \A j \in Containers \ {k} : listed'[j] = listed[j]
  BY <1>1, <1>2, ContainerTypes
<1>8. Local(k)
  BY <1>0, <1>5, <1>6, <1>7, ContainerTypes DEF Local
<1>9. phase'[k] = "lookup" /\ serving'[k] = q /\ listed'[k] = d[2] /\ gated' = gated
  BY <1>0, <1>1, <1>4, ContainerTypes
<1>10. Admission(k)'
  <2>1. ~gated' \/ listed'[k]
    BY <1>2, <1>9
  <2>2. serving'[k].actor \in Actors /\ serving'[k].platform \notin Signing
    BY <1>2, <1>3, <1>9, PhaseNames
  <2> QED
    BY <1>2, <1>9, <2>1, <2>2 DEF Admission
<1>11. DeferredWereListed' /\ deferred' \subseteq Actors \X BOOLEAN
  BY <1>0, <1>1 DEF DeferredWereListed
<1> QED
  BY <1>8, <1>10, <1>11

\* Behind the allowlist the request stays what it is until its handler is over.
LEMMA WorkingStep ==
  ASSUME WebhookIInv, NEW k \in Containers, UNCHANGED gated,
         Lookup(k) \/ PutFails(k) \/ PutChannel(k) \/ PutUser(k)
  PROVE  Local(k) /\ Admission(k)' /\ serving' = serving
<1>1. /\ serving' = serving /\ listed' = listed /\ cache' = cache /\ allowed' = allowed
      /\ phase[k] \in Working
      /\ \E p \in Working : phase' = [phase EXCEPT ![k] = p]
  BY PhaseNames DEF Lookup, PutFails, PutChannel, PutUser, Enter
<1>2. PICK p \in Working : phase' = [phase EXCEPT ![k] = p]
  BY <1>1
<1>3. phase'[k] = p /\ Local(k)
  BY <1>1, <1>2, ContainerTypes, PhaseNames DEF Local
<1>4. Admission(k)
  BY DEF WebhookIInv
<1> QED
  BY <1>1, <1>2, <1>3, <1>4, PhaseNames DEF Admission

\* A handler that is over, or whose container is replaced, serves nobody.
LEMMA FreeStep ==
  ASSUME WebhookIInv, NEW k \in Containers, TurnEnds(k) \/ Recycle(k)
  PROVE  Local(k) /\ Admission(k)' /\ phase'[k] = "free"
<1>1. Proceed(k, "free") /\ "free" \in Phases
  BY PhaseNames DEF TurnEnds, Recycle
<1>2. cache' \in [Containers -> 0..MaxVersions] /\ \A j \in Containers \ {k} : cache'[j] = cache[j]
  <2>1. 0 \in 0..MaxVersions
    BY WebhookAssumption
  <2>2. cache' = cache \/ cache' = [cache EXCEPT ![k] = 0]
    BY DEF TurnEnds, Recycle
  <2> QED
    BY <2>1, <2>2, ContainerTypes
<1>3. Local(k) /\ phase'[k] = "free"
  BY <1>1, <1>2, ContainerTypes, ProceedFacts DEF Local
<1> QED
  BY <1>3, PhaseNames DEF Admission

-----------------------------------------------------------------------------
(* The items of an identity.                                                *)

\* A container that is not writing the second item, before and after, and that
\* writes no first one.
LEMMA IdentityKept ==
  ASSUME IdentityIsComplete, NEW k \in Containers, Local(k),
         UNCHANGED channel, user \subseteq user', broken \subseteq broken',
         phase[k] = "put user" => serving[k].actor \in user' \union broken'
  PROVE  IdentityIsComplete'
<1>1. ASSUME NEW a \in channel' \ (user' \union broken')
      PROVE  \E j \in Containers : phase'[j] = "put user" /\ serving'[j].actor = a
  <2>1. PICK j \in Containers : phase[j] = "put user" /\ serving[j].actor = a
    BY <1>1 DEF IdentityIsComplete
  <2>2. j # k
    BY <1>1, <2>1
  <2> QED
    BY <2>1, <2>2 DEF Local
<1> QED
  BY <1>1 DEF IdentityIsComplete

LEMMA IdentityStep ==
  ASSUME WebhookIInv, NEW k \in Containers, ContainerStep(k), Local(k)
  PROVE  IdentityIsComplete'
<1>1. IdentityIsComplete
  BY DEF WebhookIInv
<1>2. CASE Arrive(k) \/ FollowUp(k) \/ Verify(k) \/ Check(k) \/ Lookup(k) \/ TurnEnds(k)
  <2>1. UNCHANGED <<channel, user, broken>> /\ phase[k] # "put user"
    BY <1>2 DEF Arrive, FollowUp, Verify, Check, Lookup, TurnEnds, Enter
  <2> QED
    BY <1>1, <2>1, IdentityKept
<1>3. CASE PutFails(k) \/ PutUser(k) \/ Recycle(k)
  <2>1. /\ channel' = channel /\ user \subseteq user' /\ broken \subseteq broken'
        /\ phase[k] = "put user" => serving[k].actor \in user' \union broken'
    BY <1>3 DEF PutFails, PutUser, Recycle, Enter
  <2> QED
    BY <1>1, <2>1, IdentityKept
<1>4. CASE PutChannel(k)
  <2>1. /\ phase[k] = "put channel" /\ phase'[k] = "put user" /\ serving' = serving
        /\ channel' = channel \union {serving[k].actor} /\ UNCHANGED <<user, broken>>
    BY <1>4, ContainerTypes DEF PutChannel, Enter
  <2>2. ASSUME NEW a \in channel' \ (user' \union broken')
        PROVE  \E j \in Containers : phase'[j] = "put user" /\ serving'[j].actor = a
    <3>1. CASE a = serving[k].actor
      BY <2>1, <3>1
    <3>2. CASE a # serving[k].actor
      <4>1. PICK j \in Containers : phase[j] = "put user" /\ serving[j].actor = a
        BY <1>1, <2>1, <2>2, <3>2 DEF IdentityIsComplete
      <4> QED
        BY <2>1, <4>1 DEF Local
    <3> QED
      BY <3>1, <3>2
  <2> QED
    BY <2>2 DEF IdentityIsComplete
<1> QED
  BY <1>2, <1>3, <1>4 DEF ContainerStep

-----------------------------------------------------------------------------
(* The invariant.                                                           *)

\* What a step of a container does to the tables.
LEMMA TableTypes ==
  ASSUME WebhookIInv, NEW k \in Containers, ContainerStep(k)
  PROVE  /\ current' = current /\ allowed' = allowed
         /\ channel' \subseteq Actors /\ user' \subseteq Actors /\ broken' \subseteq Actors
<1>1. channel \subseteq Actors /\ user \subseteq Actors /\ broken \subseteq Actors
  BY DEF WebhookIInv, WebhookTypeOK
<1>2. phase[k] \in {"put channel", "put user"} => serving[k].actor \in Actors
  BY DEF WebhookIInv, Admission
<1>3. CASE Arrive(k) \/ FollowUp(k) \/ Verify(k) \/ Check(k) \/ Lookup(k) \/ TurnEnds(k)
  BY <1>1, <1>3 DEF Arrive, FollowUp, Verify, Check, Lookup, TurnEnds
<1>4. CASE PutFails(k) \/ PutChannel(k) \/ PutUser(k) \/ Recycle(k)
  BY <1>1, <1>2, <1>4 DEF PutFails, PutChannel, PutUser, Recycle, Enter
<1> QED
  BY <1>3, <1>4 DEF ContainerStep

LEMMA WebhookInvariantStep ==
  ASSUME WebhookIInv, [WebhookNext]_webhookVars
  PROVE  WebhookIInv'
<1>1. ASSUME NEW k \in Containers, ContainerStep(k), UNCHANGED gated PROVE WebhookIInv'
  <2>1. gated \in BOOLEAN /\ DeferredWereListed /\ deferred \subseteq Actors \X BOOLEAN
        /\ gated' = gated /\ current \in Versions /\ allowed \subseteq Actors
    BY <1>1 DEF WebhookIInv, WebhookTypeOK
  <2>2. Local(k) /\ Admission(k)'
    BY <1>1, ArriveStep, VerifyStep, CheckStep, FollowUpStep, WorkingStep, FreeStep
    DEF ContainerStep
  <2>3. DeferredWereListed' /\ deferred' \subseteq Actors \X BOOLEAN
    <3>1. CASE Check(k) \/ FollowUp(k)
      BY <1>1, <3>1, CheckStep, FollowUpStep
    <3>2. CASE ~(Check(k) \/ FollowUp(k))
      <4>1. deferred' = deferred
        BY <1>1, <3>2
        DEF ContainerStep, Arrive, Verify, Lookup, PutFails, PutChannel, PutUser, TurnEnds, Recycle
      <4> QED
        BY <2>1, <4>1 DEF DeferredWereListed
    <3> QED
      BY <3>1, <3>2
  <2>4. /\ current' = current /\ allowed' = allowed
        /\ channel' \subseteq Actors /\ user' \subseteq Actors /\ broken' \subseteq Actors
    BY <1>1, TableTypes
  <2>5. ASSUME NEW j \in Containers PROVE Admission(j)'
    <3>1. CASE j = k
      BY <2>2, <3>1
    <3>2. CASE j # k
      <4>1. Admission(j) /\ UNCHANGED <<gated, allowed>>
            /\ phase'[j] = phase[j] /\ serving'[j] = serving[j]
            /\ listed'[j] = listed[j] /\ cache'[j] = cache[j]
        BY <1>1, <2>2, <2>4, <3>2 DEF WebhookIInv, Local
      <4> QED
        BY <4>1 DEF Admission
    <3> QED
      BY <3>1, <3>2
  <2>6. IdentityIsComplete'
    BY <1>1, <2>2, IdentityStep
  <2>7. WebhookTypeOK' /\ serving' \in [Containers -> Requests]
    BY <2>1, <2>2, <2>3, <2>4 DEF WebhookTypeOK, Local
  <2> QED
    BY <2>3, <2>5, <2>6, <2>7 DEF WebhookIInv
<1>2. CASE Rotate /\ UNCHANGED gated
  <2>1. current' \in Versions
    BY <1>2, ContainerTypes, WebhookAssumption DEF Rotate, Versions
  <2> QED
    BY <1>2, <2>1 DEF Rotate, WebhookIInv, WebhookTypeOK, Admission, DeferredWereListed,
                      IdentityIsComplete
<1>3. CASE Edit /\ UNCHANGED gated
  <2>1. UNCHANGED <<gated, current, cache, channel, user, serving, phase, broken, deferred>>
    BY <1>3 DEF Edit
  <2>2. PICK a \in Actors :
          \/ /\ a \notin allowed /\ allowed' = allowed \union {a}
             /\ listed' = [k \in Containers |-> listed[k] \/ serving[k].actor = a]
          \/ a \in allowed /\ allowed' = allowed \ {a} /\ UNCHANGED listed
    BY <1>3 DEF Edit
  <2>3. /\ listed' \in [Containers -> BOOLEAN] /\ allowed' \subseteq Actors
        /\ \A k \in Containers :
             /\ listed[k] => listed'[k]
             /\ serving[k].actor \in allowed' /\ serving[k].actor \notin allowed => listed'[k]
    BY <2>2, ContainerTypes DEF WebhookIInv, WebhookTypeOK
  <2>4. ASSUME NEW k \in Containers PROVE Admission(k)'
    <3>1. Admission(k)
      BY DEF WebhookIInv
    <3> QED
      BY <2>1, <2>3, <3>1 DEF Admission
  <2> QED
    BY <2>1, <2>3, <2>4 DEF WebhookIInv, WebhookTypeOK, DeferredWereListed, IdentityIsComplete
<1>4. CASE UNCHANGED webhookVars
  BY <1>4 DEF webhookVars, WebhookIInv, WebhookTypeOK, Admission, DeferredWereListed,
              IdentityIsComplete
<1> QED
  BY <1>1, <1>2, <1>3, <1>4 DEF WebhookNext, ContainerStep

LEMMA WebhookInitial == WebhookInit => WebhookIInv
<1> SUFFICES ASSUME WebhookInit PROVE WebhookIInv
  OBVIOUS
<1>1. 1 \in Versions /\ 0 \in 0..MaxVersions
  BY WebhookAssumption DEF Versions
<1>2. WebhookTypeOK /\ serving \in [Containers -> Requests]
  BY <1>1, NoRequestIsRequest, PhaseNames DEF WebhookInit, WebhookTypeOK
<1>3. \A k \in Containers : phase[k] = "free"
  BY DEF WebhookInit
<1>4. \A k \in Containers : Admission(k)
  BY <1>3, PhaseNames DEF Admission
<1>5. DeferredWereListed /\ IdentityIsComplete
  BY DEF WebhookInit, DeferredWereListed, IdentityIsComplete
<1> QED
  BY <1>2, <1>4, <1>5 DEF WebhookIInv

LEMMA WebhookInvariance == WebhookSpec => []WebhookIInv
BY WebhookInitial, WebhookInvariantStep, PTL DEF WebhookSpec

-----------------------------------------------------------------------------
(* Theorems.                                                                *)

\* Whatever the allowlist's table answers and whoever edits it, where there is
\* one a turn is run, and an identity created, only for a sender that was on it
\* since its request came (index.py:717-728, called at :100, :236, :366, :483).
THEOREM StrangersAreTurnedAway == WebhookSpec => []OnlyAllowedAreServed
<1>1. WebhookIInv => OnlyAllowedAreServed
  BY DEF WebhookIInv, Admission, OnlyAllowedAreServed
<1> QED
  BY <1>1, WebhookInvariance, PTL

\* No unsigned Slack or Discord request passes, in no order of cold starts,
\* rotations and failures to read the secret (index.py:263-281, 312-340).
THEOREM UnsignedAreTurnedAway == WebhookSpec => []OnlySignedAreServed
<1>1. WebhookIInv => OnlySignedAreServed
  BY DEF WebhookIInv, Admission, OnlySignedAreServed
<1> QED
  BY <1>1, WebhookInvariance, PTL

\* Only a failed or interrupted put leaves half an identity (index.py:693-714).
THEOREM IdentitiesAreWhole == WebhookSpec => []IdentityIsComplete
<1>1. WebhookIInv => IdentityIsComplete
  BY DEF WebhookIInv
<1> QED
  BY <1>1, WebhookInvariance, PTL

\* Admission is right in both respects (index.py:226, 346, 717-728).
THEOREM AdmissionIsRight == WebhookSpec => []OnlyAdmittedAreServed
  BY StrangersAreTurnedAway, UnsignedAreTurnedAway, PTL DEF OnlyAdmittedAreServed
-----------------------------------------------------------------------------
(***************************************************************************)
(* What is done around a turn (Replies), for every cache time that is      *)
(* shorter than the life of a token and any number of deliveries.          *)
(***************************************************************************)

Tokens == [value : {"none", "empty", "token"}, age : 0..TokenLife]

RepliesTyped ==
  /\ step \in {"free", "photo", "turn", "credentials", "send", "over", "again"}
  /\ platform \in ReplyPlatforms /\ result \in ReplyTexts /\ secrets \subseteq ReplyPlatforms
  /\ tenantToken \in Tokens /\ carried \in Tokens
  /\ images \in 0..MaxDeliveries /\ uploads \subseteq 1..MaxDeliveries
  /\ deliveries \in 0..MaxDeliveries /\ (step # "free" => deliveries # 0)

\* An execution is under way, or due after a 500 or a cut.
Answering == step \notin {"free", "over"}

\* Every answer is excused, or the one the user is to have; it is still owed by the
\* execution under way, and another one by that the platform asked for when it did
\* not wait any longer.
AnswersSoFar ==
  /\ seen \in Nat /\ excuses \in Nat /\ caller \in {"waits", "gone"}
  /\ seen <= 1 + excuses
  /\ Answering \/ caller = "gone" => seen <= excuses
  /\ Answering /\ caller = "gone" => seen + 1 <= excuses
  /\ platform = "discord" => seen <= 1

RepliesIInv == RepliesTyped /\ AnswersSoFar /\ PassedOnHolds

LEMMA RepliesIInvInit == RepliesInit => RepliesIInv
<1> SUFFICES ASSUME RepliesInit PROVE RepliesIInv
  OBVIOUS
<1>1. RepliesTyped
  BY RepliesAssumption
  DEF RepliesInit, RepliesTyped, Tokens, NoToken, ReplyPlatforms, ReplyTexts
<1>2. AnswersSoFar
  <2>1. seen = 0 /\ excuses = 0 /\ caller = "waits" /\ step = "free"
    BY DEF RepliesInit
  <2> QED
    BY <2>1 DEF AnswersSoFar, Answering
<1>3. PassedOnHolds
  BY DEF RepliesInit, PassedOnHolds, TokenIsGood, ImagesAreStored
<1> QED
  BY <1>1, <1>2, <1>3 DEF RepliesIInv

\* What n answers add to what the user has seen.
LEMMA SeenWithFacts ==
  ASSUME AnswersSoFar, NEW n \in Arrivals
  PROVE  /\ n \in Nat /\ Twice(n) \in Nat /\ n <= 1 + Twice(n)
         /\ SeenWith(n) \in Nat /\ SeenWith(n) <= seen + n
         /\ platform = "discord" => SeenWith(n) <= 1
BY DEF AnswersSoFar, Arrivals, Twice, SeenWith

LEMMA NothingArrives ==
  ASSUME AnswersSoFar
  PROVE  SeenWith(0) = seen /\ Twice(0) = 0 /\ 0 \in Arrivals
BY DEF AnswersSoFar, SeenWith, Twice, Arrivals

LEMMA RepliesIInvStep == RepliesIInv /\ [RepliesNext]_replyVars => RepliesIInv'
<1> SUFFICES ASSUME RepliesIInv, [RepliesNext]_replyVars PROVE RepliesIInv'
  OBVIOUS
<1> USE RepliesAssumption
    DEF RepliesIInv, RepliesTyped, Tokens, AnswersSoFar, PassedOnHolds, TokenIsGood,
        ImagesAreStored, NoToken, ReplyPlatforms, ReplyTexts, messageVars, tokenVars,
        HandlerReturns, Answering
<1>0. AnswersSoFar
  OBVIOUS
<1>1. CASE NewMessage \/ Redeliver
  <2>1. /\ platform' \in ReplyPlatforms /\ seen' \in Nat /\ excuses' \in Nat
        /\ caller' = "waits" /\ seen' <= excuses' /\ (platform' = "discord" => seen' <= 1)
    <3>1. CASE NewMessage
      BY <3>1 DEF NewMessage
    <3>2. CASE Redeliver
      BY <3>2 DEF Redeliver
    <3> QED
      BY <1>1, <3>1, <3>2
  <2>2. Enters
    BY <1>1 DEF NewMessage, Redeliver
  <2>3. /\ step' \in {"photo", "turn"} /\ carried' = NoToken /\ images' = 0
        /\ deliveries' \in 1..MaxDeliveries
        /\ UNCHANGED <<uploads, result, secrets, tenantToken>>
    BY <2>2 DEF Enters
  <2>4. RepliesTyped'
    BY <2>1, <2>3
  <2>5. AnswersSoFar'
    <3>1. seen' \in Nat /\ excuses' \in Nat /\ caller' \in {"waits", "gone"}
      BY <2>1
    <3>2. seen' <= 1 + excuses'
      <4>1. \A a, b \in Nat : a <= b => a <= 1 + b
        OBVIOUS
      <4> QED
        BY <2>1, <4>1
    <3>3. caller' # "gone" /\ seen' <= excuses'
      BY <2>1
    <3>4. platform' = "discord" => seen' <= 1
      BY <2>1
    <3> QED
      BY <3>1, <3>2, <3>3, <3>4
  <2>6. step' # "send" /\ images' = 0
    BY <2>3
  <2>7. PassedOnHolds'
    BY ONLY <2>6 DEF PassedOnHolds, TokenIsGood, ImagesAreStored
  <2> QED
    BY <2>4, <2>5, <2>7
<1>2. CASE DownloadPhotos
  <2>1. /\ step = "photo" /\ step' = "turn"
        /\ deliveries \in 1..MaxDeliveries /\ UNCHANGED deliveries
        /\ images' \in {0, deliveries} /\ uploads' \in {uploads, uploads \union {deliveries}}
        /\ images' # 0 => images' \in uploads'
        /\ UNCHANGED <<platform, caller, seen, excuses, result, secrets, tenantToken, carried,
                       fetched>>
    BY <1>2 DEF DownloadPhotos
  <2> QED
    BY <2>1
<1>3. CASE RunTurn \/ RunFollowUp
  BY <1>3 DEF RunTurn, RunFollowUp
<1>4. CASE NothingToSend \/ SecretFails \/ TakeSecret
  <2>1. CASE NothingToSend \/ SecretFails
    <3>1. /\ step = "credentials" /\ step' \in {"over", "again"}
          /\ UNCHANGED <<platform, caller, seen, excuses, images, uploads, result, tenantToken,
                         carried, fetched, deliveries, secrets>>
      BY <2>1 DEF NothingToSend, SecretFails
    <3> QED
      BY <3>1
  <2>2. CASE TakeSecret
    <3>1. /\ step = "credentials" /\ step' = "send" /\ platform # "feishu"
          /\ secrets' = secrets \union {platform}
          /\ UNCHANGED <<platform, caller, seen, excuses, images, uploads, result, tenantToken,
                         carried, fetched, deliveries>>
      BY <2>2 DEF TakeSecret
    <3>2. RepliesTyped'
      BY <3>1
    <3>3. AnswersSoFar' /\ PassedOnHolds'
      BY <3>1
    <3> QED
      BY <3>2, <3>3
  <2> QED
    BY <1>4, <2>1, <2>2
<1>5. CASE TakeCachedToken
  BY <1>5 DEF TakeCachedToken, Reusable
<1>6. CASE FetchToken
  <2>1. PICK value \in {"token", "empty"} :
          /\ step = "credentials" /\ fetched' = TRUE
          /\ secrets' = secrets \union {"feishu"}
          /\ \/ /\ tenantToken' = [value |-> value, age |-> 0]
                /\ carried' = [value |-> value, age |-> 0] /\ step' = "send"
             \/ step' = "again" /\ UNCHANGED <<tenantToken, carried>>
          /\ UNCHANGED <<platform, caller, seen, excuses, images, uploads, result, deliveries>>
    BY <1>6 DEF FetchToken
  <2>2. [value |-> value, age |-> 0] \in Tokens
    OBVIOUS
  <2>3. carried'.value = "empty" \/ carried'.age < TokenLife \/ step' # "send"
    BY <2>1
  <2> QED
    BY <2>1, <2>2, <2>3
<1>7. ASSUME NEW p, NEW accepted \in BOOLEAN, Sends(p, accepted)
      PROVE  RepliesIInv'
  <2>1. PICK n \in Arrivals : seen' = SeenWith(n) /\ excuses' = excuses + Twice(n)
    BY <1>0, <1>7, NothingArrives DEF Sends, Calls
  <2>2. /\ step = "send" /\ step' = "over"
        /\ UNCHANGED <<platform, caller, images, uploads, result, tenantToken, carried, fetched,
                       deliveries, secrets>>
    BY <1>7 DEF Sends, Calls
  <2>3. AnswersSoFar'
    BY <1>0, <2>1, <2>2, SeenWithFacts
  <2> QED
    BY <2>2, <2>3
<1>8. CASE SendTelegram \/ SendSlack \/ EditDiscord \/ ReplyFeishu
  BY <1>7, <1>8 DEF SendTelegram, SendSlack, EditDiscord, ReplyFeishu
<1>9. CASE Tick
  <2>1. tenantToken' \in Tokens
    BY <1>9 DEF Tick
  <2> QED
    BY <1>9, <2>1 DEF Tick
<1>10. CASE CutOff
  <2>1. PICK n \in Arrivals :
          /\ seen' = SeenWith(n) /\ (step # "send" => n = 0)
          /\ excuses' = excuses + Twice(n) + IF step' = step THEN 0 ELSE 1
    BY <1>0, <1>10, NothingArrives DEF CutOff
  <2>2. /\ step' = IF step \in {"free", "over", "again"} THEN step ELSE "again"
        /\ caller' = caller /\ platform' = platform
    BY <1>10 DEF CutOff
  <2>3. AnswersSoFar'
    <3>1. CASE step \in {"free", "over", "again"}
      <4>1. seen' = seen /\ excuses' = excuses /\ step' = step
        BY <1>0, <2>1, <2>2, <3>1, NothingArrives
      <4> QED
        BY <1>0, <2>2, <4>1
    <3>2. CASE step \notin {"free", "over", "again"}
      <4>1. /\ seen' \in Nat /\ seen' <= seen + n /\ n \in Nat /\ n <= 1 + Twice(n)
            /\ Twice(n) \in Nat /\ (platform = "discord" => seen' <= 1)
        BY <1>0, <2>1, SeenWithFacts
      <4>2. excuses' = excuses + Twice(n) + 1 /\ step' = "again"
        BY <2>1, <2>2, <3>2
      <4> QED
        BY <1>0, <2>2, <3>2, <4>1, <4>2
    <3> QED
      BY <3>1, <3>2
  <2>4. NoToken \in Tokens
    OBVIOUS
  <2> QED
    BY <1>10, <2>2, <2>3, <2>4 DEF CutOff
<1>12. CASE TooSlow
  BY <1>12 DEF TooSlow
<1>13. CASE RedeliverElsewhere
  <2>1. PICK n \in Arrivals :
          /\ seen' = SeenWith(n) /\ caller' \in {"waits", "gone"}
          /\ excuses' = excuses + Twice(n) + IF caller' = "gone" /\ n # 0 THEN 1 ELSE 0
    BY <1>13 DEF RedeliverElsewhere
  <2>2. /\ step = "again" \/ (caller = "gone" /\ step # "free")
        /\ step' = IF step = "again" THEN "over" ELSE step
        /\ deliveries' \in 1..MaxDeliveries
        /\ UNCHANGED <<platform, images, uploads, result, tenantToken, carried, fetched, secrets>>
    BY <1>13 DEF RedeliverElsewhere
  <2>3. AnswersSoFar'
    <3>1. CASE n = 0
      <4>1. seen' = seen /\ excuses' = excuses
        BY <1>0, <2>1, <3>1, NothingArrives
      <4> QED
        BY <1>0, <2>1, <2>2, <4>1
    <3>2. CASE n # 0
      <4>1. /\ seen' \in Nat /\ seen' <= seen + n /\ n \in Nat /\ n <= 1 + Twice(n)
            /\ Twice(n) \in Nat /\ (platform = "discord" => seen' <= 1)
        BY <1>0, <2>1, SeenWithFacts
      <4>2. excuses' = excuses + Twice(n) + IF caller' = "gone" THEN 1 ELSE 0
        BY <2>1, <3>2
      <4> QED
        BY <1>0, <2>1, <2>2, <4>1, <4>2
    <3> QED
      BY <3>1, <3>2
  <2>4. step' = "over" \/ step' = step
    BY <2>2
  <2>5. RepliesTyped'
    BY <2>2, <2>4
  <2>6. PassedOnHolds'
    BY <2>2, <2>4
  <2> QED
    BY <2>3, <2>5, <2>6
<1>11. CASE UNCHANGED replyVars
  BY <1>11 DEF replyVars
<1> QED
  BY <1>1, <1>2, <1>3, <1>4, <1>5, <1>6, <1>8, <1>9, <1>10, <1>11, <1>12, <1>13
  DEF RepliesNext

LEMMA RepliesIInvHolds == RepliesSpec => []RepliesIInv
  BY RepliesIInvInit, RepliesIInvStep, PTL DEF RepliesSpec

\* Step, result, tokens, images and uploads are what they are declared as.
THEOREM RepliesAreTyped == RepliesSpec => []RepliesTypeOK
<1>1. RepliesIInv => RepliesTypeOK
  BY DEF RepliesIInv, RepliesTyped, RepliesTypeOK, Tokens, AnswersSoFar
<1> QED
  BY <1>1, RepliesIInvHolds, PTL

\* However often a message is delivered again, to whichever container, and whatever
\* fails, the user gets a second answer only for an execution that was cut off or
\* late, or for a call that failed and had arrived (index.py:84-86, 198-210, 539-545).
THEOREM NoSecondAnswer == RepliesSpec => []AnsweredOnce
<1>1. RepliesIInv => AnsweredOnce
  BY DEF RepliesIInv, AnswersSoFar, AnsweredOnce
<1> QED
  BY <1>1, RepliesIInvHolds, PTL

\* The reply to Feishu carries a token that is taken, and the agent is told of
\* images that are stored (index.py:171-174, 541).
THEOREM PassedOnIsThere == RepliesSpec => []PassedOnHolds
<1>1. RepliesIInv => PassedOnHolds
  BY DEF RepliesIInv
<1> QED
  BY <1>1, RepliesIInvHolds, PTL
-----------------------------------------------------------------------------
(***************************************************************************)
(* The start of the gateway (GatewayStart), for any number of containers   *)
(* and of failed health checks that a container is given.                  *)
(***************************************************************************)

\* How far the patches are, by the step main does next: what the gateway binds
\* when it is imported is already the proxy.
PatchesInOrder ==
  /\ doing \in {"health", "class"} => Unpatched
  /\ doing = "import" => agentClass = "proxy" /\ bound = "none"
  /\ doing \in {"resolver", "weixin", "run", "serving"} =>
       agentClass = "proxy" /\ bound = IF lazy THEN "none" ELSE "proxy"
  /\ doing \in {"weixin", "run", "serving"} => resolver = "dummy"
  /\ doing \in {"run", "serving"} => weixin = "patched"

\* The health server runs as long as the process does, once it was started, so
\* that no check fails.
ServerIsThere ==
  /\ listening <=> doing \notin {"health", "exited", "killed"}
  /\ doing # "killed" /\ failures = 0

StartIInv == StartTypeOK /\ PatchesInOrder /\ ServerIsThere /\ OnlyProxies

LEMMA StepsOfStart ==
  {StartSteps[i] : i \in DOMAIN StartSteps}
    = {"health", "class", "import", "resolver", "weixin", "run"}
<1>1. DOMAIN StartSteps = 1..6
  BY DEF StartSteps
<1>2. 1..6 = {1, 2, 3, 4, 5, 6}
  OBVIOUS
<1>3. /\ StartSteps[1] = "health" /\ StartSteps[2] = "class" /\ StartSteps[3] = "import"
      /\ StartSteps[4] = "resolver" /\ StartSteps[5] = "weixin" /\ StartSteps[6] = "run"
  BY DEF StartSteps
<1> QED
  BY <1>1, <1>2, <1>3

LEMMA StartIInvInit == StartInit => StartIInv
  BY StepsOfStart, GatewayStartAssumption
  DEF StartInit, StartIInv, StartTypeOK, Standing, Unpatched, PatchesInOrder,
      ServerIsThere, OnlyProxies

LEMMA StartIInvStep == StartIInv /\ [StartNext]_startVars => StartIInv'
<1> SUFFICES ASSUME StartIInv, [StartNext]_startVars PROVE StartIInv'
  OBVIOUS
<1> USE StepsOfStart, GatewayStartAssumption
    DEF StartIInv, StartTypeOK, Standing, Unpatched, PatchesInOrder, ServerIsThere,
        OnlyProxies, Does, patchVars
<1>1. CASE Raises
  BY <1>1 DEF Raises
<1>2. CASE StartHealthServer
  BY <1>2 DEF StartHealthServer
<1>3. CASE PatchClass
  BY <1>3 DEF PatchClass
<1>4. CASE ImportGateway
  BY <1>4 DEF ImportGateway
<1>5. CASE PatchResolver
  BY <1>5 DEF PatchResolver
<1>6. CASE PatchWeixin
  BY <1>6 DEF PatchWeixin
<1>7. CASE StartGateway
  BY <1>7 DEF StartGateway
<1>8. CASE GatewayReturns
  BY <1>8 DEF GatewayReturns
<1>9. CASE MakeProxy
  BY <1>9 DEF MakeProxy
<1>10. CASE Probe
  BY <1>10 DEF Probe, Healthy
<1>11. CASE Replace
  BY <1>11 DEF Replace
<1>12. CASE UNCHANGED startVars
  BY <1>12 DEF startVars
<1> QED
  BY <1>1, <1>2, <1>3, <1>4, <1>5, <1>6, <1>7, <1>8, <1>9, <1>10, <1>11, <1>12 DEF StartNext

\* Whatever fails in the start of a container and however often it is replaced,
\* every agent the gateway makes is the proxy with the dummy credentials, long
\* answers go out as files, and no container that lives is killed for its health.
THEOREM GatewayComesUpPatched == GatewayStartSpec => [](StartTypeOK /\ ComesUpAsProxy)
<1>1. StartIInv => StartTypeOK /\ ComesUpAsProxy
  BY DEF StartIInv, ServerIsThere, ComesUpAsProxy, NotKilledAlive
<1> QED
  BY <1>1, StartIInvInit, StartIInvStep, PTL DEF GatewayStartSpec
=============================================================================
