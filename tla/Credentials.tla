----------------------------- MODULE Credentials -----------------------------
(***************************************************************************)
(* The scoped credentials of a bound session (bridge/scoped_credentials.py *)
(* and the binding in app/hermes/main.py): the refresh thread, the lazy    *)
(* first get() and the uploads that build an S3 client from what get()     *)
(* returned.  Time is counted in ticks; a tick passes only when the thread *)
(* has nothing due.                                                        *)
(***************************************************************************)
EXTENDS Naturals

CONSTANTS
  Uploads,      \* threads that upload: periodic save, turns, the handler
  Interval,     \* REFRESH_INTERVAL, in ticks
  Lifetime,     \* DurationSeconds, in ticks
  MaxBindings   \* bound: invocations that try to bind the session

ASSUME CredentialsAssumption ==
  Interval \in Nat /\ Lifetime \in Nat /\ 0 < Interval /\ Interval < Lifetime
  /\ MaxBindings \in Nat

NoneYet == Lifetime + 1

VARIABLES
  bound,     \* _workspace_sync is set: the session is bound
  tries,     \* invocations that tried
  leaked,    \* refresh threads of attempts whose WorkspaceSync failed
  loop,      \* the refresh thread: "none", "waiting", "due", "ended"
  due,       \* ticks until the event's wait times out
  age,       \* ticks since the credentials were issued, Lifetime when expired,
             \* NoneYet when _credentials is None
  stopped,   \* the event _stop
  sts,       \* STS: "up" or "down"
  using,     \* using[u]: age of the credentials u's client was built with
  spent,     \* history: spent[u]: ticks since u called get()
  stale,     \* history: the refresh of these credentials failed
  tainted    \* history: tainted[u]: u was given such credentials, or after the stop

bindVars == <<bound, tries, leaked>>
loopVars == <<loop, due, stopped>>
uploadVars == <<using, spent, tainted>>
credentialVars == <<bindVars, loopVars, age, sts, uploadVars, stale>>

CredentialsInit ==
  /\ bound = FALSE /\ tries = 0 /\ leaked = 0
  /\ loop = "none" /\ due = 0 /\ stopped = FALSE
  /\ age = NoneYet /\ sts = "up"
  /\ using = [u \in Uploads |-> NoneYet]
  /\ spent = [u \in Uploads |-> 0]
  /\ stale = FALSE
  /\ tainted = [u \in Uploads |-> FALSE]

\* One tick older; credentials do not get older than expired.
Older(a) == IF a < Lifetime THEN a + 1 ELSE a

\* Mutant: the refresh comes when the credentials expire.
WaitForExpiry == Lifetime

\* The thread's wait.
WaitTime == Interval
-----------------------------------------------------------------------------
\* _workspace_for_invocation: the thread is started before WorkspaceSync is
\* constructed.
StartLoop ==
  /\ ~bound /\ loop = "none" /\ tries < MaxBindings
  /\ tries' = tries + 1
  /\ loop' = "waiting" /\ due' = WaitTime
  /\ UNCHANGED <<bound, leaked, stopped, age, sts, uploadVars, stale>>

\* The constructor or the restore raises: the next invocation makes its own
\* ScopedCredentials, and this one's thread is never stopped.
BindingFails ==
  /\ ~bound /\ loop # "none"
  /\ leaked' = leaked + 1
  /\ loop' = "none" /\ age' = NoneYet /\ stale' = FALSE
  /\ UNCHANGED <<bound, tries, due, stopped, sts, uploadVars>>

Binds ==
  /\ ~bound /\ loop # "none"
  /\ bound' = TRUE
  /\ UNCHANGED <<tries, leaked, loopVars, age, sts, uploadVars, stale>>

\* _refresh, when STS answers.
Issue == age' = 0 /\ stale' = FALSE
-----------------------------------------------------------------------------
(* The refresh thread (start_refresh_loop).                                 *)

WaitEnds ==
  /\ loop = "waiting" /\ due = 0 /\ ~stopped
  /\ loop' = "due"
  /\ UNCHANGED <<bindVars, due, stopped, age, sts, uploadVars, stale>>

LoopEnds ==
  /\ loop = "waiting" /\ stopped
  /\ loop' = "ended"
  /\ UNCHANGED <<bindVars, due, stopped, age, sts, uploadVars, stale>>

Refresh ==
  /\ loop = "due" /\ sts = "up"
  /\ Issue
  /\ loop' = "waiting" /\ due' = WaitTime
  /\ UNCHANGED <<bindVars, stopped, sts, uploadVars>>

\* Mutant: the exception ends the thread.
FailedRefreshEndsLoop == loop' = "ended" /\ UNCHANGED due

\* except Exception: logged, and the loop waits as long as ever.
AfterFailedRefresh == loop' = "waiting" /\ due' = WaitTime

RefreshFails ==
  /\ loop = "due" /\ sts = "down"
  /\ AfterFailedRefresh
  /\ stale' = TRUE
  /\ UNCHANGED <<bindVars, stopped, age, sts, uploadVars>>
-----------------------------------------------------------------------------
(* Uploads.                                                                 *)

\* get() finds credentials, or asks for them (under the same lock); when that
\* raises the upload fails.
Get(u) ==
  /\ loop # "none" /\ using[u] = NoneYet
  /\ IF age = NoneYet
       THEN sts = "up" /\ Issue /\ using' = [using EXCEPT ![u] = 0]
       ELSE using' = [using EXCEPT ![u] = age] /\ UNCHANGED <<age, stale>>
  /\ tainted' = [tainted EXCEPT ![u] = stopped \/ (stale /\ age # NoneYet)]
  /\ spent' = [spent EXCEPT ![u] = 0]
  /\ UNCHANGED <<bindVars, loopVars, sts>>

\* It succeeds or S3 refuses it.
UploadEnds(u) ==
  /\ using[u] # NoneYet
  /\ using' = [using EXCEPT ![u] = NoneYet]
  /\ tainted' = [tainted EXCEPT ![u] = FALSE]
  /\ spent' = [spent EXCEPT ![u] = 0]
  /\ UNCHANGED <<bindVars, loopVars, age, sts, stale>>

\* The SIGTERM handler stops the threads of a session that is bound.
Stop ==
  /\ bound /\ ~stopped
  /\ stopped' = TRUE
  /\ UNCHANGED <<bindVars, loop, due, age, sts, uploadVars, stale>>
-----------------------------------------------------------------------------
Outage ==
  /\ sts' = IF sts = "up" THEN "down" ELSE "up"
  /\ UNCHANGED <<bindVars, loopVars, age, uploadVars, stale>>

\* A thread that is due runs before the tick is over.
Tick ==
  /\ loop \notin {"none", "due"}
  /\ loop = "waiting" => due > 0 /\ ~stopped
  /\ due' = IF loop = "waiting" /\ due > 0 THEN due - 1 ELSE due
  /\ age' = Older(age)
  /\ using' = [u \in Uploads |-> Older(using[u])]
  /\ spent' = [u \in Uploads |->
       IF using[u] # NoneYet /\ spent[u] < Lifetime THEN spent[u] + 1 ELSE spent[u]]
  /\ UNCHANGED <<bindVars, loop, stopped, sts, stale, tainted>>

CredentialsNext ==
  \/ StartLoop \/ BindingFails \/ Binds
  \/ WaitEnds \/ LoopEnds \/ Refresh \/ RefreshFails
  \/ \E u \in Uploads : Get(u) \/ UploadEnds(u)
  \/ Stop \/ Outage \/ Tick

\* The refresh thread and the clock go on.
CredentialsFairness ==
  /\ WF_credentialVars(WaitEnds \/ LoopEnds \/ Refresh \/ RefreshFails)
  /\ WF_credentialVars(Tick)

CredentialsSpec ==
  CredentialsInit /\ [][CredentialsNext]_credentialVars /\ CredentialsFairness
-----------------------------------------------------------------------------
CredentialsTypeOK ==
  /\ bound \in BOOLEAN /\ tries \in 0..MaxBindings /\ leaked \in 0..MaxBindings
  /\ loop \in {"none", "waiting", "due", "ended"}
  /\ due \in 0..Interval /\ age \in 0..NoneYet
  /\ stopped \in BOOLEAN /\ sts \in {"up", "down"} /\ stale \in BOOLEAN
  /\ using \in [Uploads -> 0..NoneYet]
  /\ spent \in [Uploads -> 0..Lifetime]
  /\ tainted \in [Uploads -> BOOLEAN]

\* An upload that is done within Lifetime - Interval (900 s) of its get() is
\* not refused for its credentials, unless get() came after a refresh that
\* failed or after the stop (scoped_credentials.py:21, 84).
UploadsOutliveTheirKeys ==
  \A u \in Uploads :
    using[u] = Lifetime /\ spent[u] < Lifetime - Interval => tainted[u]

\* When STS is up from some time on and the process is not told to stop, a
\* failed refresh does not leave expired credentials behind for ever
\* (scoped_credentials.py:48-52).
RefreshRecovers ==
  <>[](sts = "up" /\ bound /\ ~stopped) => []<>(age # Lifetime)
=============================================================================
