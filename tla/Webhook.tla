------------------------------- MODULE Webhook -------------------------------
(***************************************************************************)
(* The front of the Router Lambda (lambda/router/index.py): what a webhook *)
(* passes before a turn is run for it.  Each Lambda container serves one   *)
(* request at a time and keeps its secrets; the allowlist, the identities  *)
(* and the secrets are shared and change meanwhile.  The turn itself is    *)
(* module Router.                                                          *)
(***************************************************************************)
EXTENDS Naturals

CONSTANTS
  Containers,    \* execution environments of the Lambda
  Actors,        \* senders
  MaxVersions    \* bound: versions of the signing secret

ASSUME WebhookAssumption == MaxVersions \in Nat \ {0}

Platforms == {"telegram", "slack", "discord", "feishu"}
Signing == {"slack", "discord"}
\* A url_verification or ping, a message, one without text, any other event.
Kinds == {"challenge", "message", "blank", "other"}
\* Signed with a version of the secret; 0: not signed, malformed, or (Slack)
\* older than 300 s.
Versions == 1..MaxVersions
NoRequest == [platform |-> "health", actor |-> "none", kind |-> "other", signed |-> 0]
Phases == {"free", "verify", "check", "lookup", "put channel", "put user", "turn"}

VARIABLES
  gated,     \* IDENTITY_TABLE is set for the Lambda
  current,   \* version of the signing secret
  cache,     \* cache[k]: the version in k's _secrets_cache, 0 if none
  allowed,   \* actors with an ALLOW# item
  channel,   \* actors with a CHANNEL# item
  user,      \* actors with a USER# item
  serving,   \* serving[k]: the request k handles
  phase,     \* phase[k]: where its handler is
  deferred,  \* follow-ups Discord requests left: actor, and whether it was listed
  listed,    \* history: listed[k]: its actor was allowed at some time since
  broken     \* history: actors one of whose puts failed or never happened

webhookVars == <<gated, current, cache, allowed, channel, user, serving, phase,
                 deferred, listed, broken>>

\* Without the setting the list is read by nobody, and stays empty here.
WebhookInit ==
  /\ gated \in BOOLEAN
  /\ current = 1 /\ cache = [k \in Containers |-> 0]
  /\ allowed \in IF gated THEN SUBSET Actors ELSE {{}}
  /\ channel = {} /\ user = {} /\ broken = {}
  /\ serving = [k \in Containers |-> NoRequest]
  /\ phase = [k \in Containers |-> "free"]
  /\ listed = [k \in Containers |-> FALSE]
  /\ deferred = {}

Enter(k, from, to) == phase[k] = from /\ phase' = [phase EXCEPT ![k] = to]

\* The handler of k goes on with p, or is over and k is free.
Proceed(k, p) ==
  /\ phase' = [phase EXCEPT ![k] = p]
  /\ serving' = IF p = "free" THEN [serving EXCEPT ![k] = NoRequest] ELSE serving
  /\ listed' = IF p = "free" THEN [listed EXCEPT ![k] = FALSE] ELSE listed
-----------------------------------------------------------------------------
(* A request reaches a container: handler and the first part of its           *)
(* _handle_<platform>, up to the first call.                                  *)

\* Discord verifies before it parses; Slack and Feishu answer their challenge
\* first; Telegram and Feishu verify nothing.
Route(q) ==
  IF q.platform = "discord" THEN "verify"
  ELSE IF q.platform = "slack" THEN IF q.kind = "challenge" THEN "free" ELSE "verify"
  ELSE IF q.kind = "message" THEN "check" ELSE "free"

Arrive(k) ==
  /\ phase[k] = "free"
  /\ \E p \in Platforms, a \in Actors, t \in Kinds, v \in 0..current :
       LET q == [platform |-> p, actor |-> a, kind |-> t, signed |-> v] IN
       /\ p \in Signing \/ v = 0
       /\ Route(q) # "free"
       /\ serving' = [serving EXCEPT ![k] = q]
       /\ phase' = [phase EXCEPT ![k] = Route(q)]
       /\ listed' = [listed EXCEPT ![k] = a \in allowed]
  /\ UNCHANGED <<current, cache, allowed, channel, user, broken, deferred>>

\* Mutant: a signature that cannot be checked passes.
PassesUnchecked(k, version) == serving[k].signed \in {0, version}

\* _verify_slack_signature, _verify_discord_signature: an exception is FALSE.
Verified(k, version) == serving[k].signed = version

\* _get_secret reads the secret once in the life of the container; when that
\* raises the request is a 500.  A bad signature is a 401.
Verify(k) ==
  /\ phase[k] = "verify"
  /\ \/ cache[k] = 0 /\ Proceed(k, "free") /\ UNCHANGED cache
     \/ LET version == IF cache[k] = 0 THEN current ELSE cache[k] IN
          /\ cache' = [cache EXCEPT ![k] = version]
          /\ Proceed(k, IF Verified(k, version) /\ serving[k].kind = "message"
                          THEN "check" ELSE "free")
  /\ UNCHANGED <<current, allowed, channel, user, broken, deferred>>

\* Mutant: an actor whose item cannot be read is let in.
OnErrorAllow(k) == {serving[k].actor \in allowed, TRUE}

\* _is_allowed: what it can return.  Without a table everybody is allowed (dev
\* mode); an error of the table is a refusal.
IsAllowed(k) == IF gated THEN {serving[k].actor \in allowed, FALSE} ELSE {TRUE}

\* A Discord request is answered at once; its message is left to an invocation
\* of the Lambda by itself, unless that cannot be requested.
Check(k) ==
  /\ phase[k] = "check"
  /\ \E yes \in IsAllowed(k) :
       IF yes /\ serving[k].platform = "discord"
       THEN /\ Proceed(k, "free")
            /\ deferred' \in {deferred, deferred \union {<<serving[k].actor, listed[k]>>}}
       ELSE Proceed(k, IF yes THEN "lookup" ELSE "free") /\ UNCHANGED deferred
  /\ UNCHANGED <<current, cache, allowed, channel, user, broken>>

\* The follow-up starts, in any container, and may be started again.  Nothing
\* is checked a second time.
FollowUp(k) ==
  /\ phase[k] = "free"
  /\ \E d \in deferred :
       /\ serving' = [serving EXCEPT ![k] =
            [platform |-> "follow-up", actor |-> d[1], kind |-> "message", signed |-> 0]]
       /\ listed' = [listed EXCEPT ![k] = d[2]]
       /\ deferred' \in {deferred, deferred \ {d}}
  /\ phase' = [phase EXCEPT ![k] = "lookup"]
  /\ UNCHANGED <<current, cache, allowed, channel, user, broken>>
-----------------------------------------------------------------------------
(* _resolve_user.  The user id is a digest of the actor.                    *)

\* get_item: an error is taken for a new user.
Lookup(k) ==
  /\ \/ serving[k].actor \in channel /\ Enter(k, "lookup", "turn")
     \/ Enter(k, "lookup", "put channel")
  /\ UNCHANGED <<current, cache, allowed, channel, user, serving, listed, broken, deferred>>

\* A failed put ends the creation; the turn is run all the same.
PutFails(k) ==
  /\ phase[k] \in {"put channel", "put user"}
  /\ phase' = [phase EXCEPT ![k] = "turn"]
  /\ broken' = broken \union {serving[k].actor}
  /\ UNCHANGED <<current, cache, allowed, channel, user, serving, listed, deferred>>

\* Mutant: only one item is written.
PutChannelAlone(k) ==
  /\ Enter(k, "put channel", "turn")
  /\ channel' = channel \union {serving[k].actor}
  /\ UNCHANGED <<current, cache, allowed, user, serving, listed, broken, deferred>>

PutChannel(k) ==
  /\ Enter(k, "put channel", "put user")
  /\ channel' = channel \union {serving[k].actor}
  /\ UNCHANGED <<current, cache, allowed, user, serving, listed, broken, deferred>>

PutUser(k) ==
  /\ Enter(k, "put user", "turn")
  /\ user' = user \union {serving[k].actor}
  /\ UNCHANGED <<current, cache, allowed, channel, serving, listed, broken, deferred>>

\* The turn (module Router) is over.
TurnEnds(k) ==
  /\ phase[k] = "turn" /\ Proceed(k, "free")
  /\ UNCHANGED <<current, cache, allowed, channel, user, broken, deferred>>
-----------------------------------------------------------------------------
(* What happens meanwhile.                                                  *)

\* The Lambda is timed out, or its container is replaced: the cache is gone.
Recycle(k) ==
  /\ Proceed(k, "free")
  /\ cache' = [cache EXCEPT ![k] = 0]
  /\ broken' = IF phase[k] \in {"put channel", "put user"}
                 THEN broken \union {serving[k].actor} ELSE broken
  /\ UNCHANGED <<current, allowed, channel, user, deferred>>

Rotate ==
  /\ current < MaxVersions /\ current' = current + 1
  /\ UNCHANGED <<cache, allowed, channel, user, serving, phase, listed, broken, deferred>>

\* The operator edits the allowlist.
Edit ==
  /\ gated
  /\ \E a \in Actors :
       \/ /\ a \notin allowed /\ allowed' = allowed \union {a}
          /\ listed' = [k \in Containers |-> listed[k] \/ serving[k].actor = a]
       \/ a \in allowed /\ allowed' = allowed \ {a} /\ UNCHANGED listed
  /\ UNCHANGED <<current, cache, channel, user, serving, phase, broken, deferred>>

WebhookNext ==
  /\ \/ \E k \in Containers :
          Arrive(k) \/ FollowUp(k) \/ Verify(k) \/ Check(k) \/ Lookup(k) \/ PutFails(k)
            \/ PutChannel(k) \/ PutUser(k) \/ TurnEnds(k) \/ Recycle(k)
     \/ Rotate \/ Edit
  /\ UNCHANGED gated

WebhookSpec == WebhookInit /\ [][WebhookNext]_webhookVars
-----------------------------------------------------------------------------
WebhookTypeOK ==
  /\ gated \in BOOLEAN /\ current \in Versions
  /\ cache \in [Containers -> 0..MaxVersions]
  /\ allowed \subseteq Actors /\ channel \subseteq Actors /\ user \subseteq Actors
  /\ broken \subseteq Actors
  /\ phase \in [Containers -> Phases]
  /\ listed \in [Containers -> BOOLEAN] /\ deferred \subseteq Actors \X BOOLEAN

Working == {"lookup", "put channel", "put user", "turn"}
Judging == Working \union {"check"}

\* Where IDENTITY_TABLE is set, nothing is done for a sender that was not on the
\* allowlist at any time since the request came, even when the table cannot be
\* read (index.py:727-728).  Where it is not, everybody is served (:719-721).
OnlyAllowedAreServed ==
  gated => \A k \in Containers : phase[k] \in Working => listed[k]

\* No Slack or Discord request gets to the allowlist, or beyond, without a
\* signature of the version of the secret this container holds (index.py:226, 346).
OnlySignedAreServed ==
  \A k \in Containers :
    phase[k] \in Judging /\ serving[k].platform \in Signing =>
      serving[k].signed # 0 /\ serving[k].signed = cache[k]

\* Only an allowed sender is served, unless everybody is, and only upon a signed
\* request.
OnlyAdmittedAreServed == OnlyAllowedAreServed /\ OnlySignedAreServed

\* An identity has both its items, unless a put failed, or somebody is about to
\* write the second one; no request repairs it (index.py:688-712).
IdentityIsComplete ==
  \A a \in channel \ (user \union broken) :
    \E k \in Containers : phase[k] = "put user" /\ serving[k].actor = a
=============================================================================
