-------------------------------- MODULE SignIn --------------------------------
(***************************************************************************)
(* The browser sign-in: web/app.mjs (signIn, completeSignIn, start and the *)
(* controls render shows) with web/src/auth.mjs, against Cognito's Hosted  *)
(* UI and token endpoint.  The tab's sessionStorage outlives the page;     *)
(* everything else goes when the page is left or reloaded.                 *)
(*                                                                         *)
(* The k-th click makes the k-th PKCE pair and the k-th state, so one      *)
(* number stands for a verifier, its challenge, the state sent along and   *)
(* the code Cognito answers with.  0 is none.                              *)
(***************************************************************************)
EXTENDS Naturals

CONSTANTS
  MaxSignIns,  \* bound: clicks on Sign in
  MaxLoads,    \* bound: loads of the page
  MaxAsks      \* bound: messages of a page under way at a time

ASSUME SignInAssumption ==
  MaxSignIns \in Nat /\ MaxLoads \in Nat \ {0} /\ MaxAsks \in Nat

SignIns == 1..MaxSignIns

VARIABLES
  tokens,      \* sessionStorage: hermes.tokens is set
  verifier,    \* sessionStorage: hermes.pkce.verifier
  expected,    \* sessionStorage: hermes.pkce.state
  loads,       \* loads of the page so far
  starting,    \* where start() is; "away" while Cognito's page is shown
  query,       \* code and state in the address of the page
  shown,       \* status of the page's state
  click,       \* click[k]: "digest" while signIn awaits createPkcePair
  leaving,     \* the authorization the page was told to go to
  proof,       \* the verifier sent with the code
  code,        \* code[k]: at Cognito
  asking,      \* messages of the page whose answer is under way
  outlived     \* how many were, when the page's tokens went last (a history)

signInVars == <<tokens, verifier, expected, loads, starting, query, shown,
                click, leaving, proof, code, asking, outlived>>

\* What sessionStorage holds, and what a load of the page begins with.
storageVars == <<tokens, verifier, expected>>
askVars == <<asking, outlived>>

SignInInit ==
  /\ tokens = FALSE /\ verifier = 0 /\ expected = 0
  /\ loads = 1 /\ starting = "config" /\ query = 0 /\ shown = "signed_out"
  /\ click = [k \in SignIns |-> "none"]
  /\ leaving = 0 /\ proof = 0
  /\ code = [k \in SignIns |-> "none"]
  /\ asking = 0 /\ outlived = 0

\* The page as it is loaded: start() awaits the configuration, and what the
\* page before it awaited is gone.
Loaded(u) ==
  /\ loads < MaxLoads /\ loads' = loads + 1
  /\ starting' = "config" /\ query' = u /\ shown' = "signed_out"
  /\ click' = [k \in SignIns |-> IF click[k] = "digest" THEN "done" ELSE click[k]]
  /\ leaving' = 0 /\ proof' = 0
  /\ asking' = 0 /\ outlived' = 0

\* The user reloads, or opens the plain address, at any moment.
Reload ==
  /\ starting # "away"
  /\ Loaded(query) \/ Loaded(0)
  /\ UNCHANGED <<storageVars, code>>

-----------------------------------------------------------------------------
(* signIn.                                                                  *)

\* Sign in is there while the page is signed out, and so from its first
\* moment on: start() has rendered nothing yet.
Click(k) ==
  /\ starting # "away" /\ shown = "signed_out"
  /\ \A j \in SignIns : click[j] = "none" <=> j >= k
  /\ click' = [click EXCEPT ![k] = "digest"]
  /\ UNCHANGED <<storageVars, loads, starting, query, shown, leaving, proof, code, askVars>>

\* The configuration is set when start() is past it.
Configured == starting \notin {"config", "unconfigured", "away"}

\* Mutant: the address is built before the pair and the state are stored, so
\* a missing configuration throws before anything is.
StoreLast(k) ==
  IF Configured THEN verifier' = k /\ expected' = k
                ELSE UNCHANGED <<verifier, expected>>

\* The verifier and the state are stored with no await between them.
StorePair(k) == verifier' = k /\ expected' = k

\* createPkcePair is done.  Without a configuration the address cannot be
\* built, which the click's catch shows; the last address assigned wins.
Digest(k) ==
  /\ starting # "away" /\ click[k] = "digest"
  /\ click' = [click EXCEPT ![k] = "done"]
  /\ StorePair(k)
  /\ \/ Configured /\ leaving' = k /\ UNCHANGED shown
     \/ ~Configured /\ shown' = "error" /\ UNCHANGED leaving
  /\ UNCHANGED <<tokens, loads, starting, query, proof, code, askVars>>

\* The browser gets to Cognito's page, and the page is gone.
Navigate ==
  /\ leaving # 0 /\ starting # "away"
  /\ starting' = "away"
  /\ click' = [k \in SignIns |-> IF click[k] = "digest" THEN "done" ELSE click[k]]
  /\ UNCHANGED <<storageVars, loads, query, shown, leaving, proof, code, askVars>>

\* The user signs in at Cognito, which redirects with the code and the state;
\* or gives up, and comes back without them.
Redirect ==
  /\ starting = "away"
  /\ \/ /\ code[leaving] = "none"
        /\ code' = [code EXCEPT ![leaving] = "issued"]
        /\ Loaded(leaving)
     \/ Loaded(0) /\ UNCHANGED code
  /\ UNCHANGED storageVars

-----------------------------------------------------------------------------
(* start and completeSignIn.                                                *)

\* Mutant: the state of the redirect is not compared.
AnyReturn == verifier # 0

\* The return is the one the storage waits for.
ExpectedReturn == query = expected /\ verifier # 0

\* The configuration has come.  Without a code the tokens of the storage
\* decide; with one, the state and the verifier are read and the code is
\* sent, with no await between them.
GotConfig ==
  /\ starting = "config"
  /\ \/ /\ query = 0
        /\ starting' = "done"
        /\ shown' = IF tokens THEN "ready" ELSE "signed_out"
        /\ UNCHANGED proof
     \/ /\ query # 0 /\ ExpectedReturn
        /\ starting' = "exchanging" /\ proof' = verifier
        /\ UNCHANGED shown
     \/ /\ query # 0 /\ ~ExpectedReturn
        /\ starting' = "done" /\ shown' = "error"
        /\ UNCHANGED proof
  /\ UNCHANGED <<storageVars, loads, query, click, leaving, code, askVars>>

\* It has not, and config stays undefined.
NoConfig ==
  /\ starting = "config"
  /\ starting' = "unconfigured" /\ shown' = "error"
  /\ UNCHANGED <<storageVars, loads, query, click, leaving, proof, code, askVars>>

\* External: the token endpoint.  A code is good once, with its verifier; the
\* answer may be lost on the way.
Redeem ==
  /\ starting = "exchanging"
  /\ \/ /\ code[query] = "issued" /\ proof = query
        /\ code' = [code EXCEPT ![query] = "used"]
        /\ starting' \in {"granted", "refused"}
     \/ /\ ~(code[query] = "issued" /\ proof = query)
        /\ starting' = "refused" /\ UNCHANGED code
  /\ UNCHANGED <<storageVars, loads, query, shown, click, leaving, proof, askVars>>

\* Stored, the code taken from the address, and signed in.
Exchanged ==
  /\ starting = "granted" /\ starting' = "done"
  /\ tokens' = TRUE /\ query' = 0 /\ shown' = "ready"
  /\ UNCHANGED <<verifier, expected, loads, click, leaving, proof, code, askVars>>

\* The address keeps the code.
Refused ==
  /\ starting = "refused" /\ starting' = "done"
  /\ shown' = "error"
  /\ UNCHANGED <<storageVars, loads, query, click, leaving, proof, code, askVars>>

-----------------------------------------------------------------------------
(* The rest of the page, as far as it touches the tokens: the messages of a  *)
(* page and their answers, each by its end (their text is WebChat's).        *)

\* Mutant: the tokens go, the page stays as it is.
ClearStorage == tokens' = FALSE /\ verifier' = 0 /\ UNCHANGED shown

\* clearTokens, then SIGNED_OUT or FAILED with 401: the initial state.
ClearTokens == tokens' = FALSE /\ verifier' = 0 /\ shown' = "signed_out"

\* Sign out, also while answers are under way.
SignOutOfAll ==
  /\ starting # "away" /\ shown # "signed_out"
  /\ ClearTokens
  /\ outlived' = asking
  /\ UNCHANGED <<expected, loads, starting, query, click, leaving, proof, code, asking>>

\* sendMessage, from the form or a retry.  With tokens its request goes out;
\* without, it throws before.
Say ==
  /\ starting # "away" /\ shown \notin {"signed_out", "busy"}
  /\ \/ tokens /\ asking < MaxAsks /\ asking' = asking + 1 /\ shown' = "busy"
     \/ ~tokens /\ shown' = "error" /\ UNCHANGED asking
  /\ UNCHANGED <<storageVars, loads, starting, query, click, leaving, proof, code, outlived>>

\* The answer of a message ends, whatever the page shows meanwhile: completed
\* or intervened, failed, or cut off.
AnswerEnds ==
  /\ starting # "away" /\ asking > 0 /\ asking' = asking - 1
  /\ shown' \in {"ready", "error", shown}
  /\ UNCHANGED <<storageVars, loads, starting, query, click, leaving, proof, code, outlived>>

\* It is a 401.
AnswerExpired ==
  /\ starting # "away" /\ asking > 0 /\ asking' = asking - 1
  /\ ClearTokens
  /\ outlived' = asking'
  /\ UNCHANGED <<expected, loads, starting, query, click, leaving, proof, code>>

SignInNext ==
  \/ Reload \/ Navigate \/ Redirect
  \/ \E k \in SignIns : Click(k) \/ Digest(k)
  \/ GotConfig \/ NoConfig \/ Redeem \/ Exchanged \/ Refused
  \/ SignOutOfAll \/ Say \/ AnswerEnds \/ AnswerExpired

SignInSpec == SignInInit /\ [][SignInNext]_signInVars
-----------------------------------------------------------------------------
(* Properties.                                                              *)

\* Every variable has its type.
SignInTypeOK ==
  /\ tokens \in BOOLEAN
  /\ {verifier, expected, query, leaving, proof} \subseteq 0..MaxSignIns
  /\ loads \in 1..MaxLoads
  /\ starting \in {"config", "unconfigured", "exchanging", "granted", "refused",
                   "done", "away"}
  /\ shown \in {"signed_out", "ready", "busy", "error"}
  /\ click \in [SignIns -> {"none", "digest", "done"}]
  /\ code \in [SignIns -> {"none", "issued", "used"}]
  /\ asking \in 0..MaxAsks /\ outlived \in 0..MaxAsks
  /\ starting = "away" => leaving # 0

\* A code is sent with the verifier it was asked for with, whatever was
\* clicked and reloaded in between: completeSignIn reads state and verifier
\* as signIn stored them, together.
OwnVerifier == starting = "exchanging" => proof = query

\* While a code is being exchanged the page is signed out, no answer is under
\* way, and there is no Sign out: a user who signed out is not signed in by an
\* exchange that ends later.  This is so because signIn stores its state before
\* it needs the configuration, which makes an earlier return a stranger.
NoSignOutDuringExchange ==
  starting \in {"exchanging", "granted"} => shown = "signed_out" /\ asking = 0

\* A page that says it is ready has its tokens, unless the answer of a message
\* that was under way when they went has ended since: nothing else that runs on
\* a signed-out page, or removes the tokens, leaves it ready.
ReadyHasTokens == shown = "ready" => tokens \/ asking < outlived

\* Clicks, reloads and redirects in any order end in one sign-in, and the page
\* shows what its tokens say.
SignInHolds == OwnVerifier /\ NoSignOutDuringExchange /\ ReadyHasTokens
===============================================================================
