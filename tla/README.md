# TLA+ models of the Hermes chatbot

Specifications, model-checking runs and machine-checked proofs for the program
in `src/`: a chat agent (hermes-agent) hosted in Amazon Bedrock AgentCore, with
a browser page, a streaming Lambda, chat gateways and a workspace kept in S3.
Paths below are relative to `src/`.

## The system

| Component | Code | State it keeps | Operations |
|---|---|---|---|
| Runtime entrypoint | `app/hermes/main.py` | singletons `_agent`, `_memory_bridge`, `_workspace_sync`, `_workspace_namespace`, `_scoped_credentials` | `invoke` (one async generator per invocation), `_workspace_for_invocation`, `_memory_for_invocation`, `get_or_create_agent`, `_sigterm_handler` |
| Guardrail evaluator | `app/hermes/bridge/guardrails.py` | none | `evaluate` of a source (INPUT or OUTPUT) |
| Streaming bridge | `app/hermes/bridge/streaming.py` | a queue per turn | `stream_conversation`: worker thread to event loop |
| Memory bridge | `app/hermes/bridge/memory.py` | `_ready` | `ensure_ready`, `retrieve_context`, `record_turn` |
| Workspace sync | `app/hermes/bridge/workspace_sync.py` | files on disk, objects in S3, `_save_lock`, `_stop` | `restore`, `save`, `start_periodic_save`, `stop` |
| Scoped credentials | `app/hermes/bridge/scoped_credentials.py` | credentials and their expiry | `refresh`, `start_refresh_loop`, `stop` |
| Legacy contract server | `app/hermes/bridge/contract.py`, `warmup_agent.py` | start-up flags, agent slots | `/ping`, `/invocations` (warmup, status, chat) |
| Model configuration, Bedrock compatibility | `app/hermes/bridge/model_config.py`, `bedrock_*.py` | none | look-ups, removal of cache points |
| Web chat BFF | `lambda/web_chat/` | none between requests | `routeRequest`, `chatBody`, `parseAgentCoreStream`, session derivation |
| Browser page | `web/app.mjs`, `web/src/` | page state, tokens in session storage | `reduce`, `sendMessage`, retry, sign-in, sign-out |
| Router Lambda | `lambda/router/index.py` | identities, allowlist and history in DynamoDB, photos in S3, `_secrets_cache` of a container | webhooks, `_resolve_user`, `_invoke_agentcore`, history, replies per platform |
| Cron Lambda | `lambda/cron/index.py` | `_secrets_cache` of a container | one invocation and one delivery per event |
| Token metrics Lambda | `lambda/token_metrics/index.py` | metrics in CloudWatch | `report_usage`, the collection of a day and its budget alarms |
| Gateway | `gateway/` | patched classes, health server, files being sent | start-up with its patches, `AgentCoreProxy` with retries, delivery of long replies to WeChat as files |
| Root bridge package | `bridge/` | none of its own | copies of, or import shims for, the files of `app/hermes/bridge` |
| Infrastructure | `stacks/`, `app.py`, `agentcore/`, `scripts/` | none at run time | CDK definitions and shell scripts |

How they interact. The page posts a message and reads server-sent events. The
BFF turns one request into one AgentCore invocation and its events into SSE
records. The runtime serves the invocations of one session in one process:
`invoke` is a generator on the event loop, the agent runs in a worker thread and
crosses back with `call_soon_threadsafe`, Guardrail and Memory are awaited calls
in threads, and `finally` saves the workspace in a thread. A periodic daemon
thread and the SIGTERM handler save as well. Gateways, Router and Cron invoke the
same entrypoint by other ways.

What is hard:

- *interleavings*: turns of one session overlap at each await and share the
  singletons; worker threads go on after their client is gone; three kinds of
  threads save the same files; two attempts of a page write one state;
- *partial failure*: Guardrail, Memory, S3, STS, a single upload, a stream;
- *crash and restart*: SIGTERM, SIGKILL after ten seconds
  (`docs/upstream/AGENTCORE_CONTRACT.md`), a new process on the old disk or an
  empty one;
- *ordering*: deltas against the finished marker, checks against output, records
  against one terminal record, uploads against each other;
- *liveness*: each turn must end and save, a process must exit, an attempt must
  come to an end the user sees.

What makes each part correct:

- entrypoint, Guardrail, streaming, Memory: text goes to the agent, the client
  and Memory only in the form that was cleared; the reply is whole and in order;
  Memory keeps what was said, once; an ended turn stays ended, but for a record being
  written when its client is lost; each turn ends;
- workspace: the bucket never goes back to older content, databases are
  consistent unless a restore meets the journal of a newer state, a save covers all it could, a shutdown ends;
- page and BFF: records are well ordered, the transcript shows each exchange
  once, one attempt at a time, every attempt ends;
- credentials: a save finds credentials that are still valid, and a failed
  refresh is made up for; contract server: what it says of its readiness is so,
  every request is answered, and SIGTERM saves everything;
- Router: only who is allowed and signed is served, an answered turn is in the
  history of the next, an identity is whole, a message is answered once, a token
  in the cache is one the platform takes, a long answer loses nothing;
- Cron and Gateway: what the agent carries out again is owed to a named failure,
  each chat gets its own reply; Token metrics: no overrun goes unnoticed;
- sign-in: a code goes with its own verifier, and a page that says it is ready has
  tokens, unless it is the answer of a message that outlived a sign-out; wire of the web chat: where a stream is cut makes no difference.

The main hazards with their lines and the properties that cover them are in
`PROJECT.json`.

## Modules

| Module | What it is |
|---|---|
| `TurnContract` | abstract: what a turn promises, without threads, checks or services |
| `Runtime` | `invoke` with Guardrail, streaming and Memory; implements `TurnContract` |
| `DurableStore` | abstract: what a session can count on of its disk and the bucket |
| `Workspace` | `WorkspaceSync` as a whole: its threads, SIGTERM, kills and restarts; implements `DurableStore` |
| `Paths` | `WorkspaceSync` per file: namespaces, path and skill filters, links |
| `Credentials` | the refresh thread, the binding of a session, uploads that take time |
| `Contract` | the legacy contract server and its warm-up agent |
| `WebChat` | the page (`state.mjs`, `app.mjs`) and the records the BFF writes to it |
| `Wire` | a chat request on the wire: the BFF's decision, and streams cut anywhere |
| `SignIn` | PKCE sign-in over clicks, reloads and redirects |
| `Router` | turns of the Router Lambda: repeated webhooks, the history in DynamoDB |
| `Webhook` | what comes before a turn: routing, signatures, allowlist, identities |
| `Replies` | what surrounds a turn: photos, the reply to each platform, cached tokens |
| `Chunks` | a long answer split for Telegram and sent in parts |
| `Cron`, `TokenMetrics` | the Lambdas of these names |
| `Gateway` | the proxy with its retries, and the delivery of files |
| `GatewayStart` | the gateway's process: patches, health checks, new containers |
| `RuntimeProofs`, `WorkspaceProofs`, `RouterProofs`, `WebChatProofs` | theorems about the module they extend |
| `ServiceProofs` | theorems about `Contract`, `Credentials`, `Gateway` and `MCLiveness` |
| `EntrancesProofs` | theorems about `Cron`, `TokenMetrics`, `SignIn`, `Webhook`, `Replies` and `GatewayStart` |
| `TextProofs` | theorems about texts that are cut and put together: `Paths`, `Chunks` and `Wire` |
| `CompositionProofs` | theorems about all parts of `MCEntrances` together |
| `MCRuntime`, `MCWorkspace`, `MCWebChat`, `MCRouter` | instances of one module each |
| `MCLiveness`, `MCEntrances` | several parts that share nothing, in one state space each |

`MCLiveness` and `MCEntrances` save the start of a run per module: the variable
`part` says which part a behaviour runs, and the variables of the others keep
their first value, one value only where a part's `Init` has several. Their states
are the disjoint union of the states of the parts; nothing is claimed of
their interaction, because there is none.

### Runtime

A turn is an invocation; `pc[t]` is the place where its generator is suspended.
Between two awaits or yields nothing interleaves with a generator, so an action
is one such stretch with all the calls it makes: `Admit` runs
`_workspace_for_invocation` and goes on to the input check, or straight past it
to `_memory_for_invocation` (`Recall`) and `get_or_create_agent` (`StartAgent`).

| Action | Code |
|---|---|
| `Refuse`, `Admit` | `_workspace_for_invocation` and the start of `invoke` |
| `ScreenInput`, `ScreenOutput` | return of `GuardrailEvaluator.evaluate` and what follows |
| `Retrieve` | return of `retrieve_context` |
| `TakeDelta`, `FallBack`, `AgentFailed`, `EndStream` | the loop of `stream_conversation` and its end |
| `Resume` | the generator after it yielded the checked reply |
| `Record` | `record_turn` |
| `Save` | `finally` |
| `Disconnect` | the generator is closed or cancelled where it is suspended |
| `LateReady`, `LateRecord` | the thread of a Memory call whose generator is gone |
| `Emit`, `Finish`, `Crash` | the worker thread |
| `Provision` | the Memory resource becomes ACTIVE or FAILED (external) |

Data are abstracted to what the properties tell apart: a delta is one of
`Chunks`, Guardrail's sanitised text is `Masked`, an assessment has the four bits
`evaluate` looks at (intervened, something anonymised, something blocked, output
text present). Cancelling a generator that awaits `asyncio.to_thread` does not stop the
thread: a call of the Memory bridge that was under way stays behind (`adrift`) and finds
the memory ready, or writes the record, at any time after, if the process lives
(`NothingAfterTheEnd` and `TurnContract` name this record; what a Guardrail check left
behind changes nothing). Deployment settings and payloads are chosen in `Init`, so one run
covers Guardrail absent, configured and half-configured, Memory on and off, with
and without a bucket. `heard`, `prompt`, `said`, `inCheck` and `outCheck` are
there for the properties: what the client received, what the agent was called
with, what it emitted, and what the service answered.

### Workspace

The content of a file is the set of agent writes it holds; a file caught while
it is being rewritten is `torn`. A save is a thread in `Savers`: it waits for
`_save_lock`, goes over the databases, then over the other files, one read and
one upload at a time, and a failure of either is remembered in `failed` while the
loop goes on. SIGTERM is a Python signal handler: it runs on the main thread, on
top of what that thread was doing, so of several handlers only the innermost runs
(`Runs`), and no turn ends meanwhile. `Restore` is one step because it blocks the
event loop before an agent exists. It replaces a database by its object but not the
`-wal` or `-journal` that a killed process left beside it (`journal`), which SQLite plays
into the older pages as soon as the restore's own check opens the file: `Mixtures` leaves
open whether the object, the former file, something of both or a damaged file comes of
it, and a damaged one is deleted. Such databases are remembered in `mixed`, or in
`missed` as not brought back as saved. `Kill` may come anywhere, an upload under way
either reached S3 or not; `Boot` finds the old disk or an empty one. The
hermes-agent writer is external (`BeginWrite`, `EndWrite`, `Remove`).

`DurableStore` is what this amounts to: a disk, a bucket and an agent that has the
workspace or has not. A file grows under the agent's hands, an object is replaced by a
state of its file that is no older, a process stops, and a start brings the objects
back over the files, all but those it could not get (`missed`); what a start puts beside
an unfinished journal it may spoil (`Bring`), and only that can be damaged later. `Store` maps `local`
and `remote` to it and takes the agent to run from `Restore` to the end of the process;
savers, their lock, the lists and copies they hold and the handlers on the stack are
left out of it, and their steps are stutters or replace one object.

The server that AgentCore wraps around `main.py` may install handlers of its own;
the model takes the handler as `main.py` registers it.

### Paths

`Workspace` takes it for granted that a file is one that is synchronised; here the
files have paths, sequences of names. `Prepare` is the constructor with the
binding of the namespace, `RestorePaths` the restore of all objects the bucket
offers, in any order, `JudgeFile` and `UploadPath` the two moments of one file in a
save, between which the agent may change it (`Make`). Objects of strangers
(`Strangers`, `Offered`) lie in the bucket from the start: in the own prefix under
paths no save would have written, and in another namespace. `Safe`, `Skipped`,
`IsApprovedSkill` and `ShouldSync` are the filters, in the order the code asks them.

### Credentials

Time is counted in ticks: `Interval` is `REFRESH_INTERVAL`, `Lifetime` is
`DurationSeconds`. A binding starts the thread (`StartLoop`), which `Binds` keeps or
`BindingFails` leaks when `WorkspaceSync` cannot be constructed. `WaitEnds`, `Refresh`, `RefreshFails` and `LoopEnds`
are the loop; `Get` gives an upload the credentials there are, issuing the first ones;
an upload goes on while they grow old (`spent`). STS is up or down (`Outage`). A tick
passes only when the thread has nothing due: it is not starved for whole minutes.

### Contract

`main` goes through start-up (`Restore`, `StartPeriodicSave`, `PublishSync`,
`InitLightweight`, `StartServer`), and on `Sigterm`, at any point, to the last
save. The loader sets the agent and then the flag (`MakeAgent`, `AnnounceAgent`).
The server has one thread and keeps connections alive: `Accept` takes a connection
when none is served, `Begin` counts a request in, `Finish` counts it out whether the
answer could be written or not. `ServeUncounted` answers what is never counted.

### WebChat

`page` is the record of `state.mjs` and each case of `reduce` is an operator of
the same name. An attempt is one call of `sendMessage`; it goes from the request
to the records of the response (`TakeRecord`), which are reduced one by one. The
BFF's `chatBody` writes the records (`Started`, `Forward`, `Conclude`). A
connection can break (the page's reader throws) or be cut off in good order (the
reader reports the end). A sign-in clicked on the signed-out page may fail at any later
time (`SignInClick`, `SignInFails`), and `start` may end after messages were sent: both
put their outcome over whatever the page is doing, and `form` remembers when that freed the form
over a request under way. Loading the page again or coming back from sign-in is a
new start of the model, from `Init`, which has tokens in storage or has none. What
the BFF writes after the page stopped reading is not followed.

### Wire

One request: `Ask` is `routeRequest` (`RouteRequest` decides over path, method, claims
and body, in the code's order), `InvokeAgentCore` gets an answer of any of
`Answers`, as an event stream or as JSON, and `ReadChunk`, `ReadEnd`, `ReadWhole`
and `ReadFails` are `parseAgentCoreStream` and `chatBody` on chunks of any size.
`PageReads` is `parseSse` on what has been written, in chunks of any size again. A
symbol stands for a field name, a value or a line break, so that chunks can be cut
inside a record and between the two line breaks that end it. `Split` takes a text apart
symbol by symbol, for the lines of AgentCore's answer as for the records of the page: it is
a recursive function, as what reads a stream in chunks must be the same as what reads it at
once.

### SignIn

`sessionStorage` (`tokens`, `verifier`, `expected`) outlives the page; `starting`,
`shown` and `click` go with it. `Click` and `Digest` are `signIn` before and after
`createPkcePair`; `Navigate` and `Redirect` leave and come back, `GotConfig` or
`NoConfig` is `start`, `Redeem`, `Exchanged` and `Refused` are `completeSignIn`. `Say`
is a message, whose answer (`AnswerEnds`, `AnswerExpired`) comes whatever the page shows by
then: `outlived` counts the messages a sign-out left under way. The user can reload at any time, and click twice.

### Router

A run is one execution of the handler; runs of one session share nothing but the
items of its history. One action is one call that leaves the Lambda, with what
follows it up to the next (`Admit`, `Load`, `Invoke`, `SaveQuestion`,
`SaveAnswer`, `SendReply`). An item is its sort key (instant, role) and the run it
came from; `put_item` replaces an item with the same key. A call fails with a
`ClientError`, which the code catches in each place, or with another exception, which
only the outer handlers do; in either case DynamoDB may have carried the write out. A
query is eventually consistent and sees any part of the items. The platform delivers a message until a run of it returned 200, even while
one is at work; Discord's interaction is acknowledged at once and its asynchronous
execution is begun again after a timeout. `before` remembers which replies a user
had when sending a message. A finished run's local variables are forgotten.

Left out: the session id (a digest of the actor, so that the session is always the
same), expiry of items after days, and clocks of Lambdas that differ. Signatures and
identities, photos and replies, and long answers have modules of their own.

### Webhook, Replies, Chunks

`Webhook` follows requests in several containers, each with its own
`_secrets_cache`, from `Arrive` (routing) over `Verify` and `Check` (allowlist) to
`Lookup`, `PutChannel` and `PutUser` (`_resolve_user`); `FollowUp` is Discord's deferred
invocation, `Rotate` and `Edit` change the secret and the allowlist meanwhile. Without
`IDENTITY_TABLE` there is no allowlist and everybody is served (`gated`).

`Replies` follows one container from message to message: `DownloadPhotos`, `RunTurn` or
`RunFollowUp`, `TakeSecret` with its cache, `TakeCachedToken` or `FetchToken` for
Feishu, and a send per platform. `Tick` lets the cached token age, `CutOff` ends an
execution by its timeout, `TooSlow` is a platform that waits no longer, `Redeliver` and
`RedeliverElsewhere` are its repetition of what was not answered with 200 in time, here or
in another container while this one still works. Telegram is asked again in plain text
when the first call failed, arrived or not (`Calls`). `excuses` counts what may give the
user one answer more. A fetched tenant token is taken to be new, as the comment at
`index.py:538` has it; the `expire` of the answer is ignored by the code.

`Chunks` runs the loop of `_split_message` cut by cut (`CutChunk`, `LastChunk`) on every
text up to a bound and then sends the chunks, each a second time as plain text when
its call failed (`SendMarkdown`, `SendPlain`), whether the chat shows it or not. A chunk
whose second call fails too is lost (`index.py:209`): what is claimed is the cutting and
the order, not the delivery.

### Cron and TokenMetrics

A firing of a schedule is an asynchronous event, which Lambda runs again when an
attempt raised or died (`Again`, `Dies`). botocore repeats a request that timed out
(`SendAgain`) while the first may run on. The agent's runs and the chat's messages are
counted; `repeats` and `deaths` record what they are owed to. That Lambda and the
Scheduler may deliver an event twice of their own accord is left out.

`TokenMetrics` has a day's tokens under each set of dimensions; a collection is
`started` (the day is fixed), `summed` (its reads are done) and evaluated, with midnight
possible between any two, reads that fail, and an alarm that cannot be sent. What is
published is in the next sum; CloudWatch may take its time over that. The
cost budget runs the same code on another number.

### Gateway and GatewayStart

A chat's message goes through `_invoke_with_retry` (`Call`, `Return`, `FailedCall`,
`Throttled`, `ColdStartError`, `SleepAndRetry`, `Wake`) while invocations of AgentCore
begin and end on their own (`Reach`, `RunEnds`), also those whose attempt was given up. A
long reply is written to a file named after the second (`WriteFile`), read, sent and
unlinked (`ReadFile`, `Unlink`), concurrently with other chats. A write that fails may
leave a part of it (`WriteFails`), and so may an unlink that fails, whose error is passed
over: `leftover` has these files.

`GatewayStart` takes the steps of `main` in their order, with a health check possible
before and after each, and with `gateway.run`, which is not in the repository, looking
`AIAgent` up either when it is imported or when it needs it (`lazy`).

## Runs

All runs set `CHECK_DEADLOCK FALSE` because turns, processes and attempts are
finite in number and simply end. State counts are those of TLC.

| Run | Question | Bounds |
|---|---|---|
| `turn` | One turn under every setting, payload, answer and failure: is text cleared and whole, and does the turn end with its workspace saved? | 1 turn, 2 chunks, 3 deltas, every distinct assessment; 117 k states |
| `overlap` | Two turns of a session overlap, lose clients and fail: does Memory stay faithful, is an end final, is `TurnContract` implemented? | 2 turns, 1 chunk, 1 delta; 469 k states |
| `saves` | Do saves of the periodic thread, a turn and the handler, over two processes, keep the bucket from going back? | 1 database, 1 document, 2 writes, 1 SIGTERM; 2.8 M states |
| `shutdown` | Does a process end after one SIGTERM, whoever holds the lock? | 2 turns; 75 k states |
| `history` | Is an answered turn in the history of the messages sent after it, in order, while webhooks repeat, overlap, fail and time out? | 2 messages, 3 runs, 2 instants, a window of 1 turn; 5.8 M states |
| `liveness` | Does the contract server answer every request, are failed refreshes made up for, and does every gateway message end, each part with the safety it promises? | server: 2 connections, 2 requests, 2 agent writes; credentials: 2 uploads, interval 3, lifetime 5, 2 bindings; gateway: 2 chats, 1 retry, 2 seconds; 455 k states |
| `entrances` | Is everything that leads to an agent, or reports of it, kept in order: schedules, usage, webhooks, replies, long answers, paths, gateway start, sign-in, wire and page? | see below; 1.4 M states |
| `second_sigterm`, `kept_disk`, `cut`, `late_break`, `sign_out` | disagreements, see below | |

The instances of `entrances`:

| Part | Bounds |
|---|---|
| cron | 2 firings, 1 re-run by Lambda, 2 requests by botocore |
| metrics | a budget of 2, reports of up to 2 tokens, 4 tokens a day |
| webhook | 2 containers, 1 sender, 2 versions of the secret |
| replies | a token that lives 3 ticks and is reused up to 2, 3 deliveries |
| chunks | chunks of 2 characters, every text of up to 5 |
| paths | 8 paths (`SampleKeys`), 2 changes by the agent, 2 processes |
| start | 3 containers, 3 failed health checks |
| sign-in | 3 clicks, 4 loads, 2 messages under way |
| wire | 2 lines of an answer, a fallback body of 2 symbols |
| page | 2 messages, 2 attempts, 1 delta, 1 click on sign-in, responses that are cut off; no break after a terminal record (that is the run `late_break`) |

Why the bounds are enough. In `turn` two different deltas show order, loss and
doubling, and every assessment is tried. In `overlap` two turns are the least
that share the singletons and Memory; a third only adds another pair. In `saves`
two writes tell older content from newer, one file of each kind meets each loop,
three savers meet on the lock, and the second process meets what the first left.
In `history` three runs let a repeated delivery and a second message meet, and a
window of one turn has to drop one. In `liveness` two connections are what it takes for
one to wait for the other, two chats to share a file name, and one retry to overlap the
run it repeats; the interval and lifetime only have to differ by more than a tick. In
`entrances` two firings share the cached token, a second version of the secret and a
second container make a stale cache, a token can outlive its time of reuse, texts of 5
are cut twice with newlines on, before and behind the limit, the sample paths hold one
of each kind the filters tell apart and one pair of which each is in the other's way, three
clicks leave one sign-in beside two others, two lines let an event follow a terminal
one, and a retry is a second attempt. The theorems below do away with the bounds of
every module.

Several promises of one part that belong together are one invariant, a conjunction of
named parts, each with its own comment:

| Invariant | Parts |
|---|---|
| `ServerTellsTruth` | `BusyCountsInvocations`, `AgentBehindReady`, `ReadyIsKept` |
| `FilesStayApart` | `OthersReplyOnlyInSameSecond`, `NoFileLeft` |
| `FiringIsAccounted` | `RunsAreAccounted`, `ToldAgainOnlyAfterDeath` |
| `AlarmIsTrue` | `AlarmMeansOverBudget`, `NoOverrunMissed` |
| `OnlyAdmittedAreServed` | `OnlyAllowedAreServed`, `OnlySignedAreServed` |
| `PassedOnHolds` | `TokenIsGood`, `ImagesAreStored` |
| `AnswerIsWhole` | `NothingLost`, `ChunksFit`, `CutShortens`, `ShownInOrder` |
| `WorkspaceIsOwn`, `SavesComeBack` | `RestoredIsSafe` and `OwnNamespaceOnly`; `SavedComesBack` and `SkillsComeBack` |
| `ComesUpAsProxy` | `OnlyProxies`, `NotKilledAlive` |
| `SignInHolds` | `OwnVerifier`, `NoSignOutDuringExchange`, `ReadyHasTokens` |
| `WireIsTransparent` | `CutsMakeNoDifference`, `RecordsArriveWhole` |
| `ChatIsInOrder` | `RecordsInOrder`, `RetryMeansLastExchange`, `BubbleIsOneAnswer` |

Every property has a mutant in `PROJECT.json`, and so has each part of a
conjunction: a plausible bug in one definition
(a dropped guard, a flag that is not reset, a lock that is not taken) under which
the same run finds the property violated. The mutated forms stand next to the
definitions they replace, marked `Mutant`.

### Fairness

- `Runtime!FairSpec`: weak fairness of what a turn does by itself (`Proceed`) and
  of its agent run (`RunAgent`). The event loop resumes a generator whose call
  returned; boto3 calls have timeouts and the agent has an iteration limit.
  `Disconnect` and `Provision` are not fair: neither has to happen.
- `Workspace!FairSpec`: weak fairness of each saver and of `Exit`. Threads run,
  S3 calls return or time out, an exiting interpreter ends. Writes, ticks, kills
  and signals are not fair. Weak fairness of `Acquire` is enough because no
  saver takes the lock for ever and turns save a finite number of times after
  SIGTERM stopped the periodic thread.
- `WebChat!FairWebChatSpec`: weak fairness of an attempt's reading and of the BFF's
  serving. User actions, breaks and cuts are not fair. In `entrances` this is
  the only fairness, of the part `page`.
- `Contract!ContractFairness`: weak fairness of start-up, of the loader thread, of the
  serving thread and of the periodic save's end; strong fairness of the shutdown,
  which waits for a lock the periodic thread may take again and again, each time for
  one save. Requests, callers that leave and the signal are not fair.
- `Credentials!CredentialsFairness`: weak fairness of the thread, whose event's wait
  times out, and of time. That STS works again is a premise of `RefreshRecovers`, no
  fairness.
- `Gateway!GatewayFairness`: weak fairness of a message's handling by the
  proxy and by the delivery. boto3's read timeout ends every call. AgentCore's own runs
  need not end.

## Disagreements found

1. `second_sigterm`: `_sigterm_handler` saves under the non-reentrant
   `_save_lock` on the main thread. A second SIGTERM during that save runs the
   handler on top of itself and waits for a lock its own thread holds. The comment
   in the handler says "shutdown must still exit". There is no other way to
   hang: as long as one signal came, the holder of the lock goes on
   (`OnlySecondSigtermBlocks`).
2. `kept_disk`: `restore` replaces local files whenever a process starts, also
   on a disk that was kept, where a file can be newer than its object.
   `docs/upstream/AGENTCORE_CONTRACT.md:257` calls `/mnt/workspace` the primary
   state storage that persists across stop and resume. What is lost is never
   what an upload had stored (`SavedIsNotLost`), but of a database that had a journal
   beside it: the journal is of the newer file, the pages of the object, and of the two
   SQLite may make anything.
3. `cut`: a response that ends without a terminal record leaves the page in
   `sending` or `streaming` with its controls disabled. The run checks `EverySendEnds`;
   `entrances` checks `UncutSendEnds`, that nothing else does, and
   `NeverWaitsForNothing` proves its safety: a page that waits waits for a request
   that has a step left, or for a response that was cut off.
4. `late_break`: the page offers a retry as soon as the `error` record arrived,
   while the first attempt is still reading; if its connection breaks then, the
   failure goes into the state of the retry.
5. `sign_out`: sign-out does not stop an attempt under way, and its last event
   brings back a page with the form and without a token. It never brings back the
   text, and only a sign-in that fails does the same (`SignOutIsLeftByAnAnswer`).

A sign-in that fails (`app.mjs:134`) and a `start` that ends late put their outcome over
whatever the page is doing by then. With a request under way that frees the form, and the
request and the next are reduced into one bubble. It is of the kind of disagreements 4 and
5 and has no run of its own; `ChatIsInOrder` and `OneAttemptAtATime` name it (`form`).

Seen in `Router` without a run of its own: the query of `_load_history` is eventually
consistent, so the turn just answered can be missing; a history can begin or end with
half a turn, which is two puts (`index.py:578` counts on "each turn = user +
assistant"); a save that fails with anything but a `ClientError` replaces the answer by
an apology; two turns saved in the same millisecond overwrite each other; all channels
but Discord acknowledge the webhook after the answer
(`docs/upstream/ARCHITECTURE.md:153` has "Return 200 immediately" first), so that a slow
message is carried out again. `AnsweredTurnsAreShown` names the exemptions it needs.

Other behaviour the models have and no document speaks against, so that it is no
disagreement:

- a stream of AgentCore that ends early is concluded with `message.completed` (`Wire`);
  a sign-in that fails leaves its code in the address, and every reload fails anew
  (`SignIn`);
- a full agent that failed to start is never started again, and a `/ping` sent while a
  request is in progress is answered after it (`Contract`);
- a binding that fails leaks its refresh thread (`Credentials`); objects are never
  deleted, so that a removed file comes back, and may take the name of a directory
  (`Workspace`, `Paths`); a file that is no database is uploaded as it lies there,
  half-written if need be (`Workspace`);
- usage reported with a user id is in no sum, and a CloudWatch that cannot be read
  counts as no usage (`TokenMetrics`);
- an exception in a Discord follow-up is not repeated and leaves the deferred answer
  open, and a photo whose text is a caption is never looked at (`Replies`);
- `/healthz` of the gateway says nothing of the gateway: one that hangs is never
  replaced (`GatewayStart`).

Of two more there is nothing to interleave, and so no model: the gateway's payload
has no `workspaceNamespace` (`agentcore_proxy.py:72`), which the runtime asks for once
`S3_BUCKET` is set; and session ids are cut to 128 characters (`:59`).

## Proofs

`RuntimeProofs` proves for any number of turns, any chunks, any number of deltas
and any set of assessments, from `RuntimeAssumption` alone (the types of the
constants, and that `Masked` is not a chunk):

| Theorem | States |
|---|---|
| `TypeCorrect` | `Spec => []TypeOK` |
| `Invariant` | `Spec => []IInv` |
| `ScreenedOutput` | only cleared text reaches a client |
| `ScreenedInput` | the agent only runs on a cleared message |
| `FaithfulMemory` | Memory holds a turn once, as it was said |
| `WholeReply` | a client that stayed has the whole answer |
| `EndIsFinal` | nothing follows the end of a turn but a record its lost client left behind (an action property) |
| `Refinement` | `Spec` implies `Contract!Spec` |
| `BoundedTurns` | a turn has at most `2 * MaxDeltas + 12` steps left, and when it is over its workspace was saved |
| `TurnsEnd` | each step of a turn takes it nearer its end, and no other step sets it back (an action property) |

None of the safety properties is inductive: they speak of `heard`, `memory` and
`prompt`, and whether those may be extended depends on where the turn is. `IInv`
says of each suspension point what is known there: which check has cleared the
message (`Started`), that reply and queue together are what the agent said
(`Streaming`), that what was delivered was cleared and equals the reply
(`Replied`), and that a recorded turn has ended and its record, or the one still being
written, is frozen with it (`MemoryInv`). A step of a turn leaves the other turns alone
(`OthersUnchanged`), so each action is looked at for its own turn (one lemma per
action) and Memory separately (`MemoryKept`).

`RuntimeProofs` also proves `Refinement`: `Spec` implies `Contract!Spec`, the safety
half of what the run `overlap` checks as `ImplementsContract`. The mapping gives
each place of `pc` its phase in the contract (`Phase`); a step of a turn is the
contract's step of the same turn or leaves its phase alone, which takes the
invariant above: without `Replied` a turn that ends could not be told to have
delivered what was cleared.

`BoundedTurns` and `TurnsEnd` are the safety of the liveness property `EveryTurnEnds`: what
fairness then adds is only that a step that can be taken is taken. `Left(t)` counts the
steps a turn has before it: `Place` numbers the suspension points in the order of the
code, and `WorkLeft` what the worker thread and the queue still hold, two steps for a
delta that was not emitted and one for a delta that was not taken. No failure, assessment
or lost client makes a turn go back; a client that leaves shortens it to its save. That
`Left` is a number needs that the agent has not said more than `MaxDeltas` deltas
(`SaidBounded`), and that a turn never waits for a thread that was not started and is over
only with its workspace saved is `WellEnded`.

`WorkspaceProofs` proves for any files, turns and numbers of writes, processes and
signals, from `WorkspaceAssumption` alone (databases are not documents, the bounds
are numbers):

| Theorem | States |
|---|---|
| `TypeCorrect` | `Spec => []TypeOK` |
| `Invariant` | `Spec => []IInv` |
| `Integrity` | databases are intact on the disk and in the bucket, unless a restore mixed them |
| `NoRegression` | no upload takes back what was saved (an action property) |
| `Completeness` | a save that ends covers all it could (an action property) |
| `StoreRefinement` | `Spec` implies `Store!Spec`: threads, signals, failures and kills do what `DurableStore` may do |
| `OnlySecondSigtermBlocks` | whoever holds the lock goes on, unless it is a handler that a later SIGTERM interrupted |
| `SavesEnd` | each step of a save takes it nearer its end, and no other step sets it back (an action property) |
| `SavedIsNotLost` | a start never takes what both the disk and the bucket had, but of a database beside a journal (an action property) |

The run `saves` checks `ImplementsStore`, and `StoreRefinement` proves it. `NoRegression`,
that no upload takes back what was saved (`HistoryPreserved`), is the part of it about one
step and follows from what every saver holds. The conjuncts of the invariant are:
`Exclusion`, that only the holder of the lock has files listed or read, so that an upload is the last word on its file; `Stack`, that
only signal handlers of the living process save; `Intact` and `TornIsEmpty`, what
copies of databases and half-written files look like; `Ahead`, that disk and held
copy have at least what the object has, dropped writes aside, which makes an upload
a step forward; `Coverage`, that each file a save found is listed, held, stored or
failed, which is what an ending save is judged by. `Exclusion` is used by the proofs
of all others. `AlwaysJournaled`, that a database being written has a journal, is what
the refinement adds to it: what a restore can spoil is what the agent had written to.

`OnlySecondSigtermBlocks` and `SavesEnd` are the safety of `ShutdownExits`. A save lists
its databases once and its documents once, so that neither an agent that goes on writing
nor another save gives it more to do (`Nearer`), and the lock it may wait for is held by a
saver that goes on, unless that is a handler a later signal interrupted (`HolderGoesOn`).

`RouterProofs` proves for any number of messages, executions, instants and turns in the
window, from `RouterAssumption` alone:

| Theorem | States |
|---|---|
| `RouterIsTyped` | `Spec => []TypeOK` |
| `HistoryIsChronological` | no history has what the user knew after what was answered later |
| `SavedTurnsAreShown` | a saved turn is in every history loaded in full (an action property) |

`IInv` ties the items to the executions that wrote them (`ItemsAreFromRuns`), the instants of
executions to the conversation (`InstantsFollowConversation`: whatever a user had heard when
sending a message had its instant before the answer to it got one) and the turns that were
saved to the table (`SavedIsThere`). It says nothing of the window; that a turn is inside
it is a fact about one query. `_load_history` sorts by key and takes the newest: `Rank` counts the
items that come earlier, `RankIsOnto` shows that it numbers them without gaps, and so a
turn with fewer than `MaxTurns` newer ones (`LaterItemsAreFew`) is among the items that
`NewestIs` says are taken, answer right behind question.

`WebChatProofs` proves for any number of messages, attempts and deltas:

| Theorem | States |
|---|---|
| `WebChatIsTyped` | the page and its requests are of their types |
| `RecordsAndRetryHold` | the order of the records and the message of a retry |
| `ChatStaysInOrder` | `ChatIsInOrder`, if `LateBreaks = FALSE` |
| `OneRequestAtATime` | `OneAttemptAtATime`, if `LateBreaks = FALSE` |
| `NeverWaitsForNothing` | a page that shows a message as being sent or answered has a request that goes on, or one whose response was cut off |
| `SignOutIsLeftByAnAnswer` | only the end of a request under way or a failed sign-in leads out of a sign-out, and it brings back no text (an action property), if `LateBreaks = FALSE` |

Three of them have a hypothesis: no connection breaks after its terminal record was
sent. Without it `ChatStaysInOrder` and `OneRequestAtATime` are false, as the run
`late_break` shows (disagreement 4), and `SignOutIsLeftByAnAnswer` has no invariant to rest on.
`ServerInv` has what the BFF wrote and the page took
so far, and `ChatPageInv` that, as long as nothing freed the form over a request, one
request at most is alive and the last bubble is its text.
One cannot do without the other: a form that is free lets a second request begin, which is only
known to be the only one because the first is no longer alive. `WaitInv` needs no such
premise: a page that waits has some request alive, and a response the BFF ended has its
terminal record last, so that a page that has read it all no longer waits.

The smaller modules have an inductive invariant each, proved from the assumptions on their
constants alone (their types; for `Credentials` also `0 < Interval < Lifetime`):

| Part | Invariant | Theorems |
|---|---|---|
| `Contract` | `ContractIInv` | `ContractTypeCorrect`, `ServerIsTruthful` (from `BusyCountIsExact`, `AgentIsThere`, `ReadyPromiseKept`), `SigtermSavesAll` |
| `Credentials` | `CredentialsIInv` | `CredentialsTypeCorrect`, `UploadsHaveTime` |
| `Gateway` | `CallIInv`, `FileIInv` | `GatewayTypeCorrect`, `RepeatsAreSevered`, `FilesAreKeptApart` (from `FilesAreRemoved`, `MixedOnlyInSameSecond`), `MessagesEnd` |
| `GatewayStart` | `StartIInv` | `GatewayComesUpPatched` |
| `Webhook` | `WebhookIInv` | `AdmissionIsRight` (from `StrangersAreTurnedAway`, `UnsignedAreTurnedAway`), `IdentitiesAreWhole` |
| `Replies` | `RepliesIInv` | `RepliesAreTyped`, `NoSecondAnswer`, `PassedOnIsThere` |
| `Cron` | `CronIInv` | `FiringsAreAccounted`, from its parts |
| `TokenMetrics` | `MetricsIInv` | `AlarmsAreTrue`, from its parts |
| `SignIn` | `SignInIInv` | `SignInIsRight`, from its parts |
| `Paths` | `PathsIInv` | `WorkspaceStaysOwn`, `SavedFilesComeBack` |
| `Chunks` | `ChunksIInv` | `AnswerArrivesWhole` |
| `Wire` | `BffInv`, `PageInv` | `WireIsTyped`, `CutsAreNotSeen` |

What makes them inductive:

- `Contract`: the flag is only set by a loader that has made the agent (`Loaded`), and
  nothing uploads after the final save (`FinalSaveIsLast`).
- `Credentials`: the age of the credentials and the time left to wait add up to `Interval`
  at most while refreshes succeed (`Fresh`), and what that leaves an upload (`FreshWhenTaken`).
- `Gateway`: a count of the runs by the attempt they belong to (`Tally`), and that a
  file belongs to a chat that wrote it in the second of its name (`FileIInv`); the two are
  independent and proved apart. `MessagesEnd` is the safety of `EveryMessageEnds`: a message
  has at most `2 * MaxRetries + 7` moves before it (`MessageLeft`), two for each attempt that
  is left, and each move lessens them. `GatewayStart`: which patches are made by the step `main` does
  next (`PatchesInOrder`), and that the health server is there from its start to the end.
- `Webhook`: what is known of a request in each phase (`Admission`), and that a deferred
  turn is that of a sender who was listed (`DeferredWereListed`). `Replies`: that a user
  has no more answers than excuses while an execution is under way, one fewer if the platform
  no longer waits for it, and one more at most when the message is over.
- `Cron`: the counts of runs and tellings by the place the attempt has reached (`Account`).
  `TokenMetrics`: what the sum has seen of the day by the stage of the collection.
- `SignIn`: the state and the verifier in storage are of one click, and a page whose
  start-up may still take the code in its address is signed out and has no message under way.
- `Paths`: what save judged and what it uploaded passes the filters (`JudgedIsKept`,
  `SavedIsKept`), and a complete workspace holds regular files only. That a saved file comes back needs
  that of the files in each other's way one is topmost (`TopmostIsThere`), and that
  nothing a save keeps lies above a skill (`NothingAboveSkill`).
- `Chunks`: a chunk reaches the chat a second time only while it is tried as plain text.
  That nothing is lost is a lemma about a cut (`CutIs`) and that `Printable` of two
  texts put together is both put together (`PrintableOfConcat`).
- `Wire`: what is open and what was yielded are the split of what was read, and
  nothing that ends the answer was yielded before (`BffInv`); what the page holds is the split of
  what it read, and that is the beginning of what was written (`PageInv`). The lemmas
  behind it are that a text may be split in two goes (`SplitOfConcat`) and that records written
  one after another come back as they were (`RecordsComeBack`). Its types bound what the two
  readers hold: two symbols of a line, six of a record, wherever the text is cut
  (`OpenOfAnswer`, `OpenOfRecords`).

Facts about recursively built texts (`FlattenSeq`, `Split`) and about paths of any length are proved
through the least number, or the shortest text (`LeastText`), for which they would fail:
`LeastNumber` says that a set of numbers that is not empty has a least one.

The compositions are proved about as well. A step of `MCEntrances` is a step of one part
and leaves the variables of the others alone (`StepIsOfOnePart`), so that each part of it
behaves as its own module has it (`PartsBehaveAsAlone`), and every theorem about a part
holds in the composition for any constants: `EntrancesAreTyped` (the invariant
`EntrancesTypeOK`), `EntrancesKeepPromises` (the safety of the run `entrances`) and, if
`LateBreaks = FALSE`, `PageOfEntrancesIsInOrder`. `PartsKeepPromises` says the same of
`MCLiveness`; the types of its parts, which the run does not list, are
`ContractTypeCorrect`, `CredentialsTypeCorrect` and `GatewayTypeCorrect`.

Every invariant and every safety action property of a passing run is stated by a theorem.
Model-checked only is liveness: that a step that can be taken is taken, under fairness,
which the provers do not handle. Of `EveryTurnEnds`, `ShutdownExits`, `UncutSendEnds` and
`EveryMessageEnds` what does not need fairness is proved, as said above: a turn and a message
have a bounded number of steps, a turn, a save and a message are set back by nothing, and a
page that waits has a request that has a step. Of `ImplementsContract` the safety half is
proved (`Refinement`). `EveryRequestServed` and `RefreshRecovers` rest on the runs alone: a
request waits for other connections and a refresh for STS, and the code bounds neither.

## Plan

Done in this order, most important behaviour first: `TurnContract`, `Runtime`,
`Workspace`, `WebChat`, `RuntimeProofs`, `WorkspaceProofs`, `Router`; then the other
components with their proofs: `Contract`, `Credentials`, `Gateway`, `Cron`, `TokenMetrics`,
`Webhook`, `Chunks`, `SignIn`, `Wire`, `Replies`, `Paths`, `GatewayStart`; then the proofs
about `WebChat`, `Router`, `GatewayStart`, `Replies`, `Paths`, `Chunks` and `Wire`; then
`DurableStore` with its refinement, the proofs about the compositions, and those of what
can be proved of the liveness properties.

What would come next:

1. The polling loop of `ensure_ready` with its deadline.
2. `Runtime` with `Workspace` in one state space: a save during a turn of another
   invocation. They meet only in `finally`, which both have as a step.

## Not modelled

- Model configuration, Bedrock request rewriting, CDK stacks and scripts:
  stateless look-ups, a recursive copy, declarations and one-shot commands.
- `bridge/` at the root: copies of the files under `app/hermes/bridge`.
- `save_immediate` of `WorkspaceSync`, which nothing calls.
- The fields of payloads, the padding and the cut of session ids to their length limits,
  the digests of identities, the text `_format_context` builds.
- The flush of an open record at the end of `parseSse`: the BFF writes whole records.
- The vendored gateway of hermes-agent, of which `GatewayStart` and `Gateway` have what
  `gateway/` patches and calls.
- hermes-agent, Bedrock, AgentCore, S3 and Cognito: outside this repository;
  what the code uses of them is marked external in the map.
- Log lines, wording of messages, rendering of the page.
